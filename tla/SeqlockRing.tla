----------------------------- MODULE SeqlockRing -----------------------------
(***************************************************************************)
(* detail::SeqlockRing<T, N> (concurrency/detail/seqlock_ring.hpp): the    *)
(* single-writer overwrite ring behind MessageSlot (N = 1) and             *)
(* MessageBuffer.  Every access to a shared atomic is a step of its own;   *)
(* loads the writer makes of words that only it writes are taken together  *)
(* with the store that follows them.  The memory is sequentially           *)
(* consistent here.                                                        *)
(*                                                                         *)
(* The value of the n-th call of Store is the number n, and each of the    *)
(* kWords words of that value is n, so a copy that mixes two values shows. *)
(***************************************************************************)
EXTENDS Naturals, Sequences

CONSTANTS
    N,              \* number of cells (kDepth)
    kWords,         \* 64-bit words of one value
    Readers,        \* the reading threads or processes
    Operations,     \* which of the three verbs the readers call
    MaxRetries,     \* max_retries of LoadBounded
    SnapshotSizes,  \* the values k that Snapshot is called with
    MaxStores,      \* bound: calls of Store
    MaxCrashes      \* bound: deaths of the writer

ASSUME RingAssumption ==
    /\ N \in Nat \ {0}
    /\ kWords \in Nat \ {0}
    /\ MaxRetries \in Nat
    /\ SnapshotSizes \subseteq Nat
    /\ MaxStores \in Nat
    /\ Operations \subseteq {"Load", "LoadBounded", "Snapshot"}

VARIABLES
    writeCount,     \* header_->write_count
    seq,            \* cells_[n].seq
    index,          \* cells_[n].index
    words,          \* cells_[n].words
    wpc,            \* where the writer is in Store, or "dead"
    wIdx,           \* Store: idx
    wSeq,           \* Store: s
    wWord,          \* Store: the loop variable of the word copy
    rd,             \* the readers' locals and results
    stores,         \* ghost: calls of Store so far, the value being stored
    log,            \* ghost: log[p + 1] is the value published at position p
    crashes,        \* ghost: deaths of the writer so far
    quiet,          \* ghost: readers whose call saw an idle writer throughout
    straddled       \* ghost: readers whose call a repair retracted a cell under

cells == <<writeCount, seq, index, words>>
writer == <<wpc, wIdx, wSeq, wWord, stores>>
vars == <<cells, writer, rd, log, crashes, quiet, straddled>>

Cells == 0 .. N - 1
WordIds == 1 .. kWords
CellOf(p) == p % N
Odd(s) == s % 2 = 1

(* A value as the words of its copy. *)
Whole(v) == [w \in WordIds |-> v]

-----------------------------------------------------------------------------
(* The constructor with storage.Initialize(): no value, even zero sequences. *)

Idle == [pc |-> "idle", op |-> "Load", k |-> 0, attempt |-> 0, c |-> 0,
         limit |-> 0, i |-> 0, s1 |-> 0, idx |-> 0, w |-> 1,
         staged |-> Whole(0), floor |-> 0, res |-> "none", out |-> <<>>]

Init ==
    /\ writeCount = 0
    /\ seq = [n \in Cells |-> 0]
    /\ index = [n \in Cells |-> 0]
    /\ words = [n \in Cells |-> Whole(0)]
    /\ wpc = "idle" /\ wIdx = 0 /\ wSeq = 0 /\ wWord = 1
    /\ rd = [r \in Readers |-> Idle]
    /\ stores = 0 /\ log = <<>> /\ crashes = 0
    /\ quiet = {} /\ straddled = {}

-----------------------------------------------------------------------------
(* Store, one action per shared access.  A step of the writer ends the     *)
(* quiet of every call in progress.                                        *)

WriterStep ==
    /\ quiet' = {}
    /\ UNCHANGED <<rd, crashes, straddled>>

(* write_count and the cell's sequence are the writer's own: it loads them *)
(* and marks the cell odd.                                                 *)
StoreBegin ==
    /\ wpc = "idle"
    /\ stores < MaxStores
    /\ LET k == CellOf(writeCount) IN
         /\ wIdx' = writeCount
         /\ wSeq' = seq[k]
         /\ seq' = [seq EXCEPT ![k] = seq[k] + 1]
    /\ stores' = stores + 1
    /\ wpc' = "index"
    /\ WriterStep
    /\ UNCHANGED <<writeCount, index, words, wWord, log>>

StoreIndex ==
    /\ wpc = "index"
    /\ index' = [index EXCEPT ![CellOf(wIdx)] = wIdx]
    /\ wWord' = 1
    /\ wpc' = "words"
    /\ WriterStep
    /\ UNCHANGED <<writeCount, seq, words, wIdx, wSeq, stores, log>>

(* Fault: the word copy runs one word too far (i <= kWords). *)
StoreWordOverrun ==
    /\ wpc = "words"
    /\ words' = [words EXCEPT ![CellOf(wIdx)] =
                    [words[CellOf(wIdx)] EXCEPT ![wWord] = stores]]
    /\ IF wWord > kWords
         THEN wpc' = "even" /\ wWord' = 1
         ELSE wpc' = "words" /\ wWord' = wWord + 1
    /\ WriterStep
    /\ UNCHANGED <<writeCount, seq, index, wIdx, wSeq, stores, log>>

StoreWord ==
    /\ wpc = "words"
    /\ words' = [words EXCEPT ![CellOf(wIdx)] =
                    [words[CellOf(wIdx)] EXCEPT ![wWord] = stores]]
    /\ IF wWord = kWords
         THEN wpc' = "even" /\ wWord' = 1
         ELSE wpc' = "words" /\ wWord' = wWord + 1
    /\ WriterStep
    /\ UNCHANGED <<writeCount, seq, index, wIdx, wSeq, stores, log>>

(* (W2) *)
StoreEven ==
    /\ wpc = "even"
    /\ seq' = [seq EXCEPT ![CellOf(wIdx)] = wSeq + 2]
    /\ wpc' = "publish"
    /\ WriterStep
    /\ UNCHANGED <<writeCount, index, words, wIdx, wSeq, wWord, stores, log>>

(* (W3): the value is published. *)
StorePublish ==
    /\ wpc = "publish"
    /\ writeCount' = wIdx + 1
    /\ log' = Append(log, stores)
    /\ wpc' = "idle"
    /\ WriterStep
    /\ UNCHANGED <<seq, index, words, wIdx, wSeq, wWord, stores>>

Store == StoreBegin \/ StoreIndex \/ StoreWord \/ StoreEven \/ StorePublish

(* The writing process is killed between any two of its accesses. *)
Crash ==
    /\ wpc # "dead"
    /\ crashes < MaxCrashes
    /\ crashes' = crashes + 1
    /\ wpc' = "dead"
    /\ quiet' = {}
    /\ UNCHANGED <<cells, wIdx, wSeq, wWord, stores, rd, log, straddled>>

(* Fault: the repair looks at the newest published cell instead. *)
RepairNewest ==
    /\ wpc = "dead"
    /\ LET k == CellOf(writeCount + N - 1) IN
         IF Odd(seq[k])
           THEN /\ seq' = [seq EXCEPT ![k] = 0]
                /\ straddled' =
                     straddled \cup {r \in Readers : rd[r].pc # "idle"}
           ELSE UNCHANGED <<seq, straddled>>
    /\ wpc' = "idle"
    /\ quiet' = {}
    /\ UNCHANGED <<writeCount, index, words, wIdx, wSeq, wWord, stores, rd,
                   log, crashes>>

(* Fault: the repair rounds the sequence up to even, as if the dead store  *)
(* had come to its end.                                                    *)
RepairRoundsUp ==
    /\ wpc = "dead"
    /\ LET k == CellOf(writeCount) IN
         IF Odd(seq[k])
           THEN /\ seq' = [seq EXCEPT ![k] = seq[k] + 1]
                /\ straddled' =
                     straddled \cup {r \in Readers : rd[r].pc # "idle"}
           ELSE UNCHANGED <<seq, straddled>>
    /\ wpc' = "idle"
    /\ quiet' = {}
    /\ UNCHANGED <<writeCount, index, words, wIdx, wSeq, wWord, stores, rd,
                   log, crashes>>

(* A reclaiming writer repairs the cell the cursor never passed. *)
RepairAfterWriterCrash ==
    /\ wpc = "dead"
    /\ LET k == CellOf(writeCount) IN
         IF Odd(seq[k])
           THEN /\ seq' = [seq EXCEPT ![k] = 0]
                /\ straddled' =
                     straddled \cup {r \in Readers : rd[r].pc # "idle"}
           ELSE UNCHANGED <<seq, straddled>>
    /\ wpc' = "idle"
    /\ quiet' = {}
    /\ UNCHANGED <<writeCount, index, words, wIdx, wSeq, wWord, stores, rd,
                   log, crashes>>

-----------------------------------------------------------------------------
(* Load, LoadBounded and Snapshot.  The three verbs read a cell the same   *)
(* way, want being the position they look for; they differ in what they do *)
(* when the copy does not validate, and Snapshot goes on to older cells.   *)

Want(l) == l.c - 1 - l.i
(* Fault: the walk starts one cell too far. *)
WantNextCell(l) == CellOf(l.c - l.i)
WantCell(l) == CellOf(Want(l))

ReaderStep(r, l) ==
    /\ rd' = [rd EXCEPT ![r] = l]
    /\ UNCHANGED <<cells, writer, log, crashes, quiet, straddled>>

Returned(l, res, out) == [l EXCEPT !.pc = "idle", !.res = res, !.out = out]

Call(r, op, k) ==
    /\ rd[r].pc = "idle"
    /\ rd' = [rd EXCEPT ![r] = [Idle EXCEPT !.pc = "cursor", !.op = op,
                                            !.k = k, !.floor = writeCount]]
    /\ quiet' = IF wpc = "idle" THEN quiet \cup {r} ELSE quiet \ {r}
    /\ straddled' = straddled \ {r}
    /\ UNCHANGED <<cells, writer, log, crashes>>

(* (R0) for the read-latest verbs *)
LoadCursor(r) ==
    /\ rd[r].pc = "cursor" /\ rd[r].op # "Snapshot"
    /\ ReaderStep(r,
         IF writeCount = 0
           THEN Returned(rd[r], "kEmpty", <<>>)
           ELSE [rd[r] EXCEPT !.pc = "seq", !.c = writeCount])

Least(a, b) == IF b < a THEN b ELSE a

(* (R0) for Snapshot, with the length of its walk *)
SnapshotCursor(r) ==
    /\ rd[r].pc = "cursor" /\ rd[r].op = "Snapshot"
    /\ LET limit == Least(Least(rd[r].k, writeCount), N)
           l == [rd[r] EXCEPT !.c = writeCount, !.limit = limit]
       IN ReaderStep(r, IF limit = 0 THEN Returned(l, "count", <<>>)
                                     ELSE [l EXCEPT !.pc = "seq"])

(* Fault: a retry keeps the cursor it has. *)
RetryStaleCursor(l) ==
    IF l.op = "Snapshot" THEN Returned(l, "count", l.out)
    ELSE IF l.op = "LoadBounded" /\ l.attempt = MaxRetries
      THEN Returned(l, "kStalled", <<>>)
      ELSE [l EXCEPT !.pc = "seq",
                     !.attempt = IF l.op = "Load" THEN 0 ELSE l.attempt + 1]

(* A copy that did not validate: Load tries again without bound,           *)
(* LoadBounded while it has attempts left, Snapshot stops.                 *)
Retry(l) ==
    IF l.op = "Snapshot" THEN Returned(l, "count", l.out)
    ELSE IF l.op = "LoadBounded" /\ l.attempt = MaxRetries
      THEN Returned(l, "kStalled", <<>>)
      ELSE [l EXCEPT !.pc = "cursor",
                     !.attempt = IF l.op = "Load" THEN 0 ELSE l.attempt + 1]

(* Fault: a cell that is being written counts as never written. *)
LoadSeqOddIsEmpty(r) ==
    /\ rd[r].pc = "seq"
    /\ LET s1 == seq[WantCell(rd[r])] IN
       ReaderStep(r,
         IF (s1 = 0 \/ Odd(s1)) /\ rd[r].op # "Snapshot"
           THEN Returned(rd[r], "kEmpty", <<>>)
         ELSE IF s1 = 0 \/ Odd(s1)
           THEN Retry(rd[r])
         ELSE [rd[r] EXCEPT !.pc = "index", !.s1 = s1])

(* (R1) *)
LoadSeq(r) ==
    /\ rd[r].pc = "seq"
    /\ LET s1 == seq[WantCell(rd[r])] IN
       ReaderStep(r,
         IF s1 = 0 /\ rd[r].op # "Snapshot"
           THEN Returned(rd[r], "kEmpty", <<>>)
         ELSE IF s1 = 0 \/ Odd(s1)
           THEN Retry(rd[r])
         ELSE [rd[r] EXCEPT !.pc = "index", !.s1 = s1])

LoadIndex(r) ==
    /\ rd[r].pc = "index"
    /\ ReaderStep(r, [rd[r] EXCEPT !.pc = "words", !.w = 1,
                                   !.idx = index[WantCell(rd[r])]])

LoadWord(r) ==
    /\ rd[r].pc = "words"
    /\ LET w == rd[r].w IN
       ReaderStep(r,
         [rd[r] EXCEPT
            !.staged = [rd[r].staged EXCEPT
                          ![w] = words[WantCell(rd[r])][w]],
            !.pc = IF w = kWords THEN "validate" ELSE "words",
            !.w = IF w = kWords THEN 1 ELSE w + 1])

(* Faults: no second look at the sequence, no look at the index, an index  *)
(* compared with the cursor itself.                                        *)
ValidNoRecheck(l) == l.idx = Want(l)
ValidNoIndex(l) == seq[WantCell(l)] = l.s1
ValidCursorIndex(l) == seq[WantCell(l)] = l.s1 /\ l.idx = l.c

(* The copy is taken when the sequence has not moved and the index is the  *)
(* wanted one.                                                             *)
Valid(l) == seq[WantCell(l)] = l.s1 /\ l.idx = Want(l)

(* What a valid copy does: Load and LoadBounded return it, Snapshot keeps  *)
(* it and walks on.                                                        *)
Taken(l) ==
    LET out == Append(l.out, [pos |-> l.idx, words |-> l.staged]) IN
    IF l.op # "Snapshot" THEN Returned(l, "kValue", out)
    ELSE IF l.i + 1 = l.limit THEN Returned(l, "count", out)
    ELSE [l EXCEPT !.pc = "seq", !.i = l.i + 1, !.out = out]

(* (R2), the second load of the sequence *)
Validate(r) ==
    /\ rd[r].pc = "validate"
    /\ ReaderStep(r, IF Valid(rd[r]) THEN Taken(rd[r]) ELSE Retry(rd[r]))

Read(r) ==
    \/ LoadCursor(r) \/ SnapshotCursor(r)
    \/ LoadSeq(r) \/ LoadIndex(r) \/ LoadWord(r) \/ Validate(r)

CallAny(r) ==
    \/ \E op \in Operations \ {"Snapshot"} : Call(r, op, 0)
    \/ "Snapshot" \in Operations /\ \E k \in SnapshotSizes : Call(r, "Snapshot", k)

-----------------------------------------------------------------------------
(* In process, the writer and the readers live and die together. *)
Next == Store \/ \E r \in Readers : CallAny(r) \/ Read(r)

Spec == Init /\ [][Next]_vars

(* Across processes (RegionStorage over a shared mapping), the writer may  *)
(* be killed and a new one may claim the ring.                             *)
CrashNext == Next \/ Crash \/ RepairAfterWriterCrash

CrashSpec == Init /\ [][CrashNext]_vars

(* A thread inside a call goes on running.  Nothing makes a thread call,   *)
(* and nothing can be asked of a writer that may be killed.                *)
FairReaders == \A r \in Readers : WF_vars(Read(r))

FairReadersSpec == CrashSpec /\ FairReaders

-----------------------------------------------------------------------------
(* Properties. *)

ReaderState ==
    [pc : {"idle", "cursor", "seq", "index", "words", "validate"},
     op : {"Load", "LoadBounded", "Snapshot"},
     k : Nat, attempt : 0 .. MaxRetries, c : Nat, limit : 0 .. N, i : Nat,
     s1 : Nat, idx : Nat, w : WordIds, staged : [WordIds -> Nat],
     floor : Nat, res : {"none", "kValue", "kEmpty", "kStalled", "count"},
     out : Seq([pos : Nat, words : [WordIds -> Nat]])]

(* The types of the cells, the cursor and the locals of Store and of the   *)
(* reads; no access leaves the cell and word arrays.                       *)
TypeOK ==
    /\ writeCount \in Nat
    /\ seq \in [Cells -> Nat]
    /\ index \in [Cells -> Nat]
    /\ words \in [Cells -> [WordIds -> Nat]]
    /\ wpc \in {"idle", "index", "words", "even", "publish", "dead"}
    /\ wIdx \in Nat /\ wSeq \in Nat /\ wWord \in WordIds
    /\ stores \in Nat /\ log \in Seq(Nat) /\ crashes \in Nat
    /\ rd \in [Readers -> ReaderState]
    /\ quiet \subseteq Readers /\ straddled \subseteq Readers

(* The j-th entry of a result is the value published at position c - j. *)
OutIsPublished(out, c) ==
    \A j \in 1 .. Len(out) :
        /\ out[j].pos + j = c
        /\ out[j].pos < Len(log)
        /\ \A w \in WordIds : out[j].words[w] = log[out[j].pos + 1]

(* Whatever Load, LoadBounded or Snapshot has taken is whole and is the    *)
(* value published at its position: a torn copy, or a payload paired with  *)
(* another store's index, never validates, and the entries of a snapshot   *)
(* are consecutive, newest first.  It holds across crashes of the writer   *)
(* too, for every call that no repair ran under.                           *)
ReadsAreWhole ==
    \A r \in Readers \ straddled : OutIsPublished(rd[r].out, rd[r].c)

(* Position p can still be read from its cell. *)
Holds(p) ==
    LET k == CellOf(p) IN seq[k] # 0 /\ ~Odd(seq[k]) /\ index[k] = p

(* A published position that can no longer be read never can be again: no  *)
(* store, death or repair opens the cell it was in with the index it had,  *)
(* though the store may have died before it wrote its own.                 *)
NothingComesBack ==
    [][\A p \in 0 .. writeCount - 1 : ~Holds(p) => ~Holds(p)']_vars

(* A Snapshot that stopped before its limit left nothing behind: no older  *)
(* position of the walk can be read any more.                              *)
SnapshotLosesNothing ==
    \A r \in Readers :
        rd[r].pc = "idle" /\ rd[r].res = "count" =>
            \A j \in Len(rd[r].out) .. rd[r].limit - 1 :
                ~Holds(rd[r].c - 1 - j)

(* The read-latest verbs answer "empty" only to a call that began before   *)
(* anything was published, except where a repair retracted the cell: in a  *)
(* ring of one, or under the call.                                         *)
EmptyIsHonest ==
    \A r \in Readers \ straddled :
        rd[r].res = "kEmpty" => rd[r].floor = 0 \/ (N = 1 /\ crashes > 0)

(* A call during which the writer was idle succeeds at the first attempt:  *)
(* LoadBounded does not stall, Snapshot returns all it was asked for, and  *)
(* what they return is the newest.  A dead writer's store costs the walks  *)
(* after the repair at most the oldest of the N entries.                   *)
QuietReadsSucceed ==
    \A r \in quiet : rd[r].pc = "idle" =>
        /\ rd[r].res # "kStalled"
        /\ rd[r].res = "kValue" => rd[r].out[1].pos + 1 = writeCount
        /\ rd[r].res = "count" =>
              LET held == IF crashes = 0 THEN N ELSE N - 1 IN
              Len(rd[r].out) >= Least(Least(rd[r].k, writeCount), held)

(* Every read of a ring of two or more cells returns once the writer       *)
(* stops, wherever it stops: idle, in the middle of a store, or dead.  The *)
(* newest published cell is never the one a dead writer left odd.          *)
LoadReturns ==
    \A r \in Readers : rd[r].pc # "idle" ~> rd[r].pc = "idle"

-----------------------------------------------------------------------------
(* Why the reads are whole: the inductive invariant of CrashSpec. *)

CurrentCell == CellOf(writeCount)

(* The writer works on the cell after the newest published one, and only   *)
(* that cell can be odd; between (W2) and (W3) it holds the whole value.   *)
WriterInv ==
    /\ Len(log) = writeCount
    /\ wpc \in {"index", "words", "even", "publish"} => wIdx = writeCount
    /\ wpc \in {"index", "words", "even"} =>
          seq[CurrentCell] = wSeq + 1 /\ ~Odd(wSeq)
    /\ wpc \in {"words", "even", "publish"} => index[CurrentCell] = writeCount
    /\ wpc = "words" =>
          \A w \in WordIds : w < wWord => words[CurrentCell][w] = stores
    /\ wpc \in {"even", "publish"} =>
          \A w \in WordIds : words[CurrentCell][w] = stores
    /\ \A k \in Cells : Odd(seq[k]) =>
          k = CurrentCell /\ wpc \in {"index", "words", "even", "dead"}

(* A cell at rest holds one value, the one published at its index, or the  *)
(* one that is about to be.                                                *)
CellInv ==
    \A k \in Cells : seq[k] # 0 /\ ~Odd(seq[k]) =>
        /\ CellOf(index[k]) = k
        /\ index[k] <= writeCount
        /\ index[k] < writeCount =>
              \A w \in WordIds : words[k][w] = log[index[k] + 1]

(* A walk stays among published positions and has taken one entry for each *)
(* cell it has left behind.                                                *)
WalkOK(l) ==
    /\ l.pc # "idle" => Len(l.out) = l.i /\ l.floor <= writeCount
    /\ l.pc # "idle" /\ l.op # "Snapshot" => l.i = 0
    /\ l.pc = "cursor" => l.i = 0
    /\ l.pc \notin {"idle", "cursor"} =>
          l.i < l.c /\ l.floor <= l.c /\ l.c <= writeCount
    /\ l.pc \notin {"idle", "cursor"} /\ l.op = "Snapshot" =>
          l.i < l.limit /\ l.limit <= l.c

(* What a reader has copied is what the cell still holds, as long as the   *)
(* cell's sequence is the one it first read.                               *)
CopyOK(l) ==
    l.pc \in {"index", "words", "validate"} =>
        LET k == WantCell(l) IN
        /\ l.s1 # 0 /\ ~Odd(l.s1) /\ l.s1 <= seq[k]
        /\ l.s1 = seq[k] =>
             /\ l.pc # "index" => l.idx = index[k]
             /\ l.pc = "words" =>
                  \A w \in WordIds : w < l.w => l.staged[w] = words[k][w]
             /\ l.pc = "validate" =>
                  \A w \in WordIds : l.staged[w] = words[k][w]

WalkInv == \A r \in Readers : WalkOK(rd[r])
CopyInv == \A r \in Readers \ straddled : CopyOK(rd[r])

IInv == TypeOK /\ WriterInv /\ CellInv /\ WalkInv /\ CopyInv /\ ReadsAreWhole

-----------------------------------------------------------------------------
(* Why nothing is lost and nothing is stale. *)

(* All but the cell the writer works on hold the newest positions; without *)
(* a crash that one holds the oldest until the writer comes to it.         *)
HeldInv ==
    /\ wpc = "publish" => seq[CurrentCell] # 0
    /\ crashes = 0 => wpc # "dead"
    /\ \A p \in 0 .. writeCount :
         /\ p < writeCount /\ writeCount < p + N => Holds(p)
         /\ p + N = writeCount /\ crashes = 0 =>
               seq[CellOf(p)] # 0 /\ (wpc = "idle" => Holds(p))

(* Positions go in their order. *)
GoneInv == \A p \in 0 .. writeCount : p + N < writeCount => ~Holds(p)

(* A copy that will not validate is of a position that is gone. *)
LossOK(l) ==
    l.pc \in {"index", "words", "validate"} =>
        /\ seq[WantCell(l)] # l.s1 => ~Holds(Want(l))
        /\ l.pc # "index" /\ l.idx # Want(l) => index[WantCell(l)] # Want(l)

(* What a walk that ended left behind is gone for good. *)
EndOK(l) ==
    l.pc = "idle" /\ l.res = "count" =>
        /\ l.limit <= l.c /\ l.c <= writeCount
        /\ \A j \in Len(l.out) .. l.limit - 1 : ~Holds(l.c - 1 - j)

(* Every store has a number, and no walk is longer than it was asked for. *)
CountInv ==
    /\ stores \in 0 .. MaxStores
    /\ wpc \in {"index", "words", "even", "publish"} => stores > 0
    /\ \A r \in Readers :
         rd[r].pc \notin {"idle", "cursor"} /\ rd[r].op = "Snapshot" =>
             rd[r].limit <= rd[r].k

LossInv == \A r \in Readers : LossOK(rd[r]) /\ EndOK(rd[r])

(* The newest cell of a call has been written, unless it was retracted. *)
NewestOK(l) ==
    /\ l.pc # "idle" => l.res = "none"
    /\ l.pc \notin {"idle", "cursor"} /\ (N > 1 \/ crashes = 0) =>
          seq[CellOf(l.c - 1)] # 0

NewestInv == \A r \in Readers \ straddled : NewestOK(rd[r])

(* A call that saw an idle writer only works on what is there now. *)
QuietOK(l) ==
    /\ l.pc \notin {"idle", "cursor"} =>
          /\ l.c = writeCount
          /\ l.op = "Snapshot" => l.limit = Least(Least(l.k, writeCount), N)
    /\ l.pc \in {"index", "words", "validate"} => seq[WantCell(l)] = l.s1
    /\ l.pc \in {"words", "validate"} => index[WantCell(l)] = l.idx

QuietInv ==
    \A r \in quiet : wpc = "idle" /\ r \notin straddled /\ QuietOK(rd[r])

-----------------------------------------------------------------------------
(* What the code's comments and tests say of a ring whose writer crashed.  *)

(* "A torn read can never validate." *)
TornNeverValidates ==
    \A r \in Readers : \A j \in 1 .. Len(rd[r].out) :
        \E v \in 1 .. MaxStores : rd[r].out[j].words = Whole(v)

(* After the repair the ring reads as never written, or as its last        *)
(* published value: nothing stalls on a ring whose writer is idle.         *)
RepairedRingDoesNotStall ==
    \A r \in quiet : rd[r].pc = "idle" => rd[r].res # "kStalled"

=============================================================================
