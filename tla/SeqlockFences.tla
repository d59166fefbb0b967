---------------------------- MODULE SeqlockFences ----------------------------
(***************************************************************************)
(* Store and the reads of detail::SeqlockRing under the memory orders they *)
(* ask for (concurrency/detail/seqlock_ring.hpp): SeqlockRing takes the    *)
(* memory to be sequentially consistent, here it is that of C++.           *)
(*                                                                         *)
(* Every atomic keeps all the values ever stored in it, in modification    *)
(* order, each with the view it carries: for every atomic, the oldest      *)
(* store that a reader of the value may still read afterwards.  A reader   *)
(* has a view of its own and may read any store not older than that.  What *)
(* a store carries, and what a load does with it, is the memory order; a   *)
(* load is never performed early, which is enough where no reader stores.  *)
(*                                                                         *)
(* The readers share nothing they write, so one reader is all of them. The *)
(* n-th call of Store stores the number n in each of the kWords words.     *)
(***************************************************************************)
EXTENDS Naturals, Sequences

CONSTANTS
    N,              \* number of cells (kDepth)
    kWords,         \* 64-bit words of one value
    MaxStores       \* bound: calls of Store

ASSUME FenceAssumption == N \in Nat \ {0} /\ kWords \in Nat \ {0}

VARIABLES
    mem,            \* mem[a]: the stores to the atomic a, oldest first
    frel,           \* the writer's view at its last release fence
    wpc,            \* where the writer is in Store
    wWord,          \* Store: the loop variable of the word copy
    stores,         \* ghost: calls of Store so far, the value being stored
    rd,             \* the reader's locals
    cur,            \* the reader's view
    acq             \* what its relaxed loads met, for the next acquire fence

vars == <<mem, frel, wpc, wWord, stores, rd, cur, acq>>

Cells == 0 .. N - 1
WordIds == 1 .. kWords
CellOf(p) == p % N

Cursor == <<"write_count", 0, 0>>
SeqOf(k) == <<"seq", k, 0>>
IndexOf(k) == <<"index", k, 0>>
WordOf(k, w) == <<"word", k, w>>

Atomics ==
    {Cursor} \cup {SeqOf(k) : k \in Cells} \cup {IndexOf(k) : k \in Cells}
    \cup {WordOf(k, w) : k \in Cells, w \in WordIds}

-----------------------------------------------------------------------------
(* Views. *)

Oldest == [a \in Atomics |-> 1]
Join(v, u) == [a \in Atomics |-> IF v[a] < u[a] THEN u[a] ELSE v[a]]

(* The writer has seen every store: they are all its own. *)
Everything == [a \in Atomics |-> Len(mem[a])]

Latest(a) == mem[a][Len(mem[a])].val

(* A store is seen with itself, and with what its memory order adds: the   *)
(* last release fence for a relaxed one, everything before it for a        *)
(* release one.                                                            *)
Put(a, val, seen) ==
    LET view == [seen EXCEPT ![a] = Len(mem[a]) + 1] IN
    mem' = [mem EXCEPT ![a] = Append(mem[a], [val |-> val, view |-> view])]

StoreRelaxed(a, val) == Put(a, val, frel)
StoreRelease(a, val) == Put(a, val, Everything)

(* The reader's loads: t is the store that is read.  An acquire load takes *)
(* over the view at once, a relaxed one keeps it for the next fence.       *)
Readable(a) == cur[a] .. Len(mem[a])

LoadRelaxed(a, t) ==
    /\ cur' = [cur EXCEPT ![a] = t]
    /\ acq' = Join(acq, mem[a][t].view)

LoadAcquire(a, t) ==
    /\ cur' = Join(cur, mem[a][t].view)
    /\ acq' = Join(acq, mem[a][t].view)

-----------------------------------------------------------------------------
(* The constructor's zeros are seen by every thread that gets the ring. *)

Idle == [pc |-> "idle", op |-> "Load", c |-> 0, i |-> 0, s1 |-> 0, idx |-> 0,
         w |-> 1, staged |-> [w \in WordIds |-> 0], pos |-> 0, res |-> "none"]

Init ==
    /\ mem = [a \in Atomics |-> <<[val |-> 0, view |-> Oldest]>>]
    /\ frel = Oldest
    /\ wpc = "idle" /\ wWord = 1 /\ stores = 0
    /\ rd = Idle /\ cur = Oldest /\ acq = Oldest

-----------------------------------------------------------------------------
(* Store.  idx and s are the writer's own last stores. *)

wCell == CellOf(Latest(Cursor))

WriterStep == UNCHANGED <<rd, cur, acq>>

StoreOdd ==
    /\ wpc = "idle"
    /\ stores < MaxStores
    /\ StoreRelaxed(SeqOf(wCell), Latest(SeqOf(wCell)) + 1)
    /\ stores' = stores + 1
    /\ wpc' = "fence"
    /\ WriterStep
    /\ UNCHANGED <<frel, wWord>>

(* Fault: no fence (W1). *)
StoreNoFence ==
    /\ wpc = "fence"
    /\ wpc' = "index"
    /\ WriterStep
    /\ UNCHANGED <<mem, frel, wWord, stores>>

(* (W1) *)
StoreFence ==
    /\ wpc = "fence"
    /\ frel' = Everything
    /\ wpc' = "index"
    /\ WriterStep
    /\ UNCHANGED <<mem, wWord, stores>>

StoreIndex ==
    /\ wpc = "index"
    /\ StoreRelaxed(IndexOf(wCell), Latest(Cursor))
    /\ wpc' = "words"
    /\ WriterStep
    /\ UNCHANGED <<frel, wWord, stores>>

StoreWord ==
    /\ wpc = "words"
    /\ StoreRelaxed(WordOf(wCell, wWord), stores)
    /\ IF wWord = kWords
         THEN wpc' = "even" /\ wWord' = 1
         ELSE wpc' = "words" /\ wWord' = wWord + 1
    /\ WriterStep
    /\ UNCHANGED <<frel, stores>>

(* (W2) *)
StoreEven ==
    /\ wpc = "even"
    /\ StoreRelease(SeqOf(wCell), Latest(SeqOf(wCell)) + 1)
    /\ wpc' = "publish"
    /\ WriterStep
    /\ UNCHANGED <<frel, wWord, stores>>

(* Fault: the cursor is stored relaxed. *)
StorePublishRelaxed ==
    /\ wpc = "publish"
    /\ StoreRelaxed(Cursor, Latest(Cursor) + 1)
    /\ wpc' = "idle"
    /\ WriterStep
    /\ UNCHANGED <<frel, wWord, stores>>

(* (W3) *)
StorePublish ==
    /\ wpc = "publish"
    /\ StoreRelease(Cursor, Latest(Cursor) + 1)
    /\ wpc' = "idle"
    /\ WriterStep
    /\ UNCHANGED <<frel, wWord, stores>>

Store ==
    \/ StoreOdd \/ StoreFence \/ StoreIndex \/ StoreWord \/ StoreEven
    \/ StorePublish

-----------------------------------------------------------------------------
(* Load and Snapshot; LoadBounded is Load with a bound on its retries. *)

Want(l) == l.c - 1 - l.i
WantCell(l) == CellOf(Want(l))
Least(a, b) == IF b < a THEN b ELSE a

ReaderStep(l) ==
    /\ rd' = l
    /\ UNCHANGED <<mem, frel, wpc, wWord, stores>>

Call(op) ==
    /\ rd.pc = "idle"
    /\ ReaderStep([Idle EXCEPT !.pc = "cursor", !.op = op])
    /\ UNCHANGED <<cur, acq>>

(* (R0) *)
LoadCursor ==
    /\ rd.pc = "cursor"
    /\ \E t \in Readable(Cursor) :
         LET c == mem[Cursor][t].val IN
         /\ LoadAcquire(Cursor, t)
         /\ ReaderStep([rd EXCEPT !.pc = IF c = 0 THEN "idle" ELSE "seq",
                                  !.c = c, !.res = "none"])

(* A copy that cannot be taken: Load tries again, Snapshot stops. *)
Lost(l) ==
    [l EXCEPT !.pc = IF l.op = "Load" THEN "cursor" ELSE "idle",
              !.res = "lost"]

(* (R1); zero is "crash-repaired" to every verb. *)
LoadSeq ==
    /\ rd.pc = "seq"
    /\ LET a == SeqOf(WantCell(rd)) IN
       \E t \in Readable(a) :
         LET s1 == mem[a][t].val IN
         /\ LoadAcquire(a, t)
         /\ ReaderStep(
              IF s1 = 0 THEN [rd EXCEPT !.pc = "idle", !.res = "retracted"]
              ELSE IF s1 % 2 = 1 THEN Lost(rd)
              ELSE [rd EXCEPT !.pc = "index", !.s1 = s1, !.res = "none"])

LoadIndex ==
    /\ rd.pc = "index"
    /\ LET a == IndexOf(WantCell(rd)) IN
       \E t \in Readable(a) :
         /\ LoadRelaxed(a, t)
         /\ ReaderStep([rd EXCEPT !.pc = "words", !.idx = mem[a][t].val])

LoadWord ==
    /\ rd.pc = "words"
    /\ LET w == rd.w
           a == WordOf(WantCell(rd), w)
       IN \E t \in Readable(a) :
            /\ LoadRelaxed(a, t)
            /\ ReaderStep(
                 [rd EXCEPT !.staged = [rd.staged EXCEPT ![w] = mem[a][t].val],
                            !.pc = IF w = kWords THEN "fence" ELSE "words",
                            !.w = IF w = kWords THEN 1 ELSE w + 1])

(* Fault: no fence (R2). *)
LoadNoFence ==
    /\ rd.pc = "fence"
    /\ ReaderStep([rd EXCEPT !.pc = "validate"])
    /\ UNCHANGED <<cur, acq>>

(* (R2) *)
LoadFence ==
    /\ rd.pc = "fence"
    /\ cur' = Join(cur, acq)
    /\ ReaderStep([rd EXCEPT !.pc = "validate"])
    /\ UNCHANGED acq

(* What a valid copy does: Load returns it, Snapshot walks on. *)
Taken(l) ==
    LET more == l.op = "Snapshot" /\ l.i + 1 < Least(l.c, N) IN
    [l EXCEPT !.res = "taken", !.pos = l.idx,
              !.pc = IF more THEN "seq" ELSE "idle",
              !.i = IF more THEN l.i + 1 ELSE l.i]

(* the second, relaxed load of the sequence *)
Validate ==
    /\ rd.pc = "validate"
    /\ LET a == SeqOf(WantCell(rd)) IN
       \E t \in Readable(a) :
         /\ LoadRelaxed(a, t)
         /\ ReaderStep(IF mem[a][t].val = rd.s1 /\ rd.idx = Want(rd)
                         THEN Taken(rd) ELSE Lost(rd))

Read ==
    \/ LoadCursor \/ LoadSeq \/ LoadIndex \/ LoadWord \/ LoadFence \/ Validate

Next == Store \/ Read \/ \E op \in {"Load", "Snapshot"} : Call(op)

Spec == Init /\ [][Next]_vars

-----------------------------------------------------------------------------
(* Properties. *)

(* "A torn read can never validate", nor a payload paired with another     *)
(* store's index: a copy that was taken has the words of the one call of   *)
(* Store that published its position, however late the reader sees what    *)
(* the writer does.                                                        *)
FencedReadsAreWhole ==
    rd.res = "taken" => \A w \in WordIds : rd.staged[w] = rd.pos + 1

(* "Within one walk a validation failure can only mean a lap reached that  *)
(* cell": a reader that has the cursor sees the publication of every       *)
(* position below it, so it loses one only to the store of the position N  *)
(* further on, and never finds a published cell never written.             *)
LossesAreLaps ==
    /\ rd.res # "retracted"
    /\ rd.res = "lost" => stores > Want(rd) + N

-----------------------------------------------------------------------------
(* Why: the inductive invariant.  Entry 1 of every atomic is the           *)
(* constructor's.  Entry t > 1 of a cell's index and words is of the same  *)
(* call of Store as the entries 2t - 2, odd, and 2t - 1, even, of its seq. *)

Views == [Atomics -> Nat \ {0}]

TypeOK ==
    /\ mem \in [Atomics -> Seq([val : Nat, view : Views])]
    /\ \A a \in Atomics : Len(mem[a]) > 0
    /\ frel \in Views /\ cur \in Views /\ acq \in Views
    /\ wpc \in {"idle", "fence", "index", "words", "even", "publish"}
    /\ wWord \in WordIds /\ stores \in Nat
    /\ rd \in [pc : {"idle", "cursor", "seq", "index", "words", "fence", "validate"},
               op : {"Load", "Snapshot"}, c : Nat, i : Nat, s1 : Nat, idx : Nat,
               w : WordIds, staged : [WordIds -> Nat], pos : Nat,
               res : {"none", "taken", "lost", "retracted"}]

Size(a) == Len(mem[a])
Val(a, t) == mem[a][t].val
Seen(a, t) == mem[a][t].view

CursorInv ==
    /\ Size(Cursor) = IF wpc = "idle" THEN stores + 1 ELSE stores
    /\ \A t \in 1 .. Size(Cursor) : Val(Cursor, t) = t - 1

(* How far Store is in the cell it writes; it is through with the others. *)
SizeInv ==
    \A k \in Cells :
        /\ Size(SeqOf(k)) =
             IF k = wCell /\ wpc \in {"fence", "index"} THEN 2 * Size(IndexOf(k))
             ELSE IF k = wCell /\ wpc \in {"words", "even"}
                  THEN 2 * Size(IndexOf(k)) - 2 ELSE 2 * Size(IndexOf(k)) - 1
        /\ \A w \in WordIds :
             Size(WordOf(k, w)) = IF k = wCell /\ wpc = "words" /\ wWord <= w
                                    THEN Size(IndexOf(k)) - 1 ELSE Size(IndexOf(k))

(* A cell counts its stores in seq, and gets positions at least N apart. *)
ValueInv ==
    \A k \in Cells :
        /\ \A t \in 1 .. Size(SeqOf(k)) : Val(SeqOf(k), t) = t - 1
        /\ \A w \in WordIds : \A t \in 2 .. Size(WordOf(k, w)) :
             Val(WordOf(k, w), t) = Val(IndexOf(k), t) + 1
        /\ \A t \in 2 .. Size(IndexOf(k)) :
             Val(IndexOf(k), t) < stores /\ CellOf(Val(IndexOf(k), t)) = k
        /\ \A t, u \in 2 .. Size(IndexOf(k)) :
             t < u => Val(IndexOf(k), t) + N <= Val(IndexOf(k), u)

WriterInv ==
    /\ wpc \in {"fence", "index"} =>
         \A t \in 2 .. Size(IndexOf(wCell)) :
            Val(IndexOf(wCell), t) + N <= Latest(Cursor)
    /\ wpc \in {"words", "even", "publish"} =>
         Size(IndexOf(wCell)) > 1 /\ Latest(IndexOf(wCell)) = Latest(Cursor)
    /\ wpc \in {"index", "words"} => frel[SeqOf(wCell)] >= Size(SeqOf(wCell))
    /\ wpc # "words" => wWord = 1

(* The view has the publication of every position below c. *)
Sees(view, c) ==
    \A p \in 0 .. c - 1 :
        \E t \in 2 .. Size(IndexOf(CellOf(p))) :
            Val(IndexOf(CellOf(p)), t) = p /\ view[SeqOf(CellOf(p))] >= 2 * t - 1

(* What the orders buy: with every store comes itself, with a word the odd *)
(* seq before it (W1), with an even seq the index and the words before it  *)
(* (W2), and with the cursor every publication (W3).                       *)
ViewInv ==
    /\ \A a \in Atomics : \A t \in 1 .. Size(a) : Seen(a, t)[a] >= t
    /\ \A k \in Cells, w \in WordIds : \A t \in 2 .. Size(WordOf(k, w)) :
         Seen(WordOf(k, w), t)[SeqOf(k)] >= 2 * t - 2
    /\ \A k \in Cells : \A t \in 1 .. Size(SeqOf(k)) :
         t % 2 = 1 =>
            /\ 2 * Seen(SeqOf(k), t)[IndexOf(k)] >= t + 1
            /\ \A w \in WordIds : 2 * Seen(SeqOf(k), t)[WordOf(k, w)] >= t + 1
    /\ \A t \in 1 .. Size(Cursor) : Sees(Seen(Cursor, t), t - 1)

(* The reader has s1, and sees the store it is of, or one after it. *)
SeqRead(k) ==
    /\ rd.s1 % 2 = 0 /\ cur[SeqOf(k)] > rd.s1
    /\ 2 * cur[IndexOf(k)] >= rd.s1 + 2
    /\ \A w \in WordIds : 2 * cur[WordOf(k, w)] >= rd.s1 + 2
    /\ \E t \in 2 .. Size(IndexOf(k)) :
         Val(IndexOf(k), t) = Want(rd) /\ rd.s1 >= 2 * t - 2

IndexRead(k) ==
    \E t \in 2 .. Size(IndexOf(k)) :
        Val(IndexOf(k), t) = rd.idx /\ 2 * t >= rd.s1 + 2

(* Word w is of the store of s1 or a later one, whose odd seq the view has. *)
WordRead(k, w, view) ==
    \E t \in 2 .. Size(WordOf(k, w)) :
        /\ Val(WordOf(k, w), t) = rd.staged[w] /\ 2 * t >= rd.s1 + 2
        /\ view[SeqOf(k)] >= 2 * t - 2

ReaderInv ==
    /\ rd.res # "none" => rd.pc \in {"idle", "cursor", "seq"}
    /\ rd.op = "Load" \/ rd.pc = "cursor" => rd.i = 0
    /\ rd.pc # "words" => rd.w = 1
    /\ rd.pc \notin {"idle", "cursor"} => rd.i < rd.c /\ Sees(cur, rd.c)
    /\ rd.pc \in {"index", "words", "fence", "validate"} => SeqRead(WantCell(rd))
    /\ rd.pc \in {"words", "fence", "validate"} => IndexRead(WantCell(rd))
    /\ \A w \in WordIds :
         /\ (rd.pc = "words" /\ w < rd.w) \/ rd.pc = "fence" =>
              WordRead(WantCell(rd), w, acq)
         /\ rd.pc = "validate" => WordRead(WantCell(rd), w, cur)

IInv ==
    /\ TypeOK /\ CursorInv /\ SizeInv /\ ValueInv /\ WriterInv /\ ViewInv
    /\ ReaderInv /\ FencedReadsAreWhole /\ LossesAreLaps

=============================================================================
