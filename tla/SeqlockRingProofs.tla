-------------------------- MODULE SeqlockRingProofs --------------------------
(***************************************************************************)
(* Proofs about SeqlockRing, for every depth, word count, set of readers   *)
(* and number of stores and crashes: reads are whole, nothing that could   *)
(* be read is missed, reads beside an idle writer succeed, and the ring    *)
(* implements OverwriteHistory.                                            *)
(***************************************************************************)
EXTENDS SeqlockRingRefinement, Integers, TLAPS

(* The cell of a position is one of the ring's: no access leaves cells_.   *)
LEMMA CellInRing == \A p \in Int : CellOf(p) \in Cells
  BY RingAssumption DEF CellOf, Cells

(* A position a reader wants is an integer, so its cell is in the ring.    *)
LEMMA WantCellInRing ==
  ASSUME NEW l \in ReaderState
  PROVE  Want(l) \in Int /\ WantCell(l) \in Cells
  BY CellInRing DEF WantCell, Want, ReaderState

LEMMA WholeType == \A v \in Nat : Whole(v) \in [WordIds -> Nat]
  BY DEF Whole

LEMMA IdleType == Idle \in ReaderState
  BY RingAssumption, WholeType DEF Idle, ReaderState, WordIds

(* The locals a read goes on with, or returns with, are well typed.        *)
LEMMA ReturnedType ==
  ASSUME NEW l \in ReaderState,
         NEW res \in {"kValue", "kEmpty", "kStalled", "count"},
         NEW out \in Seq([pos : Nat, words : [WordIds -> Nat]])
  PROVE  Returned(l, res, out) \in ReaderState
  BY DEF Returned, ReaderState

LEMMA RetryType ==
  ASSUME NEW l \in ReaderState
  PROVE  Retry(l) \in ReaderState
  <1>1. l.out \in Seq([pos : Nat, words : [WordIds -> Nat]])
    BY DEF ReaderState
  <1>2. <<>> \in Seq([pos : Nat, words : [WordIds -> Nat]])
    OBVIOUS
  <1>3. CASE l.op = "Snapshot"
    BY <1>1, <1>3, ReturnedType DEF Retry
  <1>4. CASE l.op # "Snapshot" /\ l.op = "LoadBounded" /\ l.attempt = MaxRetries
    BY <1>2, <1>4, ReturnedType DEF Retry
  <1>5. CASE l.op # "Snapshot" /\ ~(l.op = "LoadBounded" /\ l.attempt = MaxRetries)
    <2>1. Retry(l) = [l EXCEPT !.pc = "cursor",
                        !.attempt = IF l.op = "Load" THEN 0 ELSE l.attempt + 1]
      BY <1>5 DEF Retry
    <2>2. (IF l.op = "Load" THEN 0 ELSE l.attempt + 1) \in 0 .. MaxRetries
      BY <1>5, RingAssumption DEF ReaderState
    <2> QED
      BY <2>1, <2>2 DEF ReaderState
  <1> QED
    BY <1>3, <1>4, <1>5

LEMMA TakenType ==
  ASSUME NEW l \in ReaderState
  PROVE  Taken(l) \in ReaderState
  <1> DEFINE e == [pos |-> l.idx, words |-> l.staged]
             out == Append(l.out, e)
  <1>1. out \in Seq([pos : Nat, words : [WordIds -> Nat]])
    BY DEF ReaderState
  <1> HIDE DEF out
  <1>2. Returned(l, "kValue", out) \in ReaderState
        /\ Returned(l, "count", out) \in ReaderState
    BY <1>1, ReturnedType
  <1>3. [l EXCEPT !.pc = "seq", !.i = l.i + 1, !.out = out] \in ReaderState
    <2>1. l.i + 1 \in Nat
      BY DEF ReaderState
    <2> QED
      BY <1>1, <2>1 DEF ReaderState
  <1> QED
    BY <1>2, <1>3 DEF Taken, out

-----------------------------------------------------------------------------
(* Type correctness. *)

LEMMA TypeInit == Init => TypeOK
  <1> SUFFICES ASSUME Init PROVE TypeOK
    OBVIOUS
  <1>1. rd \in [Readers -> ReaderState]
    BY IdleType DEF Init
  <1>2. words \in [Cells -> [WordIds -> Nat]]
    BY WholeType DEF Init
  <1>3. wWord \in WordIds
    BY RingAssumption DEF Init, WordIds
  <1> QED
    BY <1>1, <1>2, <1>3 DEF Init, TypeOK

LEMMA TypeStore == TypeOK /\ Store => TypeOK'
  <1> SUFFICES ASSUME TypeOK, Store PROVE TypeOK'
    OBVIOUS
  <1>0. CellOf(writeCount) \in Cells /\ CellOf(wIdx) \in Cells
    <2>1. writeCount \in Int /\ wIdx \in Int
      BY DEF TypeOK
    <2> QED
      BY <2>1, CellInRing
  <1>1. CASE StoreBegin
    <2>1. seq[CellOf(writeCount)] \in Nat
      BY <1>0 DEF TypeOK
    <2>2. seq' \in [Cells -> Nat] /\ wSeq' \in Nat
      <3>1. seq' = [seq EXCEPT ![CellOf(writeCount)] = seq[CellOf(writeCount)] + 1]
            /\ wSeq' = seq[CellOf(writeCount)]
        BY <1>1 DEF StoreBegin
      <3>2. seq \in [Cells -> Nat]
        BY DEF TypeOK
      <3> QED
        BY <1>0, <2>1, <3>1, <3>2
    <2> QED
      BY <1>1, <2>1, <2>2 DEF StoreBegin, WriterStep, TypeOK
  <1>2. CASE StoreIndex
    <2>1. index' \in [Cells -> Nat]
      BY <1>0, <1>2 DEF StoreIndex, TypeOK
    <2>2. wWord' \in WordIds
      BY <1>2, RingAssumption DEF StoreIndex, WordIds
    <2> QED
      BY <1>2, <2>1, <2>2 DEF StoreIndex, WriterStep, TypeOK
  <1>3. CASE StoreWord
    <2>1. words' \in [Cells -> [WordIds -> Nat]]
      BY <1>0, <1>3 DEF StoreWord, TypeOK
    <2>2. wWord' \in WordIds
      BY <1>3, RingAssumption DEF StoreWord, WordIds, TypeOK
    <2> QED
      BY <1>3, <2>1, <2>2 DEF StoreWord, WriterStep, TypeOK
  <1>4. CASE StoreEven
    <2>1. seq' \in [Cells -> Nat]
      BY <1>0, <1>4 DEF StoreEven, TypeOK
    <2> QED
      BY <1>4, <2>1 DEF StoreEven, WriterStep, TypeOK
  <1>5. CASE StorePublish
    BY <1>5 DEF StorePublish, WriterStep, TypeOK
  <1> QED
    BY <1>1, <1>2, <1>3, <1>4, <1>5 DEF Store

LEMMA TypeCrash == TypeOK /\ (Crash \/ RepairAfterWriterCrash) => TypeOK'
  <1> SUFFICES ASSUME TypeOK, Crash \/ RepairAfterWriterCrash PROVE TypeOK'
    OBVIOUS
  <1>0. CellOf(writeCount) \in Cells
    BY CellInRing DEF TypeOK
  <1>1. CASE Crash
    BY <1>1 DEF Crash, TypeOK, cells
  <1>2. CASE RepairAfterWriterCrash
    <2>1. seq' \in [Cells -> Nat] /\ straddled' \subseteq Readers
      BY <1>0, <1>2 DEF RepairAfterWriterCrash, TypeOK
    <2> QED
      BY <1>2, <2>1 DEF RepairAfterWriterCrash, TypeOK
  <1> QED
    BY <1>1, <1>2

LEMMA TypeReaderStep ==
  ASSUME TypeOK, NEW r \in Readers, NEW l \in ReaderState, ReaderStep(r, l)
  PROVE  TypeOK'
  BY DEF TypeOK, ReaderStep, cells, writer

LEMMA TypeRead ==
  ASSUME TypeOK, NEW r \in Readers, Read(r)
  PROVE  TypeOK'
  <1> DEFINE Result == Seq([pos : Nat, words : [WordIds -> Nat]])
             l == rd[r]
  <1>0. l \in ReaderState /\ <<>> \in Result
    BY DEF TypeOK
  <1>00. WantCell(l) \in Cells
    BY <1>0, WantCellInRing
  <1> HIDE DEF l
  <1>1. CASE LoadCursor(r)
    <2>1. [l EXCEPT !.pc = "seq", !.c = writeCount] \in ReaderState
      BY <1>0 DEF TypeOK, ReaderState
    <2>2. Returned(l, "kEmpty", <<>>) \in ReaderState
      BY <1>0, ReturnedType
    <2> QED
      BY <1>1, <2>1, <2>2, TypeReaderStep DEF LoadCursor, l
  <1>2. CASE SnapshotCursor(r)
    <2> DEFINE limit == Least(Least(l.k, writeCount), N)
               m == [l EXCEPT !.c = writeCount, !.limit = limit]
    <2>1. limit \in 0 .. N
      <3>1. l.k \in Nat /\ writeCount \in Nat /\ N \in Nat
        BY <1>0, RingAssumption DEF TypeOK, ReaderState
      <3> QED
        BY <3>1 DEF Least
    <2> HIDE DEF limit
    <2>2. m \in ReaderState
      BY <1>0, <2>1 DEF TypeOK, ReaderState
    <2> HIDE DEF m
    <2>3. Returned(m, "count", <<>>) \in ReaderState
      BY <1>0, <2>2, ReturnedType
    <2>4. [m EXCEPT !.pc = "seq"] \in ReaderState
      BY <2>2 DEF ReaderState
    <2> QED
      BY <1>2, <2>3, <2>4, TypeReaderStep DEF SnapshotCursor, l, m, limit
  <1>3. CASE LoadSeq(r)
    <2>1. seq[WantCell(l)] \in Nat
      BY <1>00 DEF TypeOK
    <2>2. [l EXCEPT !.pc = "index", !.s1 = seq[WantCell(l)]] \in ReaderState
      BY <1>0, <2>1 DEF ReaderState
    <2>3. Returned(l, "kEmpty", <<>>) \in ReaderState /\ Retry(l) \in ReaderState
      BY <1>0, ReturnedType, RetryType
    <2> QED
      BY <1>3, <2>2, <2>3, TypeReaderStep DEF LoadSeq, l
  <1>4. CASE LoadIndex(r)
    <2>1. [l EXCEPT !.pc = "words", !.w = 1, !.idx = index[WantCell(l)]]
             \in ReaderState
      <3>1. 1 \in WordIds /\ index[WantCell(l)] \in Nat
        BY <1>00, RingAssumption DEF TypeOK, WordIds
      <3> QED
        BY <1>0, <3>1 DEF ReaderState
    <2> QED
      BY <1>4, <2>1, TypeReaderStep DEF LoadIndex, l
  <1>5. CASE LoadWord(r)
    <2> DEFINE st == [l.staged EXCEPT ![l.w] = words[WantCell(l)][l.w]]
               p == IF l.w = kWords THEN "validate" ELSE "words"
               n == IF l.w = kWords THEN 1 ELSE l.w + 1
    <2>1. st \in [WordIds -> Nat]
      BY <1>0, <1>00 DEF TypeOK, ReaderState
    <2>2. n \in WordIds
      BY <1>0, RingAssumption DEF ReaderState, WordIds
    <2>3. p \in {"validate", "words"}
      OBVIOUS
    <2> HIDE DEF st, n, p
    <2>4. [l EXCEPT !.staged = st, !.pc = p, !.w = n] \in ReaderState
      BY <1>0, <2>1, <2>2, <2>3 DEF ReaderState
    <2> QED
      BY <1>5, <2>4, TypeReaderStep DEF LoadWord, l, st, n, p
  <1>6. CASE Validate(r)
    BY <1>0, <1>6, RetryType, TakenType, TypeReaderStep DEF Validate, l
  <1> QED
    BY <1>1, <1>2, <1>3, <1>4, <1>5, <1>6 DEF Read

LEMMA TypeCall ==
  ASSUME TypeOK, NEW r \in Readers, CallAny(r)
  PROVE  TypeOK'
  <1>1. PICK op \in {"Load", "LoadBounded", "Snapshot"}, k \in Nat : Call(r, op, k)
    BY RingAssumption DEF CallAny
  <1>2. [Idle EXCEPT !.pc = "cursor", !.op = op, !.k = k, !.floor = writeCount]
          \in ReaderState
    BY IdleType DEF ReaderState, TypeOK
  <1> QED
    BY <1>1, <1>2 DEF Call, TypeOK, cells, writer

(* The cells, the cursor and every local of Store, Load, LoadBounded and   *)
(* Snapshot keep their types, crashes and repairs included: in particular  *)
(* no read or write leaves the cell or word arrays.                        *)
THEOREM TypeCorrect == CrashSpec => []TypeOK
  <1>1. TypeOK /\ [CrashNext]_vars => TypeOK'
    <2> SUFFICES ASSUME TypeOK, [CrashNext]_vars PROVE TypeOK'
      OBVIOUS
    <2>1. CASE Store
      BY <2>1, TypeStore
    <2>2. CASE Crash \/ RepairAfterWriterCrash
      BY <2>2, TypeCrash
    <2>3. ASSUME NEW r \in Readers, CallAny(r) \/ Read(r) PROVE TypeOK'
      BY <2>3, TypeCall, TypeRead
    <2>4. CASE UNCHANGED vars
      BY <2>4 DEF TypeOK, vars, cells, writer
    <2> QED
      BY <2>1, <2>2, <2>3, <2>4 DEF CrashNext, Next
  <1> QED
    BY <1>1, TypeInit, PTL DEF CrashSpec

-----------------------------------------------------------------------------
(* Reads are whole. *)

LEMMA InvInit == Init => IInv
  <1> SUFFICES ASSUME Init PROVE IInv
    OBVIOUS
  <1>1. WriterInv
    BY DEF Init, WriterInv, Odd, CurrentCell
  <1>2. CellInv
    BY DEF Init, CellInv
  <1>3. WalkInv /\ CopyInv /\ ReadsAreWhole
    BY DEF Init, Idle, WalkInv, WalkOK, CopyInv, CopyOK, ReadsAreWhole,
           OutIsPublished
  <1> QED
    BY <1>1, <1>2, <1>3, TypeInit DEF IInv

(* What a read step must re-establish: only the reader's own locals move.  *)
LEMMA InvReaderStep ==
  ASSUME IInv, NEW r \in Readers, NEW l \in ReaderState, ReaderStep(r, l),
         WalkOK(l),
         r \notin straddled => CopyOK(l) /\ OutIsPublished(l.out, l.c)
  PROVE  IInv'
  <1>1. TypeOK'
    BY TypeReaderStep DEF IInv
  <1>2. UNCHANGED <<writeCount, seq, index, words, wpc, wIdx, wSeq, wWord,
                    stores, log, straddled>>
    BY DEF ReaderStep, cells, writer
  <1>3. WriterInv' /\ CellInv'
    BY <1>2 DEF IInv, WriterInv, CellInv, CurrentCell
  <1>4. rd' = [rd EXCEPT ![r] = l] /\ rd \in [Readers -> ReaderState]
    BY DEF ReaderStep, IInv, TypeOK
  <1>5. \A q \in Readers : rd'[q] = IF q = r THEN l ELSE rd[q]
    BY <1>4
  <1>6. WalkInv'
    BY <1>2, <1>5 DEF IInv, WalkInv, WalkOK
  <1>7. CopyInv'
    BY <1>2, <1>5 DEF IInv, CopyInv, CopyOK, WantCell, Want, CellOf
  <1>8. ReadsAreWhole'
    BY <1>2, <1>5 DEF IInv, ReadsAreWhole, OutIsPublished
  <1> QED
    BY <1>1, <1>3, <1>6, <1>7, <1>8 DEF IInv

(* A call that returns keeps what its result says. *)
LEMMA ReturnedOK ==
  ASSUME NEW l \in ReaderState, NEW res,
         NEW out \in Seq([pos : Nat, words : [WordIds -> Nat]])
  PROVE  /\ WalkOK(Returned(l, res, out)) /\ CopyOK(Returned(l, res, out))
         /\ Returned(l, res, out).out = out /\ Returned(l, res, out).c = l.c
  BY DEF Returned, ReaderState, WalkOK, CopyOK

(* An attempt that failed keeps what the walk has taken. *)
LEMMA RetryOK ==
  ASSUME NEW l \in ReaderState, WalkOK(l), l.pc # "idle", writeCount \in Nat
  PROVE  /\ WalkOK(Retry(l)) /\ CopyOK(Retry(l))
         /\ OutIsPublished(l.out, l.c) => OutIsPublished(Retry(l).out, Retry(l).c)
  <1>0. <<>> \in Seq([pos : Nat, words : [WordIds -> Nat]])
        /\ l.out \in Seq([pos : Nat, words : [WordIds -> Nat]])
    BY DEF ReaderState
  <1>1. CASE l.op = "Snapshot"
    BY <1>0, <1>1, ReturnedOK DEF Retry
  <1>2. CASE l.op # "Snapshot" /\ l.op = "LoadBounded" /\ l.attempt = MaxRetries
    <2>1. Retry(l) = Returned(l, "kStalled", <<>>)
      BY <1>2 DEF Retry
    <2>2. /\ Returned(l, "kStalled", <<>>).out = <<>>
          /\ WalkOK(Returned(l, "kStalled", <<>>))
          /\ CopyOK(Returned(l, "kStalled", <<>>))
      BY <1>0, ReturnedOK
    <2> QED
      BY <2>1, <2>2 DEF OutIsPublished
  <1>3. CASE l.op # "Snapshot" /\ ~(l.op = "LoadBounded" /\ l.attempt = MaxRetries)
    <2> DEFINE a == IF l.op = "Load" THEN 0 ELSE l.attempt + 1
    <2>1. Retry(l) = [l EXCEPT !.pc = "cursor", !.attempt = a]
      BY <1>3 DEF Retry
    <2> HIDE DEF a
    <2>2. /\ Retry(l).pc = "cursor" /\ Retry(l).op = l.op /\ Retry(l).i = l.i
          /\ Retry(l).out = l.out /\ Retry(l).floor = l.floor
          /\ Retry(l).c = l.c
      BY <2>1 DEF ReaderState
    <2> QED
      BY <1>3, <2>2 DEF WalkOK, CopyOK, OutIsPublished
  <1> QED
    BY <1>1, <1>2, <1>3

(* A copy that validates is the value published at the wanted position. *)
LEMMA ValidIsPublished ==
  ASSUME IInv, NEW r \in Readers \ straddled, rd[r].pc = "validate",
         Valid(rd[r])
  PROVE  /\ rd[r].idx < Len(log)
         /\ \A w \in WordIds : rd[r].staged[w] = log[rd[r].idx + 1]
  <1> DEFINE l == rd[r]
             k == WantCell(l)
  <1>0. l \in ReaderState
    BY DEF IInv, TypeOK
  <1>1. k \in Cells
    BY <1>0, WantCellInRing
  <1>2. l.s1 # 0 /\ ~Odd(l.s1) /\ l.s1 = seq[k] /\ l.idx = index[k]
        /\ (\A w \in WordIds : l.staged[w] = words[k][w])
    BY DEF IInv, CopyInv, CopyOK, Valid
  <1>3. l.idx = Want(l) /\ l.i < l.c /\ l.c <= writeCount
    BY DEF IInv, WalkInv, WalkOK, Valid
  <1>4. l.idx < writeCount /\ writeCount = Len(log)
    BY <1>0, <1>3 DEF Want, ReaderState, IInv, TypeOK, WriterInv
  <1>5. \A w \in WordIds : words[k][w] = log[index[k] + 1]
    BY <1>1, <1>2, <1>4 DEF IInv, CellInv
  <1> QED
    BY <1>2, <1>4, <1>5

(* A published copy joins the entries taken before it. *)
LEMMA TakenOK ==
  ASSUME NEW l \in ReaderState, WalkOK(l), l.pc = "validate", Valid(l),
         writeCount \in Nat
  PROVE  /\ WalkOK(Taken(l)) /\ CopyOK(Taken(l))
         /\ (/\ OutIsPublished(l.out, l.c) /\ l.idx < Len(log)
             /\ \A w \in WordIds : l.staged[w] = log[l.idx + 1])
            => OutIsPublished(Taken(l).out, Taken(l).c)
  <1> DEFINE e == [pos |-> l.idx, words |-> l.staged]
             out == Append(l.out, e)
  <1>1. /\ l.out \in Seq([pos : Nat, words : [WordIds -> Nat]])
        /\ e \in [pos : Nat, words : [WordIds -> Nat]]
        /\ e.pos = l.idx /\ e.words = l.staged
        /\ l.i \in Nat /\ l.limit \in Nat /\ l.c \in Nat /\ l.floor \in Nat
        /\ l.idx \in Nat
    BY RingAssumption DEF ReaderState
  <1>2. /\ l.i < l.c /\ l.floor <= l.c /\ l.c <= writeCount /\ Len(l.out) = l.i
        /\ l.op # "Snapshot" => l.i = 0
        /\ l.op = "Snapshot" => l.i < l.limit /\ l.limit <= l.c
    BY DEF WalkOK
  <1>3. l.idx + (l.i + 1) = l.c
    <2>1. l.idx = l.c - 1 - l.i
      BY DEF Valid, Want
    <2>2. l.idx \in Nat /\ l.i \in Nat /\ l.c \in Nat
      BY <1>1
    <2> QED
      BY <2>1, <2>2
  <1> HIDE DEF e
  <1>4. /\ out \in Seq([pos : Nat, words : [WordIds -> Nat]])
        /\ Len(out) = l.i + 1
        /\ out[l.i + 1] = e
        /\ \A j \in 1 .. l.i : out[j] = l.out[j]
    <2> DEFINE s == l.out
               S == [pos : Nat, words : [WordIds -> Nat]]
    <2>1. s \in Seq(S) /\ e \in S /\ Len(s) = l.i
      BY <1>1, <1>2
    <2> HIDE DEF s, S
    <2>2. /\ Append(s, e) \in Seq(S)
          /\ Len(Append(s, e)) = Len(s) + 1
          /\ Append(s, e)[Len(s) + 1] = e
          /\ \A j \in 1 .. Len(s) : Append(s, e)[j] = s[j]
      BY <2>1
    <2> QED
      BY <2>1, <2>2 DEF s, S
  <1> HIDE DEF out
  <1>5. ASSUME OutIsPublished(l.out, l.c), l.idx < Len(log),
               \A w \in WordIds : l.staged[w] = log[l.idx + 1]
        PROVE  OutIsPublished(out, l.c)
    <2> SUFFICES ASSUME NEW j \in 1 .. Len(out)
                 PROVE  /\ out[j].pos + j = l.c
                        /\ out[j].pos < Len(log)
                        /\ \A w \in WordIds : out[j].words[w] = log[out[j].pos + 1]
      BY DEF OutIsPublished
    <2>1. CASE j = l.i + 1
      <3>1. out[j].pos = l.idx /\ out[j].words = l.staged
        BY <1>1, <1>4, <2>1
      <3>2. l.idx + j = l.c
        BY <1>3, <2>1
      <3> QED
        BY <1>5, <3>1, <3>2
    <2>2. CASE j # l.i + 1
      <3>1. j \in 1 .. l.i /\ l.i = Len(l.out)
        BY <1>1, <1>2, <1>4, <2>2
      <3>2. out[j] = l.out[j]
        BY <1>4, <3>1
      <3> QED
        BY <1>5, <3>1, <3>2 DEF OutIsPublished
    <2> QED
      BY <2>1, <2>2
  <1>6. CASE l.op # "Snapshot" \/ l.i + 1 = l.limit
    <2>1. PICK res : Taken(l) = Returned(l, res, out)
      BY <1>6 DEF Taken, out, e
    <2>2. Returned(l, res, out).out = out /\ Returned(l, res, out).c = l.c
          /\ WalkOK(Returned(l, res, out)) /\ CopyOK(Returned(l, res, out))
      BY <1>4, ReturnedOK
    <2> QED
      BY <1>5, <2>1, <2>2
  <1>7. CASE l.op = "Snapshot" /\ l.i + 1 # l.limit
    <2>1. Taken(l) = [l EXCEPT !.pc = "seq", !.i = l.i + 1, !.out = out]
      BY <1>7 DEF Taken, out, e
    <2>2. /\ Taken(l).pc = "seq" /\ Taken(l).op = l.op /\ Taken(l).i = l.i + 1
          /\ Taken(l).out = out /\ Taken(l).floor = l.floor
          /\ Taken(l).c = l.c /\ Taken(l).limit = l.limit
      BY <2>1 DEF ReaderState
    <2>3. l.i + 1 < l.limit /\ l.i + 1 < l.c /\ l.floor <= writeCount
      BY <1>1, <1>2, <1>7
    <2>4. WalkOK(Taken(l))
      BY <1>2, <1>4, <1>7, <2>2, <2>3 DEF WalkOK
    <2>5. CopyOK(Taken(l))
      BY <2>2 DEF CopyOK
    <2> QED
      BY <1>5, <2>2, <2>4, <2>5
  <1> QED
    BY <1>6, <1>7

LEMMA InvRead ==
  ASSUME IInv, NEW r \in Readers, Read(r)
  PROVE  IInv'
  <1> DEFINE Result == Seq([pos : Nat, words : [WordIds -> Nat]])
             l == rd[r]
  <1>1. /\ l \in ReaderState /\ WalkOK(l) /\ writeCount \in Nat
        /\ r \notin straddled => CopyOK(l) /\ OutIsPublished(l.out, l.c)
    BY DEF IInv, TypeOK, WalkInv, CopyInv, ReadsAreWhole
  <1>2. WantCell(l) \in Cells
    BY <1>1, WantCellInRing
  <1>3. /\ Returned(l, "kEmpty", <<>>) \in ReaderState
        /\ WalkOK(Returned(l, "kEmpty", <<>>))
        /\ CopyOK(Returned(l, "kEmpty", <<>>))
        /\ Returned(l, "kEmpty", <<>>).out = <<>>
    <2>1. <<>> \in Result
      OBVIOUS
    <2> QED
      BY <1>1, <2>1, ReturnedOK, ReturnedType
  <1>4. l.pc # "idle" =>
          /\ Retry(l) \in ReaderState /\ WalkOK(Retry(l)) /\ CopyOK(Retry(l))
          /\ OutIsPublished(l.out, l.c)
               => OutIsPublished(Retry(l).out, Retry(l).c)
    BY <1>1, RetryOK, RetryType
  <1>5. ASSUME ReaderStep(r, Returned(l, "kEmpty", <<>>)) PROVE IInv'
    <2>1. OutIsPublished(Returned(l, "kEmpty", <<>>).out,
                         Returned(l, "kEmpty", <<>>).c)
      BY <1>3 DEF OutIsPublished
    <2> QED
      BY <1>3, <1>5, <2>1, InvReaderStep
  <1>6. ASSUME l.pc # "idle", ReaderStep(r, Retry(l)) PROVE IInv'
    BY <1>1, <1>4, <1>6, InvReaderStep
  <1> HIDE DEF l
  <1>7. CASE LoadCursor(r)
    <2> DEFINE m == [l EXCEPT !.pc = "seq", !.c = writeCount]
    <2>1. l.pc = "cursor" /\ l.op # "Snapshot"
          /\ ReaderStep(r, IF writeCount = 0 THEN Returned(l, "kEmpty", <<>>) ELSE m)
      BY <1>7 DEF LoadCursor, l
    <2>2. CASE writeCount = 0
      BY <1>5, <2>1, <2>2
    <2>3. CASE writeCount # 0
      <3>1. /\ m \in ReaderState /\ m.pc = "seq" /\ m.op = l.op /\ m.i = l.i
            /\ m.c = writeCount /\ m.out = l.out /\ m.floor = l.floor
        BY <1>1 DEF ReaderState
      <3>2. ReaderStep(r, m)
        BY <2>1, <2>3
      <3> HIDE DEF m
      <3>3. l.i = 0 /\ Len(l.out) = 0 /\ l.floor <= writeCount
        BY <1>1, <2>1 DEF WalkOK
      <3>4. WalkOK(m) /\ CopyOK(m) /\ OutIsPublished(m.out, m.c)
        BY <1>1, <2>1, <2>3, <3>1, <3>3 DEF WalkOK, CopyOK, OutIsPublished
      <3> QED
        BY <3>1, <3>2, <3>4, InvReaderStep
    <2> QED
      BY <2>2, <2>3
  <1>8. CASE SnapshotCursor(r)
    <2> DEFINE limit == Least(Least(l.k, writeCount), N)
               m == [l EXCEPT !.c = writeCount, !.limit = limit]
               n == [m EXCEPT !.pc = "seq"]
    <2>1. l.pc = "cursor" /\ l.op = "Snapshot"
          /\ ReaderStep(r, IF limit = 0 THEN Returned(m, "count", <<>>) ELSE n)
      BY <1>8 DEF SnapshotCursor, l
    <2>2. limit \in 0 .. N /\ limit <= writeCount
      <3>1. l.k \in Nat /\ N \in Nat
        BY <1>1, RingAssumption DEF ReaderState
      <3> QED
        BY <1>1, <3>1 DEF Least
    <2> HIDE DEF limit
    <2>3. /\ m \in ReaderState /\ m.pc = "cursor" /\ m.op = l.op /\ m.i = l.i
          /\ m.c = writeCount /\ m.out = l.out /\ m.floor = l.floor
          /\ m.limit = limit
      BY <1>1, <2>1, <2>2 DEF ReaderState
    <2> HIDE DEF m
    <2>4. /\ n \in ReaderState /\ n.pc = "seq" /\ n.op = l.op /\ n.i = l.i
          /\ n.c = writeCount /\ n.out = l.out /\ n.floor = l.floor
          /\ n.limit = limit
      BY <2>3 DEF ReaderState
    <2> HIDE DEF n
    <2>5. l.i = 0 /\ Len(l.out) = 0 /\ l.floor <= writeCount
      BY <1>1, <2>1 DEF WalkOK
    <2>6. CASE limit = 0
      <3>1. <<>> \in Result
        OBVIOUS
      <3>2. /\ Returned(m, "count", <<>>) \in ReaderState
            /\ WalkOK(Returned(m, "count", <<>>))
            /\ CopyOK(Returned(m, "count", <<>>))
            /\ Returned(m, "count", <<>>).out = <<>>
        BY <2>3, <3>1, ReturnedOK, ReturnedType
      <3>3. OutIsPublished(Returned(m, "count", <<>>).out,
                           Returned(m, "count", <<>>).c)
        BY <3>2 DEF OutIsPublished
      <3>4. ReaderStep(r, Returned(m, "count", <<>>))
        BY <2>1, <2>6
      <3> QED
        BY <3>2, <3>3, <3>4, InvReaderStep
    <2>7. CASE limit # 0
      <3>1. limit \in Nat /\ 0 < limit
        BY <2>2, <2>7, RingAssumption
      <3>2. WalkOK(n) /\ CopyOK(n) /\ OutIsPublished(n.out, n.c)
        BY <1>1, <2>2, <2>4, <2>5, <3>1 DEF WalkOK, CopyOK, OutIsPublished
      <3>3. ReaderStep(r, n)
        BY <2>1, <2>7
      <3> QED
        BY <2>4, <3>2, <3>3, InvReaderStep
    <2> QED
      BY <2>6, <2>7
  <1>9. CASE LoadSeq(r)
    <2> DEFINE s1 == seq[WantCell(l)]
               m == [l EXCEPT !.pc = "index", !.s1 = s1]
    <2>1. l.pc = "seq"
      BY <1>9 DEF LoadSeq, l
    <2>2. CASE s1 = 0 /\ l.op # "Snapshot"
      BY <1>5, <1>9, <2>2 DEF LoadSeq, l
    <2>3. CASE ~(s1 = 0 /\ l.op # "Snapshot") /\ (s1 = 0 \/ Odd(s1))
      <3>1. ReaderStep(r, Retry(l))
        BY <1>9, <2>3 DEF LoadSeq, l
      <3> QED
        BY <1>6, <2>1, <3>1
    <2>4. CASE s1 # 0 /\ ~Odd(s1)
      <3>1. ReaderStep(r, m)
        BY <1>9, <2>4 DEF LoadSeq, l
      <3>2. s1 \in Nat
        BY <1>2 DEF IInv, TypeOK
      <3>3. /\ m \in ReaderState /\ m.pc = "index" /\ m.op = l.op /\ m.i = l.i
            /\ m.c = l.c /\ m.out = l.out /\ m.floor = l.floor
            /\ m.limit = l.limit /\ m.s1 = s1
        BY <1>1, <3>2 DEF ReaderState
      <3>4. WantCell(m) = WantCell(l)
        BY <3>3 DEF WantCell, Want
      <3> HIDE DEF m
      <3>5. WalkOK(m)
        BY <1>1, <2>1, <3>3 DEF WalkOK
      <3>6. CopyOK(m)
        BY <2>4, <3>2, <3>3, <3>4 DEF CopyOK
      <3> QED
        BY <1>1, <3>1, <3>3, <3>5, <3>6, InvReaderStep
    <2> QED
      BY <2>2, <2>3, <2>4
  <1>10. CASE LoadIndex(r)
    <2> DEFINE m == [l EXCEPT !.pc = "words", !.w = 1, !.idx = index[WantCell(l)]]
    <2>1. l.pc = "index" /\ ReaderStep(r, m)
      BY <1>10 DEF LoadIndex, l
    <2>2. 1 \in WordIds /\ index[WantCell(l)] \in Nat
      BY <1>2, RingAssumption DEF IInv, TypeOK, WordIds
    <2>3. /\ m \in ReaderState /\ m.pc = "words" /\ m.op = l.op /\ m.i = l.i
          /\ m.c = l.c /\ m.out = l.out /\ m.floor = l.floor
          /\ m.limit = l.limit /\ m.s1 = l.s1 /\ m.w = 1
          /\ m.idx = index[WantCell(l)] /\ m.staged = l.staged
      BY <1>1, <2>2 DEF ReaderState
    <2>4. WantCell(m) = WantCell(l)
      BY <2>3 DEF WantCell, Want
    <2> HIDE DEF m
    <2>5. WalkOK(m)
      BY <1>1, <2>1, <2>3 DEF WalkOK
    <2>6. r \notin straddled => CopyOK(m)
      <3>1. \A w \in WordIds : ~(w < 1)
        BY DEF WordIds
      <3> QED
        BY <1>1, <2>1, <2>3, <2>4, <3>1 DEF CopyOK
    <2> QED
      BY <1>1, <2>1, <2>3, <2>5, <2>6, InvReaderStep
  <1>11. CASE LoadWord(r)
    <2> DEFINE st == [l.staged EXCEPT ![l.w] = words[WantCell(l)][l.w]]
               p == IF l.w = kWords THEN "validate" ELSE "words"
               n == IF l.w = kWords THEN 1 ELSE l.w + 1
               m == [l EXCEPT !.staged = st, !.pc = p, !.w = n]
    <2>1. l.pc = "words" /\ ReaderStep(r, m)
      BY <1>11 DEF LoadWord, l
    <2>2. /\ st \in [WordIds -> Nat]
          /\ \A w \in WordIds :
               st[w] = IF w = l.w THEN words[WantCell(l)][w] ELSE l.staged[w]
      <3>1. l.staged \in [WordIds -> Nat] /\ l.w \in WordIds
        BY <1>1 DEF ReaderState
      <3>2. words[WantCell(l)] \in [WordIds -> Nat]
        BY <1>2 DEF IInv, TypeOK
      <3> QED
        BY <3>1, <3>2
    <2>3. n \in WordIds /\ l.w \in WordIds
      <3>1. l.w \in WordIds
        BY <1>1 DEF ReaderState
      <3> QED
        BY <3>1, RingAssumption DEF WordIds
    <2>4. p \in {"validate", "words"}
      OBVIOUS
    <2>5. p = "validate" => \A w \in WordIds : w < l.w \/ w = l.w
      BY <2>3 DEF WordIds
    <2>6. p = "words" => \A w \in WordIds : w < n => w < l.w \/ w = l.w
      BY <2>3 DEF WordIds
    <2> HIDE DEF st, p, n
    <2>7. /\ m \in ReaderState /\ m.pc = p /\ m.op = l.op /\ m.i = l.i
          /\ m.c = l.c /\ m.out = l.out /\ m.floor = l.floor
          /\ m.limit = l.limit /\ m.s1 = l.s1 /\ m.w = n
          /\ m.idx = l.idx /\ m.staged = st
      BY <1>1, <2>2, <2>3, <2>4 DEF ReaderState
    <2>8. WantCell(m) = WantCell(l)
      BY <2>7 DEF WantCell, Want
    <2> HIDE DEF m
    <2>9. WalkOK(m)
      BY <1>1, <2>1, <2>4, <2>7 DEF WalkOK
    <2>10. r \notin straddled => CopyOK(m)
      BY <1>1, <2>1, <2>2, <2>4, <2>5, <2>6, <2>7, <2>8 DEF CopyOK
    <2> QED
      BY <1>1, <2>1, <2>7, <2>9, <2>10, InvReaderStep
  <1>12. CASE Validate(r)
    <2>1. l.pc = "validate"
          /\ ReaderStep(r, IF Valid(l) THEN Taken(l) ELSE Retry(l))
      BY <1>12 DEF Validate, l
    <2>2. CASE ~Valid(l)
      BY <1>6, <2>1, <2>2
    <2>3. CASE Valid(l)
      <3>1. r \notin straddled =>
              /\ l.idx < Len(log)
              /\ \A w \in WordIds : l.staged[w] = log[l.idx + 1]
        BY <2>1, <2>3, ValidIsPublished DEF l
      <3>2. Taken(l) \in ReaderState
        BY <1>1, TakenType
      <3>3. /\ WalkOK(Taken(l)) /\ CopyOK(Taken(l))
            /\ r \notin straddled => OutIsPublished(Taken(l).out, Taken(l).c)
        BY <1>1, <2>1, <2>3, <3>1, TakenOK
      <3>4. ReaderStep(r, Taken(l))
        BY <2>1, <2>3
      <3> QED
        BY <3>2, <3>3, <3>4, InvReaderStep
    <2> QED
      BY <2>2, <2>3
  <1> QED
    BY <1>7, <1>8, <1>9, <1>10, <1>11, <1>12 DEF Read

LEMMA InvCall ==
  ASSUME IInv, NEW r \in Readers, CallAny(r)
  PROVE  IInv'
  <1>1. PICK op \in {"Load", "LoadBounded", "Snapshot"}, k \in Nat : Call(r, op, k)
    BY RingAssumption DEF CallAny
  <1> DEFINE m == [Idle EXCEPT !.pc = "cursor", !.op = op, !.k = k,
                               !.floor = writeCount]
  <1>2. TypeOK'
    BY TypeCall DEF IInv
  <1>3. UNCHANGED <<writeCount, seq, index, words, wpc, wIdx, wSeq, wWord,
                    stores, log>>
        /\ straddled' = straddled \ {r}
    BY <1>1 DEF Call, cells, writer
  <1>4. WriterInv' /\ CellInv'
    BY <1>3 DEF IInv, WriterInv, CellInv, CurrentCell
  <1>5. m.pc = "cursor" /\ m.i = 0 /\ m.out = <<>> /\ m.floor = writeCount
    BY DEF Idle
  <1>6. rd' = [rd EXCEPT ![r] = m] /\ rd \in [Readers -> ReaderState]
    BY <1>1 DEF Call, IInv, TypeOK
  <1> HIDE DEF m
  <1>7. \A q \in Readers : rd'[q] = IF q = r THEN m ELSE rd[q]
    BY <1>6
  <1>8. WalkInv'
    <2>1. WalkOK(m)
      BY <1>5 DEF WalkOK, IInv, TypeOK
    <2> QED
      BY <1>3, <1>7, <2>1 DEF IInv, WalkInv, WalkOK
  <1>9. CopyInv'
    BY <1>3, <1>5, <1>7 DEF IInv, CopyInv, CopyOK, WantCell, Want, CellOf
  <1>10. ReadsAreWhole'
    BY <1>3, <1>5, <1>7 DEF IInv, ReadsAreWhole, OutIsPublished
  <1> QED
    BY <1>2, <1>4, <1>8, <1>9, <1>10 DEF IInv

(* What the readers know survives a step that leaves the published history *)
(* and the cursor alone, whatever it does to a cell no reader may trust.   *)
LEMMA ReadersUndisturbed ==
  ASSUME IInv, TypeOK', UNCHANGED <<rd, writeCount, log, straddled>>,
         \A k \in Cells :
            /\ seq[k] <= seq'[k]
            /\ ~Odd(seq[k]) /\ seq'[k] = seq[k]
                 => index'[k] = index[k] /\ words'[k] = words[k]
  PROVE  WalkInv' /\ CopyInv' /\ ReadsAreWhole'
  <1>1. WalkInv' /\ ReadsAreWhole'
    BY DEF IInv, WalkInv, WalkOK, ReadsAreWhole, OutIsPublished
  <1>2. CopyInv'
    <2> SUFFICES ASSUME NEW r \in Readers \ straddled,
                        rd[r].pc \in {"index", "words", "validate"}
                 PROVE  CopyOK(rd[r])'
      BY DEF CopyInv, CopyOK
    <2> DEFINE l == rd[r]
               k == WantCell(l)
    <2>1. l \in ReaderState /\ k \in Cells /\ l' = l /\ k' = k
      BY WantCellInRing DEF IInv, TypeOK, WantCell, Want, CellOf
    <2>2. seq[k] \in Nat /\ seq'[k] \in Nat /\ l.s1 \in Nat
      BY <2>1 DEF IInv, TypeOK, ReaderState
    <2>3. CopyOK(l)
      BY DEF IInv, CopyInv
    <2>4. l.s1 # 0 /\ ~Odd(l.s1) /\ l.s1 <= seq'[k]
      BY <2>1, <2>2, <2>3 DEF CopyOK
    <2>5. ASSUME l.s1 = seq'[k]
          PROVE  l.s1 = seq[k] /\ index'[k] = index[k] /\ words'[k] = words[k]
      <3>1. l.s1 = seq[k] /\ seq'[k] = seq[k]
        BY <2>1, <2>2, <2>3, <2>5 DEF CopyOK
      <3> QED
        BY <2>1, <2>4, <3>1
    <2> QED
      BY <2>1, <2>3, <2>4, <2>5 DEF CopyOK
  <1> QED
    BY <1>1, <1>2

LEMMA Parity == \A s \in Nat : ~Odd(s) => Odd(s + 1) /\ ~Odd(s + 2)
  BY DEF Odd

LEMMA Element ==
  ASSUME NEW S, NEW s \in Seq(S), NEW j \in 1 .. Len(s)
  PROVE  s[j] \in S
  OBVIOUS

LEMMA EntryType ==
  ASSUME NEW s \in Seq([pos : Nat, words : [WordIds -> Nat]]),
         NEW j \in 1 .. Len(s)
  PROVE  s[j].pos \in Nat
  <1>1. s[j] \in [pos : Nat, words : [WordIds -> Nat]]
    BY Element
  <1> QED
    BY <1>1

LEMMA InvStore == IInv /\ Store => IInv'
  <1> SUFFICES ASSUME IInv, Store PROVE IInv'
    OBVIOUS
  <1> DEFINE k == CurrentCell
  <1>1. TypeOK'
    BY TypeStore DEF IInv
  <1>2. /\ k \in Cells /\ writeCount \in Nat /\ seq[k] \in Nat
        /\ seq \in [Cells -> Nat] /\ wSeq \in Nat
    <2>1. writeCount \in Nat
      BY DEF IInv, TypeOK
    <2>2. k \in Cells
      BY <2>1, CellInRing DEF CurrentCell
    <2> QED
      BY <2>1, <2>2 DEF IInv, TypeOK
  <1>3. CASE StoreBegin
    <2>1. ~Odd(seq[k])
      BY <1>2, <1>3 DEF StoreBegin, IInv, WriterInv
    <2>2. /\ seq' = [seq EXCEPT ![k] = seq[k] + 1] /\ wSeq' = seq[k]
          /\ wIdx' = writeCount /\ wpc' = "index"
          /\ UNCHANGED <<writeCount, index, words, log, rd, straddled>>
      BY <1>3 DEF StoreBegin, WriterStep, CurrentCell
    <2>3. seq'[k] = seq[k] + 1 /\ (\A n \in Cells \ {k} : seq'[n] = seq[n])
          /\ Odd(seq'[k])
      BY <1>2, <2>1, <2>2, Parity
    <2>4. WriterInv'
      BY <1>2, <1>3, <2>1, <2>2, <2>3 DEF IInv, WriterInv, CurrentCell, StoreBegin
    <2>5. CellInv'
      BY <1>2, <2>2, <2>3 DEF IInv, CellInv
    <2>6. WalkInv' /\ CopyInv' /\ ReadsAreWhole'
      <3>1. \A n \in Cells : seq[n] \in Nat /\ seq[n] <= seq'[n]
        BY <1>2, <2>3
      <3> QED
        BY <1>1, <2>2, <3>1, ReadersUndisturbed
    <2> QED
      BY <1>1, <2>4, <2>5, <2>6 DEF IInv
  <1>4. CASE StoreIndex
    <2>1. /\ wIdx = writeCount /\ seq[k] = wSeq + 1 /\ Odd(seq[k])
      BY <1>2, <1>4, Parity DEF StoreIndex, IInv, WriterInv
    <2>2. /\ index' = [index EXCEPT ![k] = writeCount] /\ wWord' = 1
          /\ wpc' = "words"
          /\ UNCHANGED <<writeCount, seq, words, wIdx, wSeq, stores, log, rd,
                         straddled>>
      BY <1>4, <2>1 DEF StoreIndex, WriterStep, CurrentCell
    <2>3. index'[k] = writeCount /\ \A n \in Cells \ {k} : index'[n] = index[n]
      BY <1>2, <2>2 DEF IInv, TypeOK
    <2>4. WriterInv'
      <3>1. \A w \in WordIds : ~(w < 1)
        BY DEF WordIds
      <3> QED
        BY <1>2, <1>4, <2>1, <2>2, <2>3, <3>1
        DEF IInv, WriterInv, CurrentCell, StoreIndex
    <2>5. CellInv'
      BY <1>2, <2>1, <2>2, <2>3 DEF IInv, CellInv
    <2>6. WalkInv' /\ CopyInv' /\ ReadsAreWhole'
      <3>1. \A n \in Cells :
              /\ seq[n] <= seq'[n]
              /\ ~Odd(seq[n]) => index'[n] = index[n] /\ words'[n] = words[n]
        BY <2>1, <2>2, <2>3 DEF IInv, TypeOK
      <3> QED
        BY <1>1, <2>2, <3>1, ReadersUndisturbed
    <2> QED
      BY <1>1, <2>4, <2>5, <2>6 DEF IInv
  <1>5. CASE StoreWord
    <2>1. /\ wIdx = writeCount /\ seq[k] = wSeq + 1 /\ Odd(seq[k])
          /\ index[k] = writeCount
          /\ \A w \in WordIds : w < wWord => words[k][w] = stores
      BY <1>2, <1>5, Parity DEF StoreWord, IInv, WriterInv
    <2>2. /\ words' = [words EXCEPT ![k] = [words[k] EXCEPT ![wWord] = stores]]
          /\ UNCHANGED <<writeCount, seq, index, wIdx, wSeq, stores, log, rd,
                         straddled>>
          /\ \/ wWord = kWords /\ wpc' = "even"
             \/ wWord # kWords /\ wpc' = "words" /\ wWord' = wWord + 1
      BY <1>5, <2>1 DEF StoreWord, WriterStep, CurrentCell
    <2>3. /\ \A n \in Cells \ {k} : words'[n] = words[n]
          /\ \A w \in WordIds :
               words'[k][w] = IF w = wWord THEN stores ELSE words[k][w]
      <3>1. words[k] \in [WordIds -> Nat] /\ words \in [Cells -> [WordIds -> Nat]]
        BY <1>2 DEF IInv, TypeOK
      <3> QED
        BY <1>2, <2>2, <3>1
    <2>4. wpc' = "words" =>
            \A w \in WordIds : w < wWord' => words'[k][w] = stores
      <3>1. wWord \in WordIds
        BY DEF IInv, TypeOK
      <3> QED
        BY <2>1, <2>2, <2>3, <3>1 DEF WordIds
    <2>5. wpc' = "even" => \A w \in WordIds : words'[k][w] = stores
      <3>1. wpc' = "even" => wWord = kWords
        BY <2>2
      <3>2. \A w \in WordIds : w < kWords \/ w = kWords
        BY RingAssumption DEF WordIds
      <3> QED
        BY <2>1, <2>3, <3>1, <3>2
    <2>6. WriterInv'
      BY <1>2, <1>5, <2>1, <2>2, <2>4, <2>5
      DEF IInv, WriterInv, CurrentCell, StoreWord
    <2>7. CellInv'
      BY <1>2, <2>1, <2>2, <2>3 DEF IInv, CellInv
    <2>8. WalkInv' /\ CopyInv' /\ ReadsAreWhole'
      <3>1. \A n \in Cells :
              /\ seq[n] <= seq'[n]
              /\ ~Odd(seq[n]) => index'[n] = index[n] /\ words'[n] = words[n]
        BY <2>1, <2>2, <2>3 DEF IInv, TypeOK
      <3> QED
        BY <1>1, <2>2, <3>1, ReadersUndisturbed
    <2> QED
      BY <1>1, <2>6, <2>7, <2>8 DEF IInv
  <1>6. CASE StoreEven
    <2>1. /\ wIdx = writeCount /\ seq[k] = wSeq + 1 /\ ~Odd(wSeq)
          /\ index[k] = writeCount
          /\ \A w \in WordIds : words[k][w] = stores
      BY <1>6 DEF StoreEven, IInv, WriterInv
    <2>2. /\ seq' = [seq EXCEPT ![k] = wSeq + 2] /\ wpc' = "publish"
          /\ UNCHANGED <<writeCount, index, words, wIdx, wSeq, stores, log, rd,
                         straddled>>
      BY <1>6, <2>1 DEF StoreEven, WriterStep, CurrentCell
    <2>3. seq'[k] = wSeq + 2 /\ (\A n \in Cells \ {k} : seq'[n] = seq[n])
      BY <1>2, <2>2 DEF IInv, TypeOK
    <2>4. wSeq \in Nat /\ ~Odd(seq'[k]) /\ seq[k] <= seq'[k] /\ seq[k] # seq'[k]
      <3>1. wSeq \in Nat
        BY DEF IInv, TypeOK
      <3> QED
        BY <2>1, <2>3, <3>1 DEF Odd
    <2>5. WriterInv'
      BY <1>2, <1>6, <2>1, <2>2, <2>3, <2>4
      DEF IInv, WriterInv, CurrentCell, StoreEven
    <2>6. CellInv'
      <3>1. CellOf(index[k]) = k /\ index[k] <= writeCount
        BY <1>2, <2>1 DEF CurrentCell
      <3> QED
        BY <1>2, <2>1, <2>2, <2>3, <3>1 DEF IInv, CellInv, TypeOK
    <2>7. WalkInv' /\ CopyInv' /\ ReadsAreWhole'
      <3>1. \A n \in Cells : seq[n] \in Nat /\ seq[n] <= seq'[n]
        BY <1>2, <2>3, <2>4
      <3> QED
        BY <1>1, <2>2, <3>1, ReadersUndisturbed
    <2> QED
      BY <1>1, <2>5, <2>6, <2>7 DEF IInv
  <1>7. CASE StorePublish
    <2>1. /\ wIdx = writeCount /\ index[k] = writeCount /\ Len(log) = writeCount
          /\ \A w \in WordIds : words[k][w] = stores
          /\ \A n \in Cells : ~Odd(seq[n])
      BY <1>7 DEF StorePublish, IInv, WriterInv
    <2>2. /\ writeCount' = writeCount + 1 /\ log' = Append(log, stores)
          /\ wpc' = "idle"
          /\ UNCHANGED <<seq, index, words, rd, straddled>>
      BY <1>7, <2>1 DEF StorePublish, WriterStep
    <2>3. /\ Len(log') = writeCount + 1 /\ log'[writeCount + 1] = stores
          /\ \A p \in 1 .. writeCount : log'[p] = log[p]
      <3>1. log \in Seq(Nat) /\ stores \in Nat
        BY DEF IInv, TypeOK
      <3> QED
        BY <2>1, <2>2, <3>1
    <2>4. WriterInv'
      BY <1>2, <2>1, <2>2, <2>3 DEF WriterInv
    <2>5. CellInv'
      <3> SUFFICES ASSUME NEW n \in Cells, seq[n] # 0, ~Odd(seq[n])
                   PROVE  /\ CellOf(index[n]) = n
                          /\ index[n] <= writeCount + 1
                          /\ index[n] < writeCount + 1 =>
                               \A w \in WordIds : words[n][w] = log'[index[n] + 1]
        BY <2>2 DEF CellInv, CellOf
      <3>1. /\ CellOf(index[n]) = n /\ index[n] <= writeCount
            /\ index[n] < writeCount =>
                 \A w \in WordIds : words[n][w] = log[index[n] + 1]
            /\ index[n] \in Nat
        BY DEF IInv, CellInv, TypeOK
      <3>2. CASE index[n] < writeCount
        BY <1>2, <2>3, <3>1, <3>2
      <3>3. CASE index[n] = writeCount
        <4>1. n = k
          BY <3>1, <3>3 DEF CurrentCell
        <4> QED
          BY <1>2, <2>1, <2>3, <3>1, <3>3, <4>1
      <3> QED
        BY <1>2, <3>1, <3>2, <3>3
    <2>6. WalkInv'
      <3> SUFFICES ASSUME NEW r \in Readers PROVE WalkOK(rd[r])'
        BY DEF WalkInv
      <3>1. WalkOK(rd[r]) /\ rd[r].floor \in Nat /\ rd[r].c \in Nat
        BY DEF IInv, WalkInv, TypeOK, ReaderState
      <3> QED
        BY <1>2, <2>2, <3>1 DEF WalkOK
    <2>7. CopyInv'
      BY <2>2 DEF IInv, CopyInv, CopyOK, WantCell, Want, CellOf
    <2>8. ReadsAreWhole'
      <3> SUFFICES ASSUME NEW r \in Readers \ straddled,
                          NEW j \in 1 .. Len(rd[r].out)
                   PROVE  /\ rd[r].out[j].pos + j = rd[r].c
                          /\ rd[r].out[j].pos < Len(log')
                          /\ \A w \in WordIds : rd[r].out[j].words[w]
                                               = log'[rd[r].out[j].pos + 1]
        <4>1. rd' = rd /\ straddled' = straddled
          BY <2>2
        <4> QED
          BY <4>1 DEF ReadsAreWhole, OutIsPublished
      <3>1. rd[r].out[j].pos \in Nat
        <4>1. rd[r].out \in Seq([pos : Nat, words : [WordIds -> Nat]])
          BY DEF IInv, TypeOK, ReaderState
        <4> QED
          BY <4>1, EntryType
      <3>2. /\ rd[r].out[j].pos + j = rd[r].c
            /\ rd[r].out[j].pos < writeCount
            /\ \A w \in WordIds : rd[r].out[j].words[w]
                                 = log[rd[r].out[j].pos + 1]
        BY <2>1 DEF IInv, ReadsAreWhole, OutIsPublished
      <3> DEFINE q == rd[r].out[j].pos
      <3>3. q + 1 \in 1 .. writeCount /\ q < writeCount + 1
        BY <1>2, <3>1, <3>2
      <3>4. log'[q + 1] = log[q + 1] /\ q < Len(log')
        BY <2>3, <3>3
      <3> QED
        BY <3>2, <3>4
    <2> QED
      BY <1>1, <2>4, <2>5, <2>6, <2>7, <2>8 DEF IInv
  <1> QED
    BY <1>3, <1>4, <1>5, <1>6, <1>7 DEF Store

LEMMA InvCrash == IInv /\ Crash => IInv'
  <1> SUFFICES ASSUME IInv, Crash PROVE IInv'
    OBVIOUS
  <1>1. TypeOK'
    BY TypeCrash DEF IInv
  <1>2. wpc' = "dead" /\ UNCHANGED <<writeCount, seq, index, words, log, rd, straddled>>
    BY DEF Crash, cells
  <1>3. WriterInv' /\ CellInv'
    BY <1>2 DEF IInv, WriterInv, CellInv, CurrentCell
  <1>4. WalkInv' /\ CopyInv' /\ ReadsAreWhole'
    <2>1. \A n \in Cells : seq[n] <= seq'[n]
      BY <1>2 DEF IInv, TypeOK
    <2> QED
      BY <1>1, <1>2, <2>1, ReadersUndisturbed
  <1> QED
    BY <1>1, <1>3, <1>4 DEF IInv

(* A repair that retracts a cell lowers its sequence: every call under it  *)
(* is one the invariant no longer speaks for.                              *)
LEMMA InvRepair == IInv /\ RepairAfterWriterCrash => IInv'
  <1> SUFFICES ASSUME IInv, RepairAfterWriterCrash PROVE IInv'
    OBVIOUS
  <1> DEFINE k == CurrentCell
  <1>1. TypeOK'
    BY TypeCrash DEF IInv
  <1>2. k \in Cells /\ seq \in [Cells -> Nat]
    <2>1. writeCount \in Int /\ seq \in [Cells -> Nat]
      BY DEF IInv, TypeOK
    <2> QED
      BY <2>1, CellInRing DEF CurrentCell
  <1>3. /\ wpc' = "idle" /\ wpc = "dead"
        /\ UNCHANGED <<writeCount, index, words, log, rd>>
    BY DEF RepairAfterWriterCrash
  <1>4. CASE Odd(seq[k])
    <2>1. /\ seq' = [seq EXCEPT ![k] = 0]
          /\ straddled' = straddled \cup {r \in Readers : rd[r].pc # "idle"}
      BY <1>4 DEF RepairAfterWriterCrash, CurrentCell
    <2>2. seq'[k] = 0 /\ \A n \in Cells \ {k} : seq'[n] = seq[n]
      BY <1>2, <2>1
    <2>3. ~Odd(0)
      BY DEF Odd
    <2>4. WriterInv'
      BY <1>2, <1>3, <2>2, <2>3 DEF IInv, WriterInv, CurrentCell
    <2>5. CellInv'
      BY <1>2, <1>3, <2>2 DEF IInv, CellInv
    <2>6. WalkInv'
      BY <1>3 DEF IInv, WalkInv, WalkOK
    <2>7. CopyInv'
      BY <1>3, <2>1 DEF CopyInv, CopyOK
    <2>8. ReadsAreWhole'
      BY <1>3, <2>1 DEF IInv, ReadsAreWhole, OutIsPublished
    <2> QED
      BY <1>1, <2>4, <2>5, <2>6, <2>7, <2>8 DEF IInv
  <1>5. CASE ~Odd(seq[k])
    <2>1. UNCHANGED <<seq, straddled>>
      BY <1>5 DEF RepairAfterWriterCrash, CurrentCell
    <2>2. WriterInv'
      BY <1>3, <1>5, <2>1 DEF IInv, WriterInv, CurrentCell
    <2>3. CellInv'
      BY <1>3, <2>1 DEF IInv, CellInv
    <2>4. WalkInv' /\ CopyInv' /\ ReadsAreWhole'
      <3>1. \A n \in Cells : seq[n] <= seq'[n]
        BY <1>2, <2>1
      <3> QED
        BY <1>1, <1>3, <2>1, <3>1, ReadersUndisturbed
    <2> QED
      BY <1>1, <2>2, <2>3, <2>4 DEF IInv
  <1> QED
    BY <1>4, <1>5

(* The inductive invariant holds whatever the writer and the readers do,   *)
(* crashes and repairs included.                                           *)
THEOREM InvariantHolds == CrashSpec => []IInv
  <1>1. IInv /\ [CrashNext]_vars => IInv'
    <2> SUFFICES ASSUME IInv, [CrashNext]_vars PROVE IInv'
      OBVIOUS
    <2>1. CASE Store
      BY <2>1, InvStore
    <2>2. CASE Crash
      BY <2>2, InvCrash
    <2>3. CASE RepairAfterWriterCrash
      BY <2>3, InvRepair
    <2>4. ASSUME NEW r \in Readers, CallAny(r) PROVE IInv'
      BY <2>4, InvCall
    <2>5. ASSUME NEW r \in Readers, Read(r) PROVE IInv'
      BY <2>5, InvRead
    <2>6. CASE UNCHANGED vars
      <3>1. UNCHANGED <<writeCount, seq, index, words, wpc, wIdx, wSeq, wWord,
                        stores, log, rd, straddled>>
        BY <2>6 DEF vars, cells, writer
      <3>2. TypeOK'
        BY <2>6 DEF IInv, TypeOK, vars, cells, writer
      <3>3. WriterInv' /\ CellInv'
        BY <3>1 DEF IInv, WriterInv, CellInv, CurrentCell
      <3>4. \A n \in Cells : seq[n] <= seq'[n]
        BY <3>1 DEF IInv, TypeOK
      <3>5. WalkInv' /\ CopyInv' /\ ReadsAreWhole'
        BY <3>1, <3>2, <3>4, ReadersUndisturbed
      <3> QED
        BY <3>2, <3>3, <3>5 DEF IInv
    <2> QED
      BY <2>1, <2>2, <2>3, <2>4, <2>5, <2>6 DEF CrashNext, Next
  <1> QED
    BY <1>1, InvInit, PTL DEF CrashSpec

(* Whatever a call of Load, LoadBounded or Snapshot takes, with no repair  *)
(* under it, is the whole value published at its position: for any depth,  *)
(* value size, number of readers, stores and crashes.                      *)
THEOREM WholeReads == CrashSpec => []ReadsAreWhole
  BY InvariantHolds, PTL DEF IInv

(* In process nothing is ever repaired, so there is no exception: no torn  *)
(* read validates.                                                         *)
THEOREM WholeReadsInProcess == Spec => [](ReadsAreWhole /\ straddled = {})
  <1>1. Spec => CrashSpec
    <2>1. [Next]_vars => [CrashNext]_vars
      BY DEF CrashNext
    <2> QED
      BY <2>1, PTL DEF Spec, CrashSpec
  <1>2. Init => straddled = {}
    BY DEF Init
  <1>3. straddled = {} /\ [Next]_vars => (straddled = {})'
    <2> SUFFICES ASSUME straddled = {}, [Next]_vars PROVE straddled' = {}
      OBVIOUS
    <2>1. CASE Store
      BY <2>1 DEF Store, StoreBegin, StoreIndex, StoreWord, StoreEven,
                  StorePublish, WriterStep
    <2>2. ASSUME NEW r \in Readers, CallAny(r) PROVE straddled' = {}
      BY <2>2 DEF CallAny, Call
    <2>3. ASSUME NEW r \in Readers, Read(r) PROVE straddled' = {}
      BY <2>3 DEF Read, LoadCursor, SnapshotCursor, LoadSeq, LoadIndex,
                  LoadWord, Validate, ReaderStep
    <2>4. CASE UNCHANGED vars
      BY <2>4 DEF vars
    <2> QED
      BY <2>1, <2>2, <2>3, <2>4 DEF Next
  <1> QED
    BY <1>1, <1>2, <1>3, WholeReads, PTL DEF Spec


-----------------------------------------------------------------------------
(* Which positions the cells hold. *)

(* Two positions of one cell are a lap apart, and a lap later it is the    *)
(* turn of the same cell.                                                  *)
LEMMA Laps ==
  ASSUME NEW p \in Nat
  PROVE  /\ CellOf(p + N) = CellOf(p)
         /\ \A q \in Nat : p < q /\ q < p + N => CellOf(p) # CellOf(q)
  <1> DEFINE a == p \div N
  <1>1. N \in Nat /\ N > 0
    BY RingAssumption
  <1>2. a \in Nat /\ p = N * a + (p % N) /\ p % N \in 0 .. N - 1
    BY <1>1
  <1>3. CellOf(p + N) = CellOf(p)
    <2>1. N * (a + 1) = N * a + N /\ N * a \in Nat
      BY <1>1, <1>2
    <2>2. p + N = N * (a + 1) + (p % N)
      BY <1>1, <1>2, <2>1
    <2> HIDE DEF a
    <2>3. ASSUME NEW x \in Nat, NEW y \in 0 .. N - 1 PROVE (N * x + y) % N = y
      BY <1>1
    <2>4. (N * (a + 1) + (p % N)) % N = p % N
      BY <1>2, <2>3
    <2> QED BY <2>2, <2>4 DEF CellOf
  <1>4. ASSUME NEW q \in Nat, p < q, q < p + N, CellOf(p) = CellOf(q) PROVE FALSE
    <2> DEFINE b == q \div N
    <2>1. b \in Nat /\ q = N * b + (q % N) /\ q % N \in 0 .. N - 1 /\ p % N = q % N
      BY <1>1, <1>4 DEF CellOf
    <2> HIDE DEF a, b
    <2>2. N * a < N * b /\ N * b < N * a + N /\ N * a \in Nat /\ N * b \in Nat
      BY <1>1, <1>2, <1>4, <2>1
    <2>3. CASE b <= a
      <3>1. PICK d \in Nat : a = b + d
        BY <1>2, <2>1, <2>3
      <3>2. N * a = N * b + N * d /\ N * d \in Nat
        BY <1>1, <2>1, <3>1
      <3> QED BY <2>2, <3>2
    <2>4. CASE a < b
      <3>1. PICK d \in Nat : b = a + 1 + d
        <4>1. b - a - 1 \in Nat
          BY <1>2, <2>1, <2>4
        <4> QED BY <1>2, <2>1, <4>1
      <3>2. N * b = N * a + N + N * d /\ N * d \in Nat
        BY <1>1, <1>2, <3>1
      <3> QED BY <1>1, <2>2, <3>2
    <2> QED BY <1>2, <2>1, <2>3, <2>4
  <1> QED BY <1>3, <1>4

(* What a step of the writer, dying or reclaiming included, does to the    *)
(* cell k after the newest one; all other cells it leaves alone.           *)
Moves(k) ==
  \/ /\ UNCHANGED <<writeCount, seq, index, straddled>> /\ wpc' # "publish"
     /\ crashes' = 0 => crashes = 0 /\ wpc' \in {"words", "even"}
  \/ /\ UNCHANGED <<writeCount, index, straddled, crashes>> /\ wpc' = "index"
     /\ ~Odd(seq[k]) /\ Odd(seq'[k])
  \/ /\ UNCHANGED <<writeCount, seq, straddled, crashes>> /\ wpc' = "words"
     /\ Odd(seq[k]) /\ index'[k] = writeCount
  \/ /\ UNCHANGED <<writeCount, index, straddled, crashes>> /\ wpc' = "publish"
     /\ Odd(seq[k]) /\ ~Odd(seq'[k]) /\ seq'[k] # 0 /\ index[k] = writeCount
  \/ /\ UNCHANGED <<seq, index, straddled, crashes>> /\ wpc' = "idle"
     /\ writeCount' = writeCount + 1
     /\ ~Odd(seq[k]) /\ seq[k] # 0 /\ index[k] = writeCount
  \/ /\ UNCHANGED <<writeCount, index, crashes>> /\ wpc' = "idle" /\ crashes # 0
     /\ Odd(seq[k]) /\ seq'[k] = 0
     /\ straddled' = straddled \cup {r \in Readers : rd[r].pc # "idle"}

LEMMA WriterMoves ==
  ASSUME IInv, HeldInv, Store \/ Crash \/ RepairAfterWriterCrash
  PROVE  /\ CurrentCell \in Cells
         /\ rd' = rd /\ quiet' = {} /\ Moves(CurrentCell)
         /\ \A n \in Cells : n # CurrentCell => seq'[n] = seq[n] /\ index'[n] = index[n]
  <1>1. /\ writeCount \in Nat /\ seq \in [Cells -> Nat] /\ index \in [Cells -> Nat]
        /\ wSeq \in Nat /\ crashes \in Nat
    BY DEF IInv, TypeOK
  <1>2. PICK k \in Cells : k = CurrentCell
    BY <1>1, CellInRing DEF CurrentCell
  <1>3. seq[k] \in Nat
    BY <1>1
  <1>4. CASE StoreBegin
    <2>1. /\ seq' = [seq EXCEPT ![k] = seq[k] + 1] /\ wpc' = "index"
          /\ UNCHANGED <<writeCount, index, straddled, crashes, rd>> /\ quiet' = {}
      BY <1>2, <1>4 DEF StoreBegin, WriterStep, CurrentCell
    <2>2. ~Odd(seq[k])
      BY <1>2, <1>4 DEF StoreBegin, IInv, WriterInv
    <2>3. Odd(seq'[k]) /\ \A n \in Cells : n # k => seq'[n] = seq[n]
      BY <1>1, <1>3, <2>1, <2>2, Parity
    <2> QED BY <1>2, <2>1, <2>2, <2>3 DEF Moves
  <1>5. CASE StoreIndex
    <2>1. wIdx = writeCount /\ seq[k] = wSeq + 1 /\ Odd(seq[k])
      BY <1>1, <1>2, <1>5, Parity DEF StoreIndex, IInv, WriterInv
    <2>2. /\ index' = [index EXCEPT ![k] = writeCount] /\ wpc' = "words"
          /\ UNCHANGED <<writeCount, seq, straddled, crashes, rd>> /\ quiet' = {}
      BY <1>2, <1>5, <2>1 DEF StoreIndex, WriterStep, CurrentCell
    <2>3. index'[k] = writeCount /\ \A n \in Cells : n # k => index'[n] = index[n]
      BY <1>1, <2>2
    <2> QED BY <1>2, <2>1, <2>2, <2>3 DEF Moves
  <1>6. CASE StoreWord
    <2>1. /\ wpc' \in {"words", "even"} /\ quiet' = {}
          /\ UNCHANGED <<writeCount, seq, index, straddled, crashes, rd>>
      BY <1>6 DEF StoreWord, WriterStep
    <2> QED BY <1>2, <2>1 DEF Moves
  <1>7. CASE StoreEven
    <2>1. wIdx = writeCount /\ seq[k] = wSeq + 1 /\ ~Odd(wSeq) /\ index[k] = writeCount
      BY <1>2, <1>7 DEF StoreEven, IInv, WriterInv
    <2>2. /\ seq' = [seq EXCEPT ![k] = wSeq + 2] /\ wpc' = "publish"
          /\ UNCHANGED <<writeCount, index, straddled, crashes, rd>> /\ quiet' = {}
      BY <1>2, <1>7, <2>1 DEF StoreEven, WriterStep, CurrentCell
    <2>3. /\ seq'[k] = wSeq + 2 /\ seq'[k] # 0
          /\ \A n \in Cells : n # k => seq'[n] = seq[n]
      BY <1>1, <2>2
    <2>4. Odd(seq[k]) /\ ~Odd(seq'[k])
      BY <1>1, <2>1, <2>3, Parity
    <2> QED BY <1>2, <2>1, <2>2, <2>3, <2>4 DEF Moves
  <1>8. CASE StorePublish
    <2>1. /\ wIdx = writeCount /\ index[k] = writeCount /\ ~Odd(seq[k]) /\ seq[k] # 0
      BY <1>2, <1>8 DEF StorePublish, IInv, WriterInv, HeldInv
    <2>2. /\ writeCount' = writeCount + 1 /\ wpc' = "idle" /\ quiet' = {}
          /\ UNCHANGED <<seq, index, straddled, crashes, rd>>
      BY <1>8, <2>1 DEF StorePublish, WriterStep
    <2> QED BY <1>2, <2>1, <2>2 DEF Moves
  <1>9. CASE Crash
    <2>1. /\ wpc' = "dead" /\ quiet' = {} /\ crashes' # 0
          /\ UNCHANGED <<writeCount, seq, index, straddled, rd>>
      BY <1>1, <1>9 DEF Crash, cells
    <2> QED BY <1>2, <2>1 DEF Moves
  <1>10. CASE RepairAfterWriterCrash
    <2>1. /\ wpc = "dead" /\ crashes # 0 /\ wpc' = "idle" /\ quiet' = {}
          /\ UNCHANGED <<writeCount, index, crashes, rd>>
      BY <1>10 DEF RepairAfterWriterCrash, HeldInv
    <2>2. CASE Odd(seq[k])
      <3>1. /\ seq' = [seq EXCEPT ![k] = 0]
            /\ straddled' = straddled \cup {r \in Readers : rd[r].pc # "idle"}
        BY <1>2, <1>10, <2>2 DEF RepairAfterWriterCrash, CurrentCell
      <3>2. seq'[k] = 0 /\ \A n \in Cells : n # k => seq'[n] = seq[n]
        BY <1>1, <3>1
      <3> QED BY <1>2, <2>1, <2>2, <3>1, <3>2 DEF Moves
    <2>3. CASE ~Odd(seq[k])
      <3>1. UNCHANGED <<seq, straddled>>
        BY <1>2, <1>10, <2>3 DEF RepairAfterWriterCrash, CurrentCell
      <3> QED BY <1>2, <2>1, <3>1 DEF Moves
    <2> QED BY <2>2, <2>3
  <1> QED BY <1>4, <1>5, <1>6, <1>7, <1>8, <1>9, <1>10 DEF Store

(* A position that is gone stays gone, and no cell gets an old index. *)
LEMMA StaysGone ==
  ASSUME IInv, HeldInv, Store \/ Crash \/ RepairAfterWriterCrash,
         NEW p \in Nat, p < writeCount
  PROVE  /\ ~Holds(p) => ~Holds(p)'
         /\ index[CellOf(p)] # p => index'[CellOf(p)] # p
         /\ p < writeCount'
  <1>1. PICK n \in Cells : n = CellOf(p)
    BY CellInRing
  <1>2. PICK k \in Cells : k = CurrentCell
    BY WriterMoves
  <1>3. writeCount \in Nat /\ writeCount # p
    BY DEF IInv, TypeOK
  <1>4. /\ Moves(k)
        /\ n # k => seq'[n] = seq[n] /\ index'[n] = index[n]
    BY <1>1, <1>2, WriterMoves
  <1>5. p < writeCount'
    BY <1>3, <1>4 DEF Moves
  <1>6. CASE n # k
    BY <1>1, <1>4, <1>5, <1>6 DEF Holds
  <1>7. CASE n = k
    BY <1>1, <1>3, <1>4, <1>5, <1>7 DEF Holds, Moves
  <1> QED BY <1>6, <1>7

(* A store takes the place of the oldest position and of no other. *)
LEMMA HeldByWriter ==
  ASSUME IInv, HeldInv, GoneInv, Store \/ Crash \/ RepairAfterWriterCrash
  PROVE  HeldInv' /\ GoneInv'
  <1>1. PICK wc \in Nat : wc = writeCount
    BY DEF IInv, TypeOK
  <1>2. PICK k \in Cells : k = CurrentCell
    BY WriterMoves
  <1>3. /\ Moves(k) /\ k = CellOf(wc)
        /\ \A n \in Cells : n # k => seq'[n] = seq[n] /\ index'[n] = index[n]
    BY <1>1, <1>2, WriterMoves DEF CurrentCell
  <1>4. N \in Nat /\ N > 0
    BY RingAssumption
  <1>5. ASSUME NEW p \in Nat, p < wc, wc < p + N
        PROVE  Holds(p) /\ Holds(p)'
    <2>1. Holds(p)
      BY <1>1, <1>5 DEF HeldInv
    <2>2. CellOf(p) \in Cells /\ CellOf(p) # k
      BY <1>3, <1>5, Laps, CellInRing
    <2> QED BY <1>3, <2>1, <2>2 DEF Holds
  <1>6. CASE writeCount' = wc
    <2>1. wpc' = "publish" => seq'[k] # 0
      BY <1>3, <1>6 DEF Moves, HeldInv
    <2>2. CurrentCell' = k
      BY <1>3, <1>6 DEF CurrentCell
    <2>3. crashes' = 0 => wpc' # "dead" /\ crashes = 0 /\ wpc' # "idle"
      BY <1>1, <1>3, <1>4, <1>6 DEF Moves, HeldInv
    <2>4. ASSUME NEW p \in 0 .. wc, p + N = wc, crashes' = 0 PROVE seq'[CellOf(p)] # 0
      <3>1. CellOf(p) \in Cells /\ seq[CellOf(p)] # 0 /\ crashes = 0
        BY <1>1, <2>3, <2>4, CellInRing DEF HeldInv
      <3>2. seq[k] # 0 => seq'[k] # 0
        <4>1. ~Odd(0)
          BY DEF Odd
        <4> QED BY <1>3, <2>3, <2>4, <3>1, <4>1 DEF Moves
      <3> QED BY <1>3, <3>1, <3>2
    <2>5. HeldInv'
      <3>1. ASSUME NEW p \in 0 .. writeCount'
            PROVE  /\ p < writeCount' /\ writeCount' < p + N => Holds(p)'
                   /\ p + N = writeCount' /\ crashes' = 0 =>
                         seq'[CellOf(p)] # 0 /\ (wpc' = "idle" => Holds(p)')
        BY <1>1, <1>5, <1>6, <2>3, <2>4
      <3> QED BY <2>1, <2>2, <2>3, <3>1 DEF HeldInv, CellOf
    <2>6. ASSUME NEW p \in 0 .. writeCount', p + N < writeCount' PROVE ~Holds(p)'
      <3>1. p \in Nat /\ p < writeCount /\ ~Holds(p)
        BY <1>1, <1>4, <1>6, <2>6 DEF GoneInv
      <3> QED BY <3>1, StaysGone
    <2> QED BY <2>5, <2>6 DEF GoneInv
  <1>7. CASE writeCount' # wc
    <2>1. /\ writeCount' = wc + 1 /\ UNCHANGED <<seq, index, crashes>> /\ wpc' = "idle"
          /\ ~Odd(seq[k]) /\ seq[k] # 0 /\ index[k] = wc
      BY <1>1, <1>3, <1>7 DEF Moves
    <2>2. Holds(wc)'
      BY <1>3, <2>1 DEF Holds, CellOf
    <2>3. ASSUME NEW p \in 0 .. wc + 1
          PROVE  /\ p < wc + 1 /\ wc + 1 < p + N => Holds(p)'
                 /\ p + N = wc + 1 /\ crashes' = 0 =>
                       seq'[CellOf(p)] # 0 /\ (wpc' = "idle" => Holds(p)')
      <3>1. p <= wc /\ wc < p + N => Holds(p)'
        BY <1>1, <1>5, <2>2
      <3>2. Holds(p)' => seq'[CellOf(p)] # 0
        BY DEF Holds
      <3> QED BY <1>4, <3>1, <3>2
    <2>4. HeldInv'
      BY <2>1, <2>3 DEF HeldInv, CellOf
    <2>5. ASSUME NEW p \in 0 .. wc + 1, p + N < wc + 1 PROVE ~Holds(p)'
      <3>1. CASE p + N < wc
        <4>1. p \in Nat /\ p < writeCount /\ ~Holds(p)
          BY <1>1, <1>4, <3>1 DEF GoneInv
        <4> QED BY <4>1, StaysGone
      <3>2. CASE p + N = wc
        <4>1. CellOf(p) = k /\ p # wc
          BY <1>3, <1>4, <3>2, Laps
        <4> QED BY <2>1, <4>1 DEF Holds, CellOf
      <3> QED BY <1>4, <2>5, <3>1, <3>2
    <2> QED BY <2>1, <2>4, <2>5 DEF GoneInv
  <1> QED BY <1>6, <1>7

(* What a step of a call does to its locals l; it leaves all that is       *)
(* shared as it is.                                                        *)
Steps(l, m) ==
  /\ l.pc # "idle" /\ m.op = l.op /\ m.k = l.k /\ m.floor = l.floor
  /\ \/ /\ m.pc = "idle" /\ m.res = "kEmpty" /\ m.out = <<>> /\ l.op # "Snapshot"
        /\ \/ l.pc = "cursor" /\ writeCount = 0
           \/ l.pc = "seq" /\ seq[WantCell(l)] = 0
     \/ /\ l.pc = "cursor" /\ m.pc = "seq" /\ writeCount # 0 /\ m.c = writeCount
        /\ m.i = l.i /\ m.out = l.out /\ m.res = l.res
        /\ l.op = "Snapshot" => m.limit = Least(Least(l.k, writeCount), N)
     \/ /\ l.pc = "cursor" /\ l.op = "Snapshot" /\ Least(Least(l.k, writeCount), N) = 0
        /\ m.pc = "idle" /\ m.res = "count" /\ m.out = <<>>
        /\ m.c = writeCount /\ m.limit = 0
     \/ /\ \/ l.pc = "seq" /\ (seq[WantCell(l)] = 0 \/ Odd(seq[WantCell(l)]))
           \/ l.pc = "validate" /\ ~Valid(l)
        /\ \/ /\ l.op = "Snapshot" /\ m.pc = "idle" /\ m.res = "count"
              /\ m.out = l.out /\ m.c = l.c /\ m.limit = l.limit
           \/ l.op = "LoadBounded" /\ m.pc = "idle" /\ m.res = "kStalled" /\ m.out = <<>>
           \/ /\ l.op # "Snapshot" /\ m.pc = "cursor" /\ m.res = l.res
              /\ m.out = l.out /\ m.i = l.i
     \/ /\ m.c = l.c /\ m.i = l.i /\ m.limit = l.limit /\ m.res = l.res /\ m.out = l.out
        /\ \/ /\ l.pc = "seq" /\ m.pc = "index" /\ m.s1 = seq[WantCell(l)]
              /\ m.s1 # 0 /\ ~Odd(m.s1)
           \/ /\ l.pc = "index" /\ m.pc = "words" /\ m.s1 = l.s1
              /\ m.idx = index[WantCell(l)]
           \/ /\ l.pc = "words" /\ m.pc \in {"words", "validate"}
              /\ m.s1 = l.s1 /\ m.idx = l.idx
     \/ /\ l.pc = "validate" /\ Valid(l) /\ m.c = l.c /\ m.limit = l.limit
        /\ m.out = Append(l.out, [pos |-> l.idx, words |-> l.staged])
        /\ \/ l.op # "Snapshot" /\ m.pc = "idle" /\ m.res = "kValue"
           \/ /\ l.op = "Snapshot" /\ l.i + 1 = l.limit
              /\ m.pc = "idle" /\ m.res = "count"
           \/ /\ l.op = "Snapshot" /\ l.i + 1 # l.limit
              /\ m.pc = "seq" /\ m.i = l.i + 1 /\ m.res = l.res

(* The fields of a call that returns *)
LEMMA ReturnedFields ==
  ASSUME NEW l \in ReaderState, NEW res, NEW out
  PROVE  LET m == Returned(l, res, out) IN
         /\ m.pc = "idle" /\ m.res = res /\ m.out = out
         /\ m.op = l.op /\ m.k = l.k /\ m.floor = l.floor
         /\ m.c = l.c /\ m.limit = l.limit
  BY DEF Returned, ReaderState

LEMMA RetrySteps ==
  ASSUME NEW l \in ReaderState,
         \/ l.pc = "seq" /\ (seq[WantCell(l)] = 0 \/ Odd(seq[WantCell(l)]))
         \/ l.pc = "validate" /\ ~Valid(l)
  PROVE  Steps(l, Retry(l))
  <1>1. CASE l.op = "Snapshot"
    <2>1. Retry(l) = Returned(l, "count", l.out)
      BY <1>1 DEF Retry
    <2> QED BY <1>1, <2>1, ReturnedFields DEF Steps
  <1>2. CASE l.op = "LoadBounded" /\ l.attempt = MaxRetries
    <2>1. Retry(l) = Returned(l, "kStalled", <<>>)
      BY <1>2 DEF Retry
    <2> QED BY <1>2, <2>1, ReturnedFields DEF Steps
  <1>3. CASE l.op # "Snapshot" /\ ~(l.op = "LoadBounded" /\ l.attempt = MaxRetries)
    <2> DEFINE m == [l EXCEPT !.pc = "cursor",
                        !.attempt = IF l.op = "Load" THEN 0 ELSE l.attempt + 1]
    <2>1. Retry(l) = m
      BY <1>3 DEF Retry
    <2>2. /\ m.pc = "cursor" /\ m.res = l.res /\ m.out = l.out /\ m.i = l.i
          /\ m.op = l.op /\ m.k = l.k /\ m.floor = l.floor
      BY DEF ReaderState
    <2> HIDE DEF m
    <2> QED BY <1>3, <2>1, <2>2 DEF Steps
  <1> QED BY <1>1, <1>2, <1>3

LEMMA TakenSteps ==
  ASSUME NEW l \in ReaderState, l.pc = "validate", Valid(l)
  PROVE  Steps(l, Taken(l))
  <1> DEFINE out == Append(l.out, [pos |-> l.idx, words |-> l.staged])
             m == [l EXCEPT !.pc = "seq", !.i = l.i + 1, !.out = out]
  <1>1. /\ m.pc = "seq" /\ m.i = l.i + 1 /\ m.out = out /\ m.res = l.res
        /\ m.op = l.op /\ m.k = l.k /\ m.floor = l.floor
        /\ m.c = l.c /\ m.limit = l.limit
    BY DEF ReaderState
  <1>2. Taken(l) = IF l.op # "Snapshot" THEN Returned(l, "kValue", out)
                   ELSE IF l.i + 1 = l.limit THEN Returned(l, "count", out)
                   ELSE m
    BY DEF Taken
  <1> HIDE DEF m
  <1>3. CASE l.op # "Snapshot"
    <2> DEFINE n == Returned(l, "kValue", out)
    <2>1. /\ n.pc = "idle" /\ n.res = "kValue" /\ n.out = out
          /\ n.op = l.op /\ n.k = l.k /\ n.floor = l.floor
          /\ n.c = l.c /\ n.limit = l.limit
      <3> HIDE DEF out
      <3> QED BY ReturnedFields
    <2> HIDE DEF n
    <2>2. Steps(l, n)
      BY <1>3, <2>1 DEF Steps
    <2> QED BY <1>2, <1>3, <2>2 DEF n
  <1>4. CASE l.op = "Snapshot" /\ l.i + 1 = l.limit
    <2> DEFINE n == Returned(l, "count", out)
    <2>1. /\ n.pc = "idle" /\ n.res = "count" /\ n.out = out
          /\ n.op = l.op /\ n.k = l.k /\ n.floor = l.floor
          /\ n.c = l.c /\ n.limit = l.limit
      <3> HIDE DEF out
      <3> QED BY ReturnedFields
    <2> HIDE DEF n
    <2>2. Steps(l, n)
      BY <1>4, <2>1 DEF Steps
    <2> QED BY <1>2, <1>4, <2>2 DEF n
  <1>5. CASE l.op = "Snapshot" /\ l.i + 1 # l.limit
    BY <1>1, <1>2, <1>5 DEF Steps
  <1> QED BY <1>3, <1>4, <1>5

(* The six steps of a call, seen from its locals. *)
LEMMA ReadMoves ==
  ASSUME IInv, NEW r \in Readers, Read(r)
  PROVE  \E m : /\ ReaderStep(r, m) /\ Steps(rd[r], m)
  <1>1. PICK l \in ReaderState : l = rd[r]
    BY DEF IInv, TypeOK
  <1>2. CASE LoadCursor(r)
    <2> DEFINE m == [l EXCEPT !.pc = "seq", !.c = writeCount]
    <2>1. /\ l.pc = "cursor" /\ l.op # "Snapshot"
          /\ ReaderStep(r, IF writeCount = 0 THEN Returned(l, "kEmpty", <<>>) ELSE m)
      BY <1>1, <1>2 DEF LoadCursor
    <2>2. /\ m.pc = "seq" /\ m.c = writeCount /\ m.i = l.i /\ m.out = l.out
          /\ m.res = l.res /\ m.op = l.op /\ m.k = l.k /\ m.floor = l.floor
      BY DEF ReaderState
    <2> HIDE DEF m
    <2>3. CASE writeCount = 0
      BY <1>1, <2>1, <2>3, ReturnedFields DEF Steps
    <2>4. CASE writeCount # 0
      BY <1>1, <2>1, <2>2, <2>4 DEF Steps
    <2> QED BY <2>3, <2>4
  <1>3. CASE SnapshotCursor(r)
    <2> DEFINE limit == Least(Least(l.k, writeCount), N)
               n == [l EXCEPT !.c = writeCount, !.limit = limit]
               m == [n EXCEPT !.pc = "seq"]
    <2>1. /\ l.pc = "cursor" /\ l.op = "Snapshot"
          /\ ReaderStep(r, IF limit = 0 THEN Returned(n, "count", <<>>) ELSE m)
      BY <1>1, <1>3 DEF SnapshotCursor
    <2>2. /\ m.pc = "seq" /\ m.c = writeCount /\ m.i = l.i /\ m.out = l.out
          /\ m.res = l.res /\ m.op = l.op /\ m.k = l.k /\ m.floor = l.floor
          /\ m.limit = limit
      BY DEF ReaderState
    <2>3. /\ Returned(n, "count", <<>>).pc = "idle" /\ Returned(n, "count", <<>>).res = "count"
          /\ Returned(n, "count", <<>>).out = <<>> /\ Returned(n, "count", <<>>).op = l.op
          /\ Returned(n, "count", <<>>).k = l.k /\ Returned(n, "count", <<>>).floor = l.floor
          /\ Returned(n, "count", <<>>).c = writeCount
          /\ Returned(n, "count", <<>>).limit = limit
      BY DEF ReaderState, Returned
    <2> HIDE DEF m, n
    <2>4. CASE limit = 0
      BY <1>1, <2>1, <2>3, <2>4 DEF Steps
    <2>5. CASE limit # 0
      <3>1. writeCount # 0
        <4>1. writeCount \in Nat /\ l.k \in Nat /\ N \in Nat
          BY RingAssumption DEF IInv, TypeOK, ReaderState
        <4> QED BY <2>5, <4>1 DEF Least
      <3> QED BY <1>1, <2>1, <2>2, <2>5, <3>1 DEF Steps
    <2> QED BY <2>4, <2>5
  <1>4. CASE LoadSeq(r)
    <2> DEFINE s1 == seq[WantCell(l)]
               m == [l EXCEPT !.pc = "index", !.s1 = s1]
    <2>1. /\ l.pc = "seq"
          /\ ReaderStep(r, IF s1 = 0 /\ l.op # "Snapshot" THEN Returned(l, "kEmpty", <<>>)
                           ELSE IF s1 = 0 \/ Odd(s1) THEN Retry(l) ELSE m)
      BY <1>1, <1>4 DEF LoadSeq
    <2>2. /\ m.pc = "index" /\ m.c = l.c /\ m.i = l.i /\ m.out = l.out
          /\ m.res = l.res /\ m.op = l.op /\ m.k = l.k /\ m.floor = l.floor
          /\ m.limit = l.limit /\ m.s1 = s1
      BY DEF ReaderState
    <2> HIDE DEF m
    <2>3. CASE s1 = 0 /\ l.op # "Snapshot"
      BY <1>1, <2>1, <2>3, ReturnedFields DEF Steps
    <2>4. CASE (s1 = 0 \/ Odd(s1)) /\ ~(s1 = 0 /\ l.op # "Snapshot")
      BY <1>1, <2>1, <2>4, RetrySteps
    <2>5. CASE ~(s1 = 0 \/ Odd(s1))
      BY <1>1, <2>1, <2>2, <2>5 DEF Steps
    <2> QED BY <2>3, <2>4, <2>5
  <1>5. CASE LoadIndex(r)
    <2> DEFINE m == [l EXCEPT !.pc = "words", !.w = 1, !.idx = index[WantCell(l)]]
    <2>1. l.pc = "index" /\ ReaderStep(r, m)
      BY <1>1, <1>5 DEF LoadIndex
    <2>2. /\ m.pc = "words" /\ m.c = l.c /\ m.i = l.i /\ m.out = l.out
          /\ m.res = l.res /\ m.op = l.op /\ m.k = l.k /\ m.floor = l.floor
          /\ m.limit = l.limit /\ m.s1 = l.s1 /\ m.idx = index[WantCell(l)]
      BY DEF ReaderState
    <2> HIDE DEF m
    <2> QED BY <1>1, <2>1, <2>2 DEF Steps
  <1>6. CASE LoadWord(r)
    <2> DEFINE m == [l EXCEPT
                       !.staged = [l.staged EXCEPT ![l.w] = words[WantCell(l)][l.w]],
                       !.pc = IF l.w = kWords THEN "validate" ELSE "words",
                       !.w = IF l.w = kWords THEN 1 ELSE l.w + 1]
    <2>1. l.pc = "words" /\ ReaderStep(r, m)
      BY <1>1, <1>6 DEF LoadWord
    <2>2. /\ m.pc \in {"words", "validate"} /\ m.c = l.c /\ m.i = l.i /\ m.out = l.out
          /\ m.res = l.res /\ m.op = l.op /\ m.k = l.k /\ m.floor = l.floor
          /\ m.limit = l.limit /\ m.s1 = l.s1 /\ m.idx = l.idx
      BY DEF ReaderState
    <2> HIDE DEF m
    <2> QED BY <1>1, <2>1, <2>2 DEF Steps
  <1>7. CASE Validate(r)
    <2>1. l.pc = "validate" /\ ReaderStep(r, IF Valid(l) THEN Taken(l) ELSE Retry(l))
      BY <1>1, <1>7 DEF Validate
    <2>2. CASE Valid(l)
      BY <1>1, <2>1, <2>2, TakenSteps
    <2>3. CASE ~Valid(l)
      BY <1>1, <2>1, <2>3, RetrySteps
    <2> QED BY <2>2, <2>3
  <1> QED BY <1>2, <1>3, <1>4, <1>5, <1>6, <1>7 DEF Read

-----------------------------------------------------------------------------
(* What a walk leaves behind is gone. *)

(* The position a running call wants *)
LEMMA Wanted ==
  ASSUME IInv, NEW r \in Readers, rd[r].pc \notin {"idle", "cursor"}
  PROVE  /\ Want(rd[r]) \in Nat /\ Want(rd[r]) < writeCount
         /\ WantCell(rd[r]) = CellOf(Want(rd[r])) /\ WantCell(rd[r]) \in Cells
  <1>1. PICK l \in ReaderState : l = rd[r]
    BY DEF IInv, TypeOK
  <1>2. l.i \in Nat /\ l.c \in Nat /\ writeCount \in Nat
    BY DEF ReaderState, IInv, TypeOK
  <1>3. l.i < l.c /\ l.c <= writeCount
    BY <1>1 DEF IInv, WalkInv, WalkOK
  <1> QED BY <1>1, <1>2, <1>3, WantCellInRing DEF Want, WantCell

LEMMA LossByWriter ==
  ASSUME IInv, HeldInv, LossInv, Store \/ Crash \/ RepairAfterWriterCrash
  PROVE  LossInv'
  <1> SUFFICES ASSUME NEW r \in Readers PROVE LossOK(rd[r])' /\ EndOK(rd[r])'
    BY DEF LossInv
  <1>1. PICK l \in ReaderState : l = rd[r]
    BY DEF IInv, TypeOK
  <1>2. rd'[r] = l
    BY <1>1, WriterMoves
  <1>3. LossOK(l) /\ EndOK(l) /\ writeCount \in Nat
    BY <1>1 DEF LossInv, IInv, TypeOK
  <1>4. LossOK(l)'
    <2> SUFFICES ASSUME l.pc \in {"index", "words", "validate"}
                 PROVE  /\ seq'[WantCell(l)] # l.s1 => ~Holds(Want(l))'
                        /\ l.pc # "index" /\ l.idx # Want(l) =>
                              index'[WantCell(l)] # Want(l)
      BY DEF LossOK, WantCell, Want, CellOf
    <2>1. PICK p \in Nat, n \in Cells :
             p = Want(l) /\ p < writeCount /\ n = CellOf(p) /\ n = WantCell(l)
      BY <1>1, Wanted
    <2>2. /\ seq[n] # l.s1 => ~Holds(p)
          /\ l.pc # "index" /\ l.idx # p => index[n] # p
      BY <1>3, <2>1 DEF LossOK
    <2>3. /\ ~Holds(p) => ~Holds(p)'
          /\ index[n] # p => index'[n] # p
      BY <2>1, StaysGone
    <2>4. ASSUME seq[n] = l.s1, seq'[n] # l.s1 PROVE ~Holds(p)'
      <3>1. PICK k \in Cells : k = CurrentCell
        BY WriterMoves
      <3>2. Moves(k) /\ (n # k => seq'[n] = seq[n])
        BY <3>1, WriterMoves
      <3>3. n = k /\ writeCount # p
        BY <1>3, <2>1, <2>4, <3>2
      <3> QED BY <2>1, <2>4, <3>2, <3>3 DEF Moves, Holds, CellOf
    <2> QED
      <3>1. seq'[n] # l.s1 => ~Holds(p)'
        BY <2>2, <2>3, <2>4
      <3>2. Holds(Want(l))' = Holds(p)'
        BY <2>1 DEF Holds, CellOf, Want
      <3> QED BY <2>1, <2>2, <2>3, <3>1, <3>2
  <1>5. EndOK(l)'
    <2> SUFFICES ASSUME l.pc = "idle", l.res = "count"
                 PROVE  /\ l.limit <= l.c /\ l.c <= writeCount'
                        /\ \A j \in Len(l.out) .. l.limit - 1 : ~Holds(l.c - 1 - j)'
      BY DEF EndOK
    <2>1. l.limit \in Nat /\ l.c \in Nat /\ Len(l.out) \in Nat
      BY DEF ReaderState
    <2>2. /\ l.limit <= l.c /\ l.c <= writeCount
          /\ \A j \in Len(l.out) .. l.limit - 1 : ~Holds(l.c - 1 - j)
      BY <1>3 DEF EndOK
    <2>3. writeCount' \in Nat /\ writeCount <= writeCount'
      BY <1>3, WriterMoves DEF Moves
    <2>4. ASSUME NEW j \in Len(l.out) .. l.limit - 1 PROVE ~Holds(l.c - 1 - j)'
      <3>1. PICK p \in Nat : p = l.c - 1 - j
        BY <2>1, <2>2
      <3>2. p < writeCount /\ ~Holds(p)
        BY <1>3, <2>1, <2>2, <3>1
      <3>3. ~Holds(p)'
        BY <3>2, StaysGone
      <3> QED BY <3>1, <3>3
    <2> QED BY <1>3, <2>1, <2>2, <2>3, <2>4
  <1> QED BY <1>2, <1>4, <1>5 DEF LossOK, EndOK, Holds, WantCell, Want, CellOf

(* All that is older than a position that is gone is gone too. *)
LEMMA OlderIsGone ==
  ASSUME IInv, HeldInv, GoneInv, NEW p \in Nat, p < writeCount, ~Holds(p),
         NEW q \in Nat, q <= p
  PROVE  ~Holds(q)
  <1>1. writeCount \in Nat /\ N \in Nat
    BY RingAssumption DEF IInv, TypeOK
  <1>2. p + N <= writeCount
    BY <1>1 DEF HeldInv
  <1>3. CASE q = p
    BY <1>3
  <1>4. CASE q < p
    BY <1>1, <1>2, <1>4 DEF GoneInv
  <1> QED BY <1>3, <1>4

LEMMA LossByReader ==
  ASSUME IInv, HeldInv, GoneInv, LossInv, NEW r \in Readers, Read(r)
  PROVE  LossInv'
  <1>1. PICK l \in ReaderState : l = rd[r]
    BY DEF IInv, TypeOK
  <1>2. PICK m : ReaderStep(r, m) /\ Steps(l, m)
    BY <1>1, ReadMoves
  <1>3. /\ rd' = [rd EXCEPT ![r] = m]
        /\ UNCHANGED <<writeCount, seq, index, quiet, straddled, crashes, wpc>>
    BY <1>2 DEF ReaderStep, cells, writer
  <1>4. \A q \in Readers : rd'[q] = IF q = r THEN m ELSE rd[q]
    BY <1>3 DEF IInv, TypeOK
  <1>5. /\ l.c \in Nat /\ l.i \in Nat /\ l.limit \in Nat /\ writeCount \in Nat
        /\ l.out \in Seq([pos : Nat, words : [WordIds -> Nat]])
        /\ WalkOK(l) /\ LossOK(l)
    BY <1>1 DEF ReaderState, IInv, TypeOK, WalkInv, LossInv
  <1>6. LossOK(m)
    <2> SUFFICES ASSUME m.pc \in {"index", "words", "validate"} PROVE LossOK(m)
      BY DEF LossOK
    <2>1. l.pc \in {"seq", "index", "words"} /\ m.c = l.c /\ m.i = l.i
      BY <1>2 DEF Steps
    <2>2. Want(m) = Want(l) /\ WantCell(m) = WantCell(l)
      BY <2>1 DEF Want, WantCell
    <2>3. \/ m.pc = "index" /\ m.s1 = seq[WantCell(l)]
          \/ l.pc = "index" /\ m.s1 = l.s1 /\ m.idx = index[WantCell(l)]
          \/ l.pc = "words" /\ m.s1 = l.s1 /\ m.idx = l.idx
      BY <1>2 DEF Steps
    <2> QED BY <1>5, <2>2, <2>3 DEF LossOK
  <1>7. EndOK(m)
    <2> SUFFICES ASSUME m.pc = "idle", m.res = "count" PROVE EndOK(m)
      BY DEF EndOK
    <2>1. CASE l.pc = "cursor"
      <3>1. m.limit = 0 /\ m.out = <<>> /\ m.c = writeCount
        BY <1>2, <2>1 DEF Steps
      <3>2. \A j \in Len(m.out) .. m.limit - 1 : FALSE
        BY <3>1
      <3> QED BY <1>5, <3>1, <3>2 DEF EndOK
    <2>2. CASE l.pc # "cursor"
      <3>1. l.pc # "idle" /\ l.op = "Snapshot" /\ m.c = l.c /\ m.limit = l.limit
        BY <1>2, <2>2 DEF Steps
      <3>2. l.i < l.limit /\ l.limit <= l.c /\ l.c <= writeCount /\ Len(l.out) = l.i
        BY <1>5, <2>2, <3>1 DEF WalkOK
      <3>3. CASE m.out = l.out
        <4>1. /\ l.pc = "seq" => seq[WantCell(l)] = 0 \/ Odd(seq[WantCell(l)])
              /\ l.pc \in {"seq", "validate"} /\ (l.pc = "validate" => ~Valid(l))
          <5>1. m.out # Append(l.out, [pos |-> l.idx, words |-> l.staged])
            <6>1. [pos |-> l.idx, words |-> l.staged] \in [pos : Nat, words : [WordIds -> Nat]]
              BY DEF ReaderState
            <6> QED BY <1>5, <3>3, <6>1
          <5> QED BY <1>2, <2>2, <5>1 DEF Steps
        <4>2. PICK p \in Nat :
                 p = Want(l) /\ p < writeCount /\ WantCell(l) = CellOf(p)
          BY <1>1, <2>2, <3>1, Wanted
        <4>3. ~Holds(p)
          BY <1>5, <4>1, <4>2 DEF LossOK, Holds, Valid
        <4>4. ASSUME NEW j \in l.i .. l.limit - 1 PROVE ~Holds(l.c - 1 - j)
          <5>1. l.c - 1 - j \in Nat /\ l.c - 1 - j <= p
            BY <1>5, <3>2, <4>2 DEF Want
          <5> QED BY <4>2, <4>3, <5>1, OlderIsGone
        <4> QED BY <3>1, <3>2, <3>3, <4>4 DEF EndOK
      <3>4. CASE m.out # l.out
        <4>1. /\ m.out = Append(l.out, [pos |-> l.idx, words |-> l.staged])
              /\ l.i + 1 = l.limit
          BY <1>2, <2>2, <3>1, <3>4 DEF Steps
        <4>2. Len(m.out) = l.limit
          <5>1. [pos |-> l.idx, words |-> l.staged] \in [pos : Nat, words : [WordIds -> Nat]]
            BY DEF ReaderState
          <5> QED BY <1>5, <3>2, <4>1, <5>1
        <4>3. \A j \in Len(m.out) .. m.limit - 1 : FALSE
          BY <1>5, <3>1, <4>2
        <4> QED BY <3>1, <3>2, <4>3 DEF EndOK
      <3> QED BY <3>3, <3>4
    <2> QED BY <2>1, <2>2
  <1> QED
    <2> SUFFICES ASSUME NEW q \in Readers PROVE LossOK(rd[q])' /\ EndOK(rd[q])'
      BY DEF LossInv
    <2>1. PICK n : n = rd'[q]
      OBVIOUS
    <2>2. LossOK(n) /\ EndOK(n)
      BY <1>4, <1>6, <1>7, <2>1 DEF LossInv
    <2> QED BY <1>3, <2>1, <2>2 DEF LossOK, EndOK, Holds, WantCell, Want, CellOf

LEMMA LossByCall ==
  ASSUME IInv, LossInv, NEW r \in Readers, CallAny(r)
  PROVE  LossInv'
  <1>1. PICK op, k : Call(r, op, k)
    BY DEF CallAny
  <1> DEFINE m == [Idle EXCEPT !.pc = "cursor", !.op = op, !.k = k, !.floor = writeCount]
  <1>2. m.pc = "cursor"
    BY DEF Idle
  <1>3. rd' = [rd EXCEPT ![r] = m] /\ UNCHANGED <<writeCount, seq, index>>
    BY <1>1 DEF Call, cells
  <1> HIDE DEF m
  <1>4. \A q \in Readers : rd'[q] = IF q = r THEN m ELSE rd[q]
    BY <1>3 DEF IInv, TypeOK
  <1> SUFFICES ASSUME NEW q \in Readers PROVE LossOK(rd[q])' /\ EndOK(rd[q])'
    BY DEF LossInv
  <1>5. PICK n : n = rd'[q]
    OBVIOUS
  <1>6. LossOK(n) /\ EndOK(n)
    BY <1>2, <1>4, <1>5 DEF LossInv, LossOK, EndOK
  <1> QED BY <1>3, <1>5, <1>6 DEF LossOK, EndOK, Holds, WantCell, Want, CellOf

-----------------------------------------------------------------------------
(* What "empty" means. *)

LEMMA NewestByWriter ==
  ASSUME IInv, HeldInv, NewestInv, EmptyIsHonest,
         Store \/ Crash \/ RepairAfterWriterCrash, crashes' \in Nat
  PROVE  NewestInv' /\ EmptyIsHonest'
  <1>1. PICK k \in Cells : k = CurrentCell
    BY WriterMoves
  <1>2. /\ Moves(k) /\ rd' = rd /\ crashes \in Nat
        /\ \A n \in Cells : n # k => seq'[n] = seq[n]
    BY <1>1, WriterMoves DEF IInv, TypeOK
  <1>3. straddled \subseteq straddled' /\ (crashes' = 0 => crashes = 0)
    BY <1>2 DEF Moves
  <1>4. EmptyIsHonest'
    BY <1>2, <1>3 DEF EmptyIsHonest
  <1>5. NewestInv'
    <2> SUFFICES ASSUME NEW r \in Readers \ straddled' PROVE NewestOK(rd[r])'
      BY DEF NewestInv
    <2>1. PICK l \in ReaderState : l = rd[r] /\ rd'[r] = l
      BY <1>2 DEF IInv, TypeOK
    <2>2. r \notin straddled /\ NewestOK(l)
      BY <1>3, <2>1 DEF NewestInv
    <2>3. ASSUME l.pc \notin {"idle", "cursor"}, N > 1 \/ crashes' = 0
          PROVE  seq'[CellOf(l.c - 1)] # 0
      <3>1. CellOf(l.c - 1) \in Cells
        BY CellInRing DEF ReaderState
      <3>2. seq[CellOf(l.c - 1)] # 0
        BY <1>3, <2>2, <2>3 DEF NewestOK
      <3>3. ~Odd(0)
        BY DEF Odd
      <3>4. seq'[k] = 0 => seq[k] = 0
        BY <1>2, <2>1, <2>3, <3>3 DEF Moves
      <3> QED BY <1>2, <3>1, <3>2, <3>4
    <2> QED BY <2>1, <2>2, <2>3 DEF NewestOK, CellOf
  <1> QED BY <1>4, <1>5

LEMMA NewestByReader ==
  ASSUME IInv, HeldInv, NewestInv, EmptyIsHonest, NEW r \in Readers, Read(r)
  PROVE  NewestInv' /\ EmptyIsHonest'
  <1>1. PICK l \in ReaderState : l = rd[r]
    BY DEF IInv, TypeOK
  <1>2. PICK m : ReaderStep(r, m) /\ Steps(l, m)
    BY <1>1, ReadMoves
  <1>3. /\ rd' = [rd EXCEPT ![r] = m]
        /\ UNCHANGED <<writeCount, seq, index, quiet, straddled, crashes, wpc>>
    BY <1>2 DEF ReaderStep, cells, writer
  <1>4. \A q \in Readers : rd'[q] = IF q = r THEN m ELSE rd[q]
    BY <1>3 DEF IInv, TypeOK
  <1>5. /\ l.c \in Nat /\ l.floor \in Nat /\ writeCount \in Nat /\ crashes \in Nat
        /\ WalkOK(l) /\ N \in Nat \ {0}
    BY <1>1, RingAssumption DEF ReaderState, IInv, TypeOK, WalkInv
  <1>6. ASSUME r \notin straddled
        PROVE  /\ NewestOK(m)
               /\ m.res = "kEmpty" => m.floor = 0 \/ (N = 1 /\ crashes > 0)
    <2>1. NewestOK(l) /\ l.pc # "idle" /\ l.res = "none"
      BY <1>1, <1>2, <1>6 DEF NewestInv, NewestOK, Steps
    <2>2. m.pc # "idle" => m.res = "none"
      BY <1>2, <2>1 DEF Steps
    <2>3. ASSUME m.pc \notin {"idle", "cursor"}, N > 1 \/ crashes = 0
          PROVE  seq[CellOf(m.c - 1)] # 0
      <3>1. CASE l.pc = "cursor"
        <4>1. m.c = writeCount /\ writeCount # 0
          BY <1>2, <2>3, <3>1 DEF Steps
        <4>2. PICK p \in 0 .. writeCount : p = writeCount - 1
          BY <1>5, <4>1
        <4>3. \/ p < writeCount /\ writeCount < p + N
              \/ p + N = writeCount /\ crashes = 0
          BY <1>5, <2>3, <4>2
        <4>4. seq[CellOf(p)] # 0
          BY <4>3 DEF HeldInv, Holds
        <4> QED BY <4>1, <4>2, <4>4
      <3>2. CASE l.pc # "cursor"
        <4>1. m.c = l.c
          BY <1>2, <2>3, <3>2 DEF Steps
        <4> QED BY <2>1, <2>3, <3>2, <4>1 DEF NewestOK
      <3> QED BY <3>1, <3>2
    <2>4. ASSUME m.res = "kEmpty" PROVE m.floor = 0 \/ (N = 1 /\ crashes > 0)
      <3>1. /\ l.op # "Snapshot" /\ m.floor = l.floor
            /\ \/ l.pc = "cursor" /\ writeCount = 0
               \/ l.pc = "seq" /\ seq[WantCell(l)] = 0
        BY <1>2, <2>1, <2>4 DEF Steps
      <3>2. CASE l.pc = "cursor" /\ writeCount = 0
        BY <1>5, <3>1, <3>2 DEF WalkOK
      <3>3. CASE l.pc = "seq" /\ seq[WantCell(l)] = 0
        <4>1. l.i = 0
          BY <1>5, <3>1, <3>3 DEF WalkOK
        <4>2. WantCell(l) = CellOf(l.c - 1)
          BY <1>5, <4>1 DEF WantCell, Want
        <4> QED BY <1>5, <2>1, <3>3, <4>2 DEF NewestOK
      <3> QED BY <3>1, <3>2, <3>3
    <2> QED BY <2>2, <2>3, <2>4 DEF NewestOK
  <1>7. EmptyIsHonest'
    BY <1>3, <1>4, <1>6 DEF EmptyIsHonest
  <1>8. NewestInv'
    <2> SUFFICES ASSUME NEW q \in Readers \ straddled' PROVE NewestOK(rd[q])'
      BY DEF NewestInv
    <2>1. PICK n : n = rd'[q]
      OBVIOUS
    <2>2. NewestOK(n)
      BY <1>3, <1>4, <1>6, <2>1 DEF NewestInv
    <2> QED BY <1>3, <2>1, <2>2 DEF NewestOK, CellOf
  <1> QED BY <1>7, <1>8

(* The locals of a new call *)
LEMMA CallMoves ==
  ASSUME IInv, NEW r \in Readers, CallAny(r)
  PROVE  \E m :
           /\ m.pc = "cursor" /\ m.res = "none"
           /\ \A q \in Readers : rd'[q] = IF q = r THEN m ELSE rd[q]
           /\ UNCHANGED <<writeCount, seq, index, crashes, wpc>>
           /\ straddled' = straddled \ {r}
           /\ quiet' = IF wpc = "idle" THEN quiet \cup {r} ELSE quiet \ {r}
  <1>1. PICK op, k : Call(r, op, k)
    BY DEF CallAny
  <1> DEFINE m == [Idle EXCEPT !.pc = "cursor", !.op = op, !.k = k, !.floor = writeCount]
  <1>2. m.pc = "cursor" /\ m.res = "none"
    BY DEF Idle
  <1>3. /\ rd' = [rd EXCEPT ![r] = m] /\ UNCHANGED <<writeCount, seq, index, crashes, wpc>>
        /\ straddled' = straddled \ {r}
        /\ quiet' = IF wpc = "idle" THEN quiet \cup {r} ELSE quiet \ {r}
    BY <1>1 DEF Call, cells, writer
  <1> HIDE DEF m
  <1>4. \A q \in Readers : rd'[q] = IF q = r THEN m ELSE rd[q]
    BY <1>3 DEF IInv, TypeOK
  <1> QED BY <1>2, <1>3, <1>4

LEMMA NewestByCall ==
  ASSUME IInv, NewestInv, EmptyIsHonest, NEW r \in Readers, CallAny(r)
  PROVE  NewestInv' /\ EmptyIsHonest'
  <1>1. PICK m :
           /\ m.pc = "cursor" /\ m.res = "none"
           /\ \A q \in Readers : rd'[q] = IF q = r THEN m ELSE rd[q]
           /\ UNCHANGED <<writeCount, seq, index, crashes, wpc>>
           /\ straddled' = straddled \ {r}
    BY CallMoves
  <1>2. EmptyIsHonest'
    BY <1>1 DEF EmptyIsHonest
  <1>3. NewestInv'
    <2> SUFFICES ASSUME NEW q \in Readers \ straddled' PROVE NewestOK(rd[q])'
      BY DEF NewestInv
    <2>1. PICK n : n = rd'[q]
      OBVIOUS
    <2>2. NewestOK(n)
      BY <1>1, <2>1 DEF NewestInv, NewestOK
    <2> QED BY <1>1, <2>1, <2>2 DEF NewestOK, CellOf
  <1> QED BY <1>2, <1>3

-----------------------------------------------------------------------------
(* Calls that no store ran under. *)

(* QuietReadsSucceed of one reader, where the newest value was not lost *)
Succeeded(l) ==
  (N > 1 \/ crashes = 0) /\ l.pc = "idle" =>
    /\ l.res # "kStalled"
    /\ l.res = "kValue" => l.out[1].pos + 1 = writeCount
    /\ l.res = "count" =>
          Len(l.out) >= Least(Least(l.k, writeCount), IF crashes = 0 THEN N ELSE N - 1)

QuietAll == QuietInv /\ \A r \in quiet : Succeeded(rd[r])

LEMMA QuietByReader ==
  ASSUME IInv, HeldInv, QuietAll, NEW r \in Readers, Read(r)
  PROVE  QuietAll'
  <1>1. PICK l \in ReaderState : l = rd[r]
    BY DEF IInv, TypeOK
  <1>2. PICK m : ReaderStep(r, m) /\ Steps(l, m)
    BY <1>1, ReadMoves
  <1>3. /\ rd' = [rd EXCEPT ![r] = m]
        /\ UNCHANGED <<writeCount, seq, index, quiet, straddled, crashes, wpc>>
    BY <1>2 DEF ReaderStep, cells, writer
  <1>4. \A q \in Readers : rd'[q] = IF q = r THEN m ELSE rd[q]
    BY <1>3 DEF IInv, TypeOK
  <1>5. /\ l.c \in Nat /\ l.i \in Nat /\ l.k \in Nat /\ l.limit \in Nat
        /\ writeCount \in Nat /\ crashes \in Nat /\ WalkOK(l) /\ N \in Nat \ {0}
        /\ l.out \in Seq([pos : Nat, words : [WordIds -> Nat]])
        /\ [pos |-> l.idx, words |-> l.staged] \in [pos : Nat, words : [WordIds -> Nat]]
    BY <1>1, RingAssumption DEF ReaderState, IInv, TypeOK, WalkInv
  <1>6. ASSUME r \in quiet PROVE QuietOK(m) /\ Succeeded(m)
    <2>1. QuietOK(l) /\ wpc = "idle" /\ l.pc # "idle"
      BY <1>1, <1>2, <1>6 DEF QuietAll, QuietInv, Steps
    <2>2. QuietOK(m)
      <3>1. m.pc \notin {"idle", "cursor"} =>
              /\ m.c = writeCount
              /\ m.op = "Snapshot" => m.limit = Least(Least(m.k, writeCount), N)
        BY <1>2, <2>1 DEF Steps, QuietOK
      <3>2. ASSUME m.pc \in {"index", "words", "validate"}
            PROVE  /\ seq[WantCell(m)] = m.s1
                   /\ m.pc # "index" => index[WantCell(m)] = m.idx
        <4>1. WantCell(m) = WantCell(l)
          BY <1>2, <3>2 DEF Steps, WantCell, Want
        <4> QED BY <1>2, <2>1, <3>2, <4>1 DEF Steps, QuietOK
      <3> QED BY <3>1, <3>2 DEF QuietOK
    <2>3. Succeeded(m)
      <3> DEFINE held == IF crashes = 0 THEN N ELSE N - 1
      <3> SUFFICES ASSUME N > 1 \/ crashes = 0, m.pc = "idle"
                   PROVE  /\ m.res # "kStalled"
                          /\ m.res = "kValue" => m.out[1].pos + 1 = writeCount
                          /\ m.res = "count" =>
                                Len(m.out) >= Least(Least(m.k, writeCount), held)
        BY DEF Succeeded
      <3>0. held \in Nat /\ held <= N
        BY <1>5
      <3>1. CASE m.res = "kEmpty"
        BY <3>1
      <3>2. CASE l.pc = "cursor" /\ m.res # "kEmpty"
        <4>1. m.res = "count" /\ Len(m.out) = 0 /\ m.k = l.k
              /\ Least(Least(l.k, writeCount), N) = 0
          BY <1>2, <3>2 DEF Steps
        <4> QED BY <1>5, <3>0, <4>1 DEF Least
      <3>3. CASE /\ l.pc # "cursor" /\ m.res # "kEmpty"
                 /\ l.pc = "validate" => ~Valid(l)
        <4>1. /\ \/ l.pc = "seq" /\ (seq[WantCell(l)] = 0 \/ Odd(seq[WantCell(l)]))
                 \/ l.pc = "validate" /\ ~Valid(l)
              /\ \/ l.op = "Snapshot" /\ m.res = "count" /\ m.out = l.out /\ m.k = l.k
                 \/ l.op # "Snapshot"
          BY <1>2, <3>3 DEF Steps
        <4>2. PICK p \in Nat :
                 p = Want(l) /\ p < writeCount /\ WantCell(l) = CellOf(p)
          BY <1>1, <2>1, <3>3, Wanted
        <4>3. ~Holds(p)
          BY <2>1, <4>1, <4>2 DEF QuietOK, Valid, Holds
        <4>4. p + N <= writeCount /\ (crashes = 0 => p + N # writeCount)
          BY <1>5, <2>1, <4>2, <4>3 DEF HeldInv
        <4>5. p = writeCount - 1 - l.i
          BY <2>1, <3>3, <4>2 DEF QuietOK, Want
        <4>6. l.i >= N - 1 /\ (crashes = 0 => l.i >= N)
          <5>1. p \in Nat /\ N \in Nat /\ writeCount \in Nat /\ l.i \in Nat
            BY <1>5
          <5>2. l.i >= N - 1
            BY <4>4, <4>5, <5>1
          <5>3. ASSUME crashes = 0 PROVE l.i >= N
            <6>1. p + N < writeCount
              BY <4>4, <5>1, <5>3
            <6> QED BY <4>5, <5>1, <6>1
          <5> QED BY <5>2, <5>3
        <4>7. l.op = "Snapshot"
          <5>1. l.op # "Snapshot" => l.i = 0
            BY <1>5, <2>1 DEF WalkOK
          <5> QED BY <1>5, <4>6, <5>1
        <4>8. Len(m.out) = l.i /\ m.res = "count"
          BY <1>5, <2>1, <4>1, <4>7 DEF WalkOK
        <4>9. l.i >= held
          BY <1>5, <4>6
        <4>10. Least(Least(m.k, writeCount), held) <= held
          BY <1>5, <3>0, <4>1, <4>7 DEF Least
        <4>11. Least(Least(m.k, writeCount), held) \in Nat
          BY <1>5, <3>0, <4>1, <4>7 DEF Least
        <4> QED BY <1>5, <3>0, <4>8, <4>9, <4>10, <4>11
      <3>4. CASE l.pc = "validate" /\ Valid(l)
        <4>1. /\ m.out = Append(l.out, [pos |-> l.idx, words |-> l.staged]) /\ m.k = l.k
              /\ \/ l.op # "Snapshot" /\ m.res = "kValue"
                 \/ l.op = "Snapshot" /\ l.i + 1 = l.limit /\ m.res = "count"
          BY <1>2, <3>4 DEF Steps
        <4>2. Len(l.out) = l.i /\ l.c = writeCount /\ l.idx = l.c - 1 - l.i
          BY <1>5, <2>1, <3>4 DEF WalkOK, QuietOK, Valid, Want
        <4>3. Len(m.out) = l.i + 1 /\ m.out[l.i + 1] = [pos |-> l.idx, words |-> l.staged]
          BY <1>5, <4>1, <4>2
        <4>4. CASE l.op # "Snapshot"
          <5>1. l.i = 0
            BY <1>5, <2>1, <4>4 DEF WalkOK
          <5>2. m.out[1].pos = l.idx
            BY <4>3, <5>1
          <5> QED BY <1>5, <4>1, <4>2, <4>4, <5>1, <5>2
        <4>5. CASE l.op = "Snapshot"
          <5>1. Len(m.out) = Least(Least(l.k, writeCount), N)
            BY <2>1, <3>4, <4>1, <4>3, <4>5 DEF QuietOK
          <5>2. Least(Least(l.k, writeCount), N) >= Least(Least(l.k, writeCount), held)
            BY <1>5, <3>0 DEF Least
          <5> QED BY <4>1, <4>5, <5>1, <5>2
        <4> QED BY <4>4, <4>5
      <3> QED BY <3>1, <3>2, <3>3, <3>4
    <2> QED BY <2>2, <2>3
  <1>7. ASSUME NEW q \in quiet'
        PROVE  /\ wpc' = "idle" /\ q \notin straddled'
               /\ QuietOK(rd[q])' /\ Succeeded(rd[q])'
    <2>1. q \in Readers
      BY <1>3 DEF IInv, TypeOK
    <2>2. PICK n : n = rd'[q]
      OBVIOUS
    <2>3. wpc = "idle" /\ q \notin straddled /\ QuietOK(n) /\ Succeeded(n)
      BY <1>3, <1>4, <1>6, <2>1, <2>2 DEF QuietAll, QuietInv
    <2> QED BY <1>3, <2>2, <2>3 DEF QuietOK, Succeeded, WantCell, Want, CellOf
  <1> QED BY <1>7 DEF QuietAll, QuietInv

LEMMA QuietByCall ==
  ASSUME IInv, QuietAll, NEW r \in Readers, CallAny(r)
  PROVE  QuietAll'
  <1>1. PICK m :
           /\ m.pc = "cursor" /\ m.res = "none"
           /\ \A q \in Readers : rd'[q] = IF q = r THEN m ELSE rd[q]
           /\ UNCHANGED <<writeCount, seq, index, crashes, wpc>>
           /\ straddled' = straddled \ {r}
           /\ quiet' = IF wpc = "idle" THEN quiet \cup {r} ELSE quiet \ {r}
    BY CallMoves
  <1>2. ASSUME NEW q \in quiet'
        PROVE  /\ wpc' = "idle" /\ q \notin straddled'
               /\ QuietOK(rd[q])' /\ Succeeded(rd[q])'
    <2>1. q \in Readers
      BY <1>1 DEF IInv, TypeOK
    <2>2. PICK n : n = rd'[q]
      OBVIOUS
    <2>3. wpc = "idle" /\ q \notin straddled' /\ QuietOK(n) /\ Succeeded(n)
      <3>1. CASE q = r
        <4>1. n.pc = "cursor"
          BY <1>1, <2>1, <2>2, <3>1
        <4>2. QuietOK(n) /\ Succeeded(n)
          BY <4>1 DEF QuietOK, Succeeded
        <4>3. wpc = "idle" /\ q \notin straddled'
          BY <1>1, <3>1
        <4> QED BY <4>2, <4>3
      <3>2. CASE q # r
        <4>1. q \in quiet /\ n = rd[q]
          BY <1>1, <2>1, <2>2, <3>2
        <4> QED BY <1>1, <4>1 DEF QuietAll, QuietInv
      <3> QED BY <3>1, <3>2
    <2> QED BY <1>1, <2>2, <2>3 DEF QuietOK, Succeeded, WantCell, Want, CellOf
  <1> QED BY <1>2 DEF QuietAll, QuietInv

-----------------------------------------------------------------------------

(* The second inductive invariant: it needs the first and adds what the    *)
(* cells hold, and for how long.                                           *)
JInv == HeldInv /\ GoneInv /\ LossInv /\ NewestInv /\ EmptyIsHonest /\ QuietAll

LEMMA JInit == Init => JInv
  <1> SUFFICES ASSUME Init PROVE JInv
    OBVIOUS
  <1>1. N \in Nat /\ N > 0
    BY RingAssumption
  <1>2. HeldInv /\ GoneInv
    BY <1>1 DEF Init, HeldInv, GoneInv
  <1>3. \A r \in Readers : rd[r].pc = "idle" /\ rd[r].res = "none"
    BY DEF Init, Idle
  <1>4. LossInv /\ NewestInv /\ EmptyIsHonest
    BY <1>3 DEF LossInv, LossOK, EndOK, NewestInv, NewestOK, EmptyIsHonest
  <1>5. QuietAll
    BY DEF Init, QuietAll, QuietInv
  <1> QED BY <1>2, <1>4, <1>5 DEF JInv

LEMMA JNext == IInv /\ IInv' /\ JInv /\ [CrashNext]_vars => JInv'
  <1> SUFFICES ASSUME IInv, IInv', JInv, [CrashNext]_vars PROVE JInv'
    OBVIOUS
  <1>1. CASE Store \/ Crash \/ RepairAfterWriterCrash
    <2>1. HeldInv' /\ GoneInv' /\ LossInv'
      BY <1>1, HeldByWriter, LossByWriter DEF JInv
    <2>2. crashes' \in Nat
      BY DEF IInv, TypeOK
    <2>3. NewestInv' /\ EmptyIsHonest'
      BY <1>1, <2>2, NewestByWriter DEF JInv
    <2>4. quiet' = {}
      BY <1>1, WriterMoves DEF JInv
    <2>5. QuietAll'
      BY <2>4 DEF QuietAll, QuietInv
    <2> QED BY <2>1, <2>3, <2>5 DEF JInv
  <1>2. ASSUME NEW r \in Readers, CallAny(r) PROVE JInv'
    <2>1. UNCHANGED <<writeCount, seq, index, crashes, wpc>>
      BY <1>2, CallMoves
    <2>2. HeldInv' /\ GoneInv'
      BY <2>1 DEF JInv, HeldInv, GoneInv, Holds, CurrentCell, CellOf
    <2> QED BY <1>2, <2>2, LossByCall, NewestByCall, QuietByCall DEF JInv
  <1>3. ASSUME NEW r \in Readers, Read(r) PROVE JInv'
    <2>1. UNCHANGED <<writeCount, seq, index, crashes, wpc>>
      BY <1>3, ReadMoves DEF ReaderStep, cells, writer
    <2>2. HeldInv' /\ GoneInv'
      BY <2>1 DEF JInv, HeldInv, GoneInv, Holds, CurrentCell, CellOf
    <2> QED BY <1>3, <2>2, LossByReader, NewestByReader, QuietByReader DEF JInv
  <1>4. CASE UNCHANGED vars
    <2>1. UNCHANGED <<writeCount, seq, index, crashes, wpc, rd, straddled, quiet>>
      BY <1>4 DEF vars, cells, writer
    <2>2. HeldInv' /\ GoneInv'
      BY <2>1 DEF JInv, HeldInv, GoneInv, Holds, CurrentCell, CellOf
    <2>3. LossInv' /\ NewestInv' /\ EmptyIsHonest'
      BY <2>1 DEF JInv, LossInv, LossOK, EndOK, Holds, NewestInv, NewestOK,
                  EmptyIsHonest, WantCell, Want, CellOf
    <2>4. QuietAll'
      BY <2>1 DEF JInv, QuietAll, QuietInv, QuietOK, Succeeded, WantCell, Want, CellOf
    <2> QED BY <2>2, <2>3, <2>4 DEF JInv
  <1> QED BY <1>1, <1>2, <1>3, <1>4 DEF CrashNext, Next

LEMMA JHolds == CrashSpec => []JInv
  BY JInit, JNext, InvariantHolds, PTL DEF CrashSpec

(* What a store, or the store a writer died in, took from its cell cannot  *)
(* be read again after any step: for every depth, and whenever the writer  *)
(* dies and is replaced.                                                   *)
THEOREM GoneIsGone == CrashSpec => NothingComesBack
  <1>1. ASSUME IInv, JInv, [CrashNext]_vars, NEW p \in 0 .. writeCount - 1, ~Holds(p)
        PROVE  ~Holds(p)'
    <2>1. p \in Nat /\ p < writeCount
      BY <1>1 DEF IInv, TypeOK
    <2>2. CASE Store \/ Crash \/ RepairAfterWriterCrash
      BY <1>1, <2>1, <2>2, StaysGone DEF JInv
    <2>3. CASE UNCHANGED <<seq, index>>
      BY <1>1, <2>3 DEF Holds
    <2>4. ASSUME NEW r \in Readers, CallAny(r) PROVE UNCHANGED <<seq, index>>
      BY <1>1, <2>4, CallMoves
    <2>5. ASSUME NEW r \in Readers, Read(r) PROVE UNCHANGED <<seq, index>>
      BY <1>1, <2>5, ReadMoves DEF ReaderStep, cells
    <2>6. CASE UNCHANGED vars
      BY <2>3, <2>6 DEF vars, cells
    <2> QED BY <1>1, <2>2, <2>3, <2>4, <2>5, <2>6 DEF CrashNext, Next
  <1>2. IInv /\ JInv /\ [CrashNext]_vars =>
          [\A p \in 0 .. writeCount - 1 : ~Holds(p) => ~Holds(p)']_vars
    BY <1>1
  <1> QED BY <1>2, InvariantHolds, JHolds, PTL DEF CrashSpec, NothingComesBack

(* Nothing that a Snapshot did not return could still be read when it      *)
(* returned, or ever after: for every depth, and whenever the writer dies. *)
THEOREM SnapshotsLoseNothing == CrashSpec => []SnapshotLosesNothing
  <1>1. JInv => SnapshotLosesNothing
    BY DEF JInv, LossInv, EndOK, SnapshotLosesNothing
  <1> QED BY <1>1, JHolds, PTL

(* Load and LoadBounded say "empty" only of a ring that was empty when     *)
(* they were called, or that lost its newest value to a repair.            *)
THEOREM EmptyRingsOnly == CrashSpec => []EmptyIsHonest
  <1>1. JInv => EmptyIsHonest
    BY DEF JInv
  <1> QED BY <1>1, JHolds, PTL

(* Reads under an idle writer succeed at once, whatever deaths and repairs *)
(* came before them, in a ring of two or more cells.                       *)
THEOREM QuietReads == ASSUME N > 1 PROVE CrashSpec => []QuietReadsSucceed
  <1>1. JInv => QuietReadsSucceed
    BY DEF JInv, QuietAll, Succeeded, QuietReadsSucceed
  <1> QED BY <1>1, JHolds, PTL

(* In process the writer does not die alone. *)
LEMMA NoCrashes == Spec => CrashSpec /\ [](crashes = 0)
  <1>1. [Next]_vars => [CrashNext]_vars
    BY DEF CrashNext
  <1>2. Init => crashes = 0
    BY DEF Init
  <1>3. crashes = 0 /\ [Next]_vars => (crashes = 0)'
    <2> SUFFICES ASSUME crashes = 0, [Next]_vars PROVE crashes' = 0
      OBVIOUS
    <2>1. CASE Store
      BY <2>1 DEF Store, StoreBegin, StoreIndex, StoreWord, StoreEven,
                  StorePublish, WriterStep
    <2>2. ASSUME NEW r \in Readers, CallAny(r) PROVE crashes' = 0
      BY <2>2 DEF CallAny, Call
    <2>3. ASSUME NEW r \in Readers, Read(r) PROVE crashes' = 0
      BY <2>3 DEF Read, LoadCursor, SnapshotCursor, LoadSeq, LoadIndex, LoadWord,
                  Validate, ReaderStep
    <2>4. CASE UNCHANGED vars
      BY <2>4 DEF vars
    <2> QED BY <2>1, <2>2, <2>3, <2>4 DEF Next
  <1> QED BY <1>1, <1>2, <1>3, PTL DEF Spec, CrashSpec

(* In process the ring of one cell has the property as well. *)
THEOREM QuietReadsInProcess == Spec => []QuietReadsSucceed
  <1>1. JInv /\ crashes = 0 => QuietReadsSucceed
    BY DEF JInv, QuietAll, Succeeded, QuietReadsSucceed
  <1> QED BY <1>1, NoCrashes, JHolds, PTL

-----------------------------------------------------------------------------
(* The ring implements OverwriteHistory. *)

LEMMA CountInit == Init => CountInv
  BY RingAssumption DEF Init, CountInv, Idle, RingAssumption

LEMMA CountNext == ASSUME IInv, JInv, CountInv, [CrashNext]_vars PROVE CountInv'
  <1>1. MaxStores \in Nat /\ N \in Nat
    BY RingAssumption DEF RingAssumption
  <1>2. CASE Store \/ Crash \/ RepairAfterWriterCrash
    <2>1. rd' = rd
      BY <1>2, WriterMoves DEF JInv
    <2>2. stores' \in 0 .. MaxStores
      BY <1>1, <1>2 DEF CountInv, Store, StoreBegin, StoreIndex, StoreWord, StoreEven,
                        StorePublish, Crash, RepairAfterWriterCrash
    <2>3. wpc' \in {"index", "words", "even", "publish"} => stores' > 0
      BY <1>1, <1>2 DEF CountInv, Store, StoreBegin, StoreIndex, StoreWord, StoreEven,
                        StorePublish, Crash, RepairAfterWriterCrash
    <2> QED BY <2>1, <2>2, <2>3 DEF CountInv
  <1>3. ASSUME NEW r \in Readers, CallAny(r) PROVE CountInv'
    <2>1. PICK m :
             /\ m.pc = "cursor" /\ wpc' = wpc
             /\ \A q \in Readers : rd'[q] = IF q = r THEN m ELSE rd[q]
      BY <1>3, CallMoves
    <2>2. stores' = stores
      BY <1>3 DEF CallAny, Call, writer
    <2> QED BY <2>1, <2>2 DEF CountInv
  <1>4. ASSUME NEW r \in Readers, Read(r) PROVE CountInv'
    <2>1. PICK l \in ReaderState : l = rd[r]
      BY DEF IInv, TypeOK
    <2>2. PICK m : ReaderStep(r, m) /\ Steps(l, m)
      BY <1>4, <2>1, ReadMoves
    <2>3. rd' = [rd EXCEPT ![r] = m] /\ UNCHANGED <<stores, wpc>>
      BY <2>2 DEF ReaderStep, writer
    <2>4. \A q \in Readers : rd'[q] = IF q = r THEN m ELSE rd[q]
      BY <2>3 DEF IInv, TypeOK
    <2>5. ASSUME m.pc \notin {"idle", "cursor"}, m.op = "Snapshot" PROVE m.limit <= m.k
      <3>1. CASE l.pc = "cursor"
        <4>1. l.k \in Nat /\ writeCount \in Nat
          BY DEF ReaderState, IInv, TypeOK
        <4>2. m.limit = Least(Least(l.k, writeCount), N) /\ m.k = l.k
          BY <2>2, <2>5, <3>1 DEF Steps
        <4> QED BY <1>1, <4>1, <4>2 DEF Least
      <3>2. CASE l.pc # "cursor"
        <4>1. m.limit = l.limit /\ m.k = l.k /\ l.op = "Snapshot" /\ l.pc # "idle"
          BY <2>2, <2>5, <3>2 DEF Steps
        <4> QED BY <2>1, <3>2, <4>1 DEF CountInv
      <3> QED BY <3>1, <3>2
    <2> QED BY <2>3, <2>4, <2>5 DEF CountInv
  <1>5. CASE UNCHANGED vars
    BY <1>5 DEF vars, writer, CountInv
  <1> QED BY <1>2, <1>3, <1>4, <1>5 DEF CrashNext, Next

(* What the callers of the verbs see *)
Calls == [r \in Readers |-> Visible(rd[r], r \in straddled)]

LEMMA NoEntries == Entries(<<>>) = <<>>
  BY DEF Entries

LEMMA HistoryInit == Init => History!Init
  <1> SUFFICES ASSUME Init PROVE History!Init
    OBVIOUS
  <1>1. log = <<>>
    BY DEF Init
  <1>2. ASSUME NEW r \in Readers PROVE Visible(rd[r], r \in straddled) = History!NoCall
    <2>1. rd[r] = Idle /\ ~(r \in straddled)
      BY DEF Init
    <2>2. /\ Idle.pc = "idle" /\ Idle.op = "Load" /\ Idle.k = 0 /\ Idle.floor = 0
          /\ Idle.res = "none" /\ Idle.out = <<>>
      BY DEF Idle
    <2>3. Visible(Idle, FALSE) = History!NoCall
      BY <2>2, NoEntries DEF Visible, History!NoCall
    <2>4. (r \in straddled) = FALSE
      BY <2>1, SMT
    <2>5. Visible(rd[r], r \in straddled) = Visible(Idle, FALSE)
      BY <2>1, <2>4, Zenon
    <2> QED BY <2>3, <2>5
  <1> QED BY <1>1, <1>2 DEF History!Init

(* (W3) is the abstract Store. *)
LEMMA PublishIsStore ==
  ASSUME IInv, JInv, CountInv, StorePublish
  PROVE  \E v \in 1 .. MaxStores : History!Store(v)
  <1>1. stores \in 1 .. MaxStores
    BY RingAssumption DEF StorePublish, CountInv, RingAssumption
  <1>2. log' = Append(log, stores) /\ rd' = rd /\ straddled' = straddled
    BY DEF StorePublish, WriterStep
  <1> QED BY <1>1, <1>2 DEF History!Store

LEMMA VoidIfBusy ==
  ASSUME NEW l, NEW b \in BOOLEAN
  PROVE  [Visible(l, b) EXCEPT !.void = Visible(l, b).void \/ Visible(l, b).busy]
           = Visible(l, b \/ l.pc # "idle")
  <1> DEFINE v == Visible(l, b)
             out == IF l.pc = "idle" THEN Entries(l.out) ELSE <<>>
  <1>1. v = [busy |-> l.pc # "idle", op |-> l.op, k |-> l.k, floor |-> l.floor,
             res |-> l.res, void |-> b, out |-> out]
    BY Zenon DEF Visible
  <1>2. Visible(l, b \/ l.pc # "idle") =
          [busy |-> l.pc # "idle", op |-> l.op, k |-> l.k, floor |-> l.floor,
           res |-> l.res, void |-> (b \/ l.pc # "idle"), out |-> out]
    BY Zenon DEF Visible
  <1> HIDE DEF v, out
  <1>3. v.void = b /\ v.busy = (l.pc # "idle")
    BY <1>1, Zenon
  <1>4. [v EXCEPT !.void = v.void \/ v.busy] =
          [busy |-> l.pc # "idle", op |-> l.op, k |-> l.k, floor |-> l.floor,
           res |-> l.res, void |-> (v.void \/ v.busy), out |-> out]
    BY <1>1
  <1>5. (v.void \/ v.busy) = (b \/ l.pc # "idle")
    BY <1>3, Zenon
  <1>6. [v EXCEPT !.void = v.void \/ v.busy] = Visible(l, b \/ l.pc # "idle")
    BY <1>2, <1>4, <1>5, Zenon
  <1> QED BY <1>6 DEF v

(* A repair that retracts a cell is the abstract Retract. *)
LEMMA RepairIsRetract ==
  ASSUME IInv, RepairAfterWriterCrash
  PROVE  History!Retract \/ UNCHANGED History!vars
  <1>1. log' = log /\ rd' = rd
    BY DEF RepairAfterWriterCrash
  <1>2. CASE straddled' = straddled
    BY <1>1, <1>2 DEF History!vars
  <1>3. CASE straddled' = straddled \cup {r \in Readers : rd[r].pc # "idle"}
    <2>1. ASSUME NEW r \in Readers
          PROVE  Visible(rd'[r], r \in straddled') =
                   [Visible(rd[r], r \in straddled) EXCEPT
                      !.void = Visible(rd[r], r \in straddled).void
                                 \/ Visible(rd[r], r \in straddled).busy]
      <3>1. (r \in straddled') = (r \in straddled \/ rd[r].pc # "idle")
        BY <1>3, SMT
      <3>2. (r \in straddled) \in BOOLEAN
        BY SMT
      <3> QED BY <1>1, <3>1, <3>2, VoidIfBusy, Zenon
    <2> QED BY <1>1, <2>1 DEF History!Retract
  <1> QED BY <1>2, <1>3 DEF RepairAfterWriterCrash

(* What is visible of a call that runs, and of one that returned *)
LEMMA VisibleFields ==
  ASSUME NEW l, NEW b
  PROVE  /\ l.pc # "idle" => Visible(l, b) =
              [busy |-> TRUE, op |-> l.op, k |-> l.k, floor |-> l.floor,
               res |-> l.res, void |-> b, out |-> <<>>]
         /\ l.pc = "idle" => Visible(l, b) =
              [busy |-> FALSE, op |-> l.op, k |-> l.k, floor |-> l.floor,
               res |-> l.res, void |-> b, out |-> Entries(l.out)]
  <1> DEFINE out == IF l.pc = "idle" THEN Entries(l.out) ELSE <<>>
  <1>1. Visible(l, b) = [busy |-> l.pc # "idle", op |-> l.op, k |-> l.k,
                         floor |-> l.floor, res |-> l.res, void |-> b, out |-> out]
    BY Zenon DEF Visible
  <1>2. CASE l.pc # "idle"
    <2>1. (l.pc # "idle") = TRUE /\ out = <<>>
      BY <1>2, SMT
    <2> HIDE DEF out
    <2> QED BY <1>1, <1>2, <2>1, Zenon
  <1>3. CASE l.pc = "idle"
    <2>1. (l.pc # "idle") = FALSE
      BY <1>3, SMT
    <2>2. out = Entries(l.out)
      BY <1>3, Zenon
    <2> HIDE DEF out
    <2> QED BY <1>1, <1>3, <2>1, <2>2, Zenon
  <1> QED BY <1>2, <1>3

(* A call of a verb is the abstract Invoke. *)
LEMMA CallIsInvoke ==
  ASSUME IInv, NEW r \in Readers, CallAny(r)
  PROVE  \E op \in History!Verbs, k \in SnapshotSizes \cup {0} : History!Invoke(r, op, k)
  <1>1. PICK op \in History!Verbs, k \in SnapshotSizes \cup {0} : Call(r, op, k)
    BY RingAssumption DEF RingAssumption, CallAny, History!Verbs
  <1> DEFINE m == [Idle EXCEPT !.pc = "cursor", !.op = op, !.k = k, !.floor = writeCount]
             X == [busy |-> TRUE, op |-> op, k |-> k, floor |-> Len(log),
                   res |-> "none", out |-> <<>>, void |-> FALSE]
  <1>2. /\ rd[r].pc = "idle" /\ rd' = [rd EXCEPT ![r] = m]
        /\ straddled' = straddled \ {r} /\ log' = log
    BY <1>1 DEF Call
  <1>3. /\ m.pc = "cursor" /\ m.op = op /\ m.k = k /\ m.floor = writeCount
        /\ m.res = "none"
    BY DEF Idle
  <1> HIDE DEF m
  <1>4. \A q \in Readers : rd'[q] = IF q = r THEN m ELSE rd[q]
    BY <1>2 DEF IInv, TypeOK
  <1>5. ~Visible(rd[r], r \in straddled).busy
    <2>1. Visible(rd[r], r \in straddled) =
              [busy |-> FALSE, op |-> rd[r].op, k |-> rd[r].k, floor |-> rd[r].floor,
               res |-> rd[r].res, void |-> r \in straddled, out |-> Entries(rd[r].out)]
      BY <1>2, VisibleFields, Zenon
    <2> QED BY <2>1
  <1>6. Visible(m, FALSE) = X
    <2>1. Visible(m, FALSE) =
            [busy |-> TRUE, op |-> op, k |-> k, floor |-> writeCount,
             res |-> "none", void |-> FALSE, out |-> <<>>]
      <3>1. m.pc # "idle"
        BY <1>3
      <3>2. Visible(m, FALSE) =
              [busy |-> TRUE, op |-> m.op, k |-> m.k, floor |-> m.floor,
               res |-> m.res, void |-> FALSE, out |-> <<>>]
        BY <3>1, VisibleFields
      <3> QED BY <1>3, <3>2
    <2>2. X = [busy |-> TRUE, op |-> op, k |-> k, floor |-> Len(log),
               res |-> "none", void |-> FALSE, out |-> <<>>]
      OBVIOUS
    <2>3. Len(log) = writeCount
      BY DEF IInv, WriterInv
    <2> QED BY <2>1, <2>2, <2>3
  <1> HIDE DEF X
  <1>7. ASSUME NEW q \in Readers
        PROVE  Visible(rd'[q], q \in straddled') =
                 IF q = r THEN X ELSE Visible(rd[q], q \in straddled)
    <2>1. CASE q = r
      <3>1. rd'[q] = m
        BY <1>4, <2>1
      <3>2. (q \in straddled') = FALSE
        BY <1>2, <2>1, SMT
      <3> QED BY <1>6, <2>1, <3>1, <3>2, Zenon
    <2>2. CASE q # r
      <3>1. rd'[q] = rd[q]
        BY <1>4, <2>2
      <3>2. (q \in straddled') = (q \in straddled)
        BY <1>2, <2>2, SMT
      <3> QED BY <2>2, <3>1, <3>2, Zenon
    <2> QED BY <2>1, <2>2
  <1>8. Calls' = [Calls EXCEPT ![r] = X]
    <2>1. Calls' = [q \in Readers |-> Visible(rd'[q], q \in straddled')]
      BY DEF Calls, Visible, Entries, Value
    <2>2. [Calls EXCEPT ![r] = X] =
            [q \in Readers |-> IF q = r THEN X ELSE Visible(rd[q], q \in straddled)]
      BY DEF Calls
    <2> QED BY <1>7, <2>1, <2>2
  <1>9. History!Invoke(r, op, k)
    BY <1>2, <1>5, <1>8 DEF History!Invoke, Calls, X
  <1> QED BY <1>1, <1>9

(* A step of a call changes what is visible of that call only. *)
LEMMA ReadIsVisible ==
  ASSUME IInv, NEW r \in Readers, NEW m, ReaderStep(r, m)
  PROVE  /\ Calls' = [Calls EXCEPT ![r] = Visible(m, r \in straddled)]
         /\ Calls[r] = Visible(rd[r], r \in straddled) /\ DOMAIN Calls = Readers
         /\ log' = log
  <1>1. rd' = [rd EXCEPT ![r] = m] /\ straddled' = straddled /\ log' = log
    BY DEF ReaderStep
  <1>2. \A q \in Readers : rd'[q] = IF q = r THEN m ELSE rd[q]
    BY <1>1 DEF IInv, TypeOK
  <1>3. Calls' = [q \in Readers |-> Visible(rd'[q], q \in straddled')]
    BY DEF Calls, Visible, Entries, Value
  <1>4. ASSUME NEW q \in Readers
        PROVE  Visible(rd'[q], q \in straddled') =
                 IF q = r THEN Visible(m, r \in straddled)
                          ELSE Visible(rd[q], q \in straddled)
    <2>1. CASE q = r
      <3>1. rd'[q] = m
        BY <1>2, <2>1
      <3>2. (q \in straddled') = (r \in straddled)
        BY <1>1, <2>1, SMT
      <3> QED BY <2>1, <3>1, <3>2, Zenon
    <2>2. CASE q # r
      <3>1. rd'[q] = rd[q]
        BY <1>2, <2>2
      <3>2. (q \in straddled') = (q \in straddled)
        BY <1>1, SMT
      <3> QED BY <2>2, <3>1, <3>2, Zenon
    <2> QED BY <2>1, <2>2
  <1>5. [Calls EXCEPT ![r] = Visible(m, r \in straddled)] =
          [q \in Readers |-> IF q = r THEN Visible(m, r \in straddled)
                                      ELSE Visible(rd[q], q \in straddled)]
    BY DEF Calls
  <1>6. Calls[r] = Visible(rd[r], r \in straddled) /\ DOMAIN Calls = Readers
    BY DEF Calls
  <1> QED BY <1>1, <1>3, <1>4, <1>5, <1>6

(* Nothing is visible of a call that goes on. *)
LEMMA RunningIsHidden ==
  ASSUME IInv, NEW r \in Readers, NEW m, ReaderStep(r, m), Steps(rd[r], m), m.pc # "idle"
  PROVE  Calls' = Calls /\ log' = log
  <1> DEFINE b == r \in straddled
  <1>1. /\ rd[r].pc # "idle" /\ m.op = rd[r].op /\ m.k = rd[r].k
        /\ m.floor = rd[r].floor /\ m.res = rd[r].res
    BY DEF Steps
  <1>2. Visible(m, b) = [busy |-> TRUE, op |-> m.op, k |-> m.k, floor |-> m.floor,
                         res |-> m.res, void |-> b, out |-> <<>>]
    BY VisibleFields, Zenon
  <1>3. Visible(rd[r], b) =
          [busy |-> TRUE, op |-> rd[r].op, k |-> rd[r].k, floor |-> rd[r].floor,
           res |-> rd[r].res, void |-> b, out |-> <<>>]
    BY <1>1, VisibleFields, Zenon
  <1>4. Visible(m, b) = Visible(rd[r], b)
    BY <1>1, <1>2, <1>3, Zenon
  <1>5. /\ Calls' = [Calls EXCEPT ![r] = Calls[r]] /\ log' = log
    BY <1>4, ReadIsVisible, Zenon
  <1>6. Calls = [q \in Readers |-> Calls[q]]
    BY DEF Calls
  <1> QED BY <1>5, <1>6

(* A call that returns answers, with what it has. *)
LEMMA ReturnIsAnswer ==
  ASSUME IInv, NEW r \in Readers, NEW m, ReaderStep(r, m), Steps(rd[r], m), m.pc = "idle"
  PROVE  /\ History!Answer(r, m.res, Entries(m.out))
         /\ Calls[r].op = m.op /\ Calls[r].k = m.k /\ Calls[r].floor = m.floor
         /\ Calls[r].void = (r \in straddled)
         /\ Calls'[r].res = m.res /\ Calls'[r].out = Entries(m.out)
  <1>1. /\ rd[r].pc # "idle" /\ m.op = rd[r].op /\ m.k = rd[r].k
        /\ m.floor = rd[r].floor
    BY DEF Steps
  <1>2. PICK b : b = (r \in straddled)
    OBVIOUS
  <1>3. PICK out : out = Entries(m.out)
    OBVIOUS
  <1>4. PICK no : no = FALSE
    OBVIOUS
  <1>5. PICK yes : yes = TRUE
    OBVIOUS
  <1> DEFINE X == [busy |-> no, op |-> m.op, k |-> m.k, floor |-> m.floor,
                   res |-> m.res, void |-> b, out |-> out]
  <1>6. Visible(m, b) = X
    BY <1>3, <1>4, VisibleFields, Zenon
  <1>7. Visible(rd[r], b) =
          [busy |-> yes, op |-> rd[r].op, k |-> rd[r].k, floor |-> rd[r].floor,
           res |-> rd[r].res, void |-> b, out |-> <<>>]
    BY <1>1, <1>5, VisibleFields, Zenon
  <1>8. Calls[r] =
          [busy |-> yes, op |-> m.op, k |-> m.k, floor |-> m.floor,
           res |-> rd[r].res, void |-> b, out |-> <<>>]
    BY <1>1, <1>2, <1>7, ReadIsVisible, Zenon
  <1>9. Calls' = [Calls EXCEPT ![r] = X] /\ DOMAIN Calls = Readers /\ log' = log
    BY <1>2, <1>6, ReadIsVisible, Zenon
  <1>10. [Calls EXCEPT ![r].busy = no, ![r].res = m.res, ![r].out = out]
          = [Calls EXCEPT ![r] = X]
    <2>1. PICK g : g = Calls
      OBVIOUS
    <2>2. PICK o, k, f, res, z, x : /\ o = m.op /\ k = m.k /\ f = m.floor /\ res = rd[r].res
                              /\ z = <<>> /\ x = m.res
      OBVIOUS
    <2> DEFINE R(p, q, w) == [busy |-> p, op |-> o, k |-> k, floor |-> f,
                              res |-> q, void |-> b, out |-> w]
               R0 == R(yes, res, z)
               R1 == R(no, res, z)
               R2 == R(no, x, z)
               R3 == R(no, x, out)
    <2>3. [R0 EXCEPT !.busy = no] = R1
      OBVIOUS
    <2>4. [R1 EXCEPT !.res = x] = R2
      OBVIOUS
    <2>5. [R2 EXCEPT !.out = out] = R3
      OBVIOUS
    <2>6. g[r] = R0
      BY <1>8, <2>1, <2>2, Zenon
    <2>7. X = R3
      BY <2>2, Zenon
    <2> HIDE DEF R0, R1, R2, R3, X
    <2>8. [R0 EXCEPT !.busy = no, !.res = x, !.out = out] = R3
      BY <2>3, <2>4, <2>5
    <2>9. [g[r] EXCEPT !.busy = no, !.res = x, !.out = out] = X
      BY <2>6, <2>7, <2>8, Zenon
    <2>10. [g EXCEPT ![r].busy = no, ![r].res = x, ![r].out = out] =
             [g EXCEPT ![r] = [g[r] EXCEPT !.busy = no, !.res = x, !.out = out]]
      BY Zenon
    <2> QED BY <2>1, <2>2, <2>9, <2>10, Zenon
  <1>11. Calls[r].busy = yes /\ Calls[r].op = m.op /\ Calls[r].k = m.k
         /\ Calls[r].floor = m.floor /\ Calls[r].void = b
    BY <1>8
  <1>12. X.res = m.res /\ X.out = out
    OBVIOUS
  <1> HIDE DEF X
  <1>13. Calls'[r].res = m.res /\ Calls'[r].out = out
    BY <1>9, <1>12
  <1>14. History!Answer(r, m.res, Entries(m.out))
    <2>1. Calls' = [Calls EXCEPT ![r].busy = FALSE, ![r].res = m.res,
                                 ![r].out = Entries(m.out)]
      BY <1>3, <1>4, <1>9, <1>10, Zenon
    <2>2. Calls[r].busy
      BY <1>5, <1>11, Zenon
    <2> QED BY <1>9, <2>1, <2>2, Zenon DEF History!Answer, Calls
  <1> QED BY <1>2, <1>3, <1>11, <1>13, <1>14, Zenon

(* Published entries are a newest-first run of the history. *)
LEMMA EntriesAreNewest ==
  ASSUME NEW c \in Nat, NEW out \in Seq([pos : Nat, words : [WordIds -> Nat]]),
         log \in Seq(Nat), OutIsPublished(out, c)
  PROVE  Entries(out) = History!Newest(c, Len(out))
  <1>1. ASSUME NEW j \in 1 .. Len(out)
        PROVE  out[j].pos = c - j /\ Value(out[j].words) = log[c - j + 1]
    <2>1. PICK e \in [pos : Nat, words : [WordIds -> Nat]] : e = out[j]
      BY Element
    <2>2. e.pos \in Nat /\ e.words \in [WordIds -> Nat]
      OBVIOUS
    <2>3. e.pos + j = c /\ \A w \in WordIds : e.words[w] = log[e.pos + 1]
      BY <2>1 DEF OutIsPublished
    <2>4. PICK p \in Nat : p = e.pos
      BY <2>2
    <2>5. e.pos = c - j
      <3>1. j \in Nat /\ p + j = c
        BY <2>3, <2>4
      <3> QED BY <2>4, <3>1, SMT
    <2>6. 1 \in WordIds
      BY RingAssumption DEF RingAssumption, WordIds
    <2>7. e.words = Whole(e.words[1])
      BY <2>2, <2>3, <2>6 DEF Whole
    <2>8. Value(e.words) = log[c - j + 1]
      BY <2>3, <2>5, <2>6, <2>7 DEF Value
    <2> QED BY <2>1, <2>5, <2>8
  <1> QED BY <1>1 DEF Entries, History!Newest

(* What a call returns is an answer that the history allows. *)
LEMMA ReturnIsAllowed ==
  ASSUME N > 1 \/ crashes = 0, IInv, IInv', JInv', CountInv, NEW r \in Readers, NEW m,
         ReaderStep(r, m), Steps(rd[r], m), m.pc = "idle"
  PROVE  History!Return(r)
  <1>1. PICK l \in ReaderState : l = rd[r]
    BY DEF IInv, TypeOK
  <1>2. /\ History!Answer(r, m.res, Entries(m.out))
        /\ Calls[r].op = m.op /\ Calls[r].k = m.k /\ Calls[r].floor = m.floor
        /\ Calls[r].void = (r \in straddled)
        /\ Calls'[r].res = m.res /\ Calls'[r].out = Entries(m.out)
    BY ReturnIsAnswer
  <1>3. CASE r \in straddled
    <2>1. Calls[r].void
      BY <1>2, <1>3, Zenon
    <2>2. History!Answer(r, Calls'[r].res, Calls'[r].out)
      BY <1>2, Zenon
    <2>3. History!AnswerVoid(r)
      BY <2>1, <2>2, Zenon DEF History!AnswerVoid, Calls
    <2> QED BY <2>3 DEF History!Return
  <1>4. CASE r \notin straddled
    <2>1. rd'[r] = m /\ m \in ReaderState /\ straddled' = straddled /\ log' = log
      BY DEF ReaderStep, IInv, TypeOK
    <2>2. /\ l.i \in Nat /\ l.c \in Nat /\ l.k \in Nat /\ l.limit \in 0 .. N /\ l.floor \in Nat
          /\ l.out \in Seq([pos : Nat, words : [WordIds -> Nat]])
          /\ m.out \in Seq([pos : Nat, words : [WordIds -> Nat]]) /\ m.c \in Nat
          /\ writeCount \in Nat /\ N \in Nat
      BY <2>1, RingAssumption DEF ReaderState, IInv, TypeOK, RingAssumption
    <2>3. Len(log) = writeCount /\ WalkOK(l) /\ log \in Seq(Nat)
      BY <1>1 DEF IInv, WriterInv, WalkInv, TypeOK
    <2>4. CASE m.res = "kEmpty"
      <3>1. m.op # "Snapshot" /\ m.out = <<>>
        BY <1>1, <2>4 DEF Steps
      <3>2. m.floor = 0
        <4>1. EmptyIsHonest'
          BY DEF JInv
        <4>2. crashes' = crashes /\ crashes \in Nat
          BY DEF ReaderStep, IInv, TypeOK
        <4> QED BY <1>4, <2>1, <2>2, <2>4, <4>1, <4>2 DEF EmptyIsHonest
      <3>3. History!Answer(r, "kEmpty", <<>>)
        BY <1>2, <2>4, <3>1, NoEntries
      <3> QED BY <1>2, <3>1, <3>2, <3>3 DEF History!Return, History!AnswerEmpty, Calls
    <2>5. CASE m.res = "kStalled"
      <3>1. m.op = "LoadBounded" /\ m.out = <<>>
        BY <1>1, <2>5 DEF Steps
      <3>2. History!Answer(r, "kStalled", <<>>)
        BY <1>2, <2>5, <3>1, NoEntries
      <3> QED BY <1>2, <3>1, <3>2 DEF History!Return, History!AnswerStalled, Calls
    <2>6. CASE m.res \in {"kValue", "count"}
      <3>1. OutIsPublished(m.out, m.c)
        BY <1>4, <2>1 DEF IInv, ReadsAreWhole, OutIsPublished
      <3>2. Entries(m.out) = History!Newest(m.c, Len(m.out))
        BY <2>2, <2>3, <3>1, EntriesAreNewest
      <3>3. PICK x \in [pos : Nat, words : [WordIds -> Nat]] :
               x = [pos |-> l.idx, words |-> l.staged]
        BY DEF ReaderState
      <3>4. CASE m.res = "kValue"
        <4>1. /\ l.pc = "validate" /\ m.op # "Snapshot" /\ m.op = l.op /\ m.c = l.c
              /\ m.out = Append(l.out, x) /\ m.floor = l.floor
          BY <1>1, <3>3, <3>4 DEF Steps
        <4>2. l.i = 0 /\ Len(l.out) = 0 /\ l.i < l.c /\ l.floor <= l.c /\ l.c <= writeCount
          BY <2>3, <4>1 DEF WalkOK
        <4>3. Len(m.out) = 1
          BY <2>2, <4>1, <4>2
        <4>4. m.c \in m.floor .. Len(log) /\ m.c > 0
          BY <2>2, <2>3, <4>1, <4>2
        <4>5. History!Answer(r, "kValue", History!Newest(m.c, 1))
          BY <1>2, <3>2, <3>4, <4>3, Zenon
        <4>6. History!AnswerValue(r)
          BY <1>2, <4>1, <4>4, <4>5, Zenon DEF History!AnswerValue, Calls
        <4> QED BY <4>6 DEF History!Return
      <3>5. CASE m.res = "count"
        <4>1. m.op = "Snapshot" /\ m.op = l.op /\ m.floor = l.floor /\ m.k = l.k /\ l.pc # "idle"
          BY <1>1, <3>5 DEF Steps
        <4>2. /\ m.c \in m.floor .. Len(log) /\ Len(m.out) \in 0 .. N
              /\ Len(m.out) <= m.c /\ Len(m.out) <= m.k
          <5>1. CASE l.pc = "cursor"
            <6>1. m.c = writeCount /\ m.out = <<>>
              BY <1>1, <3>5, <5>1 DEF Steps
            <6>2. l.floor <= writeCount
              BY <2>3, <4>1 DEF WalkOK
            <6>3. Len(m.out) = 0
              BY <6>1
            <6> QED BY <2>2, <2>3, <4>1, <6>1, <6>2, <6>3
          <5>2. CASE l.pc # "cursor"
            <6>1. /\ Len(l.out) = l.i /\ l.i < l.limit /\ l.limit <= l.c
                  /\ l.floor <= l.c /\ l.c <= writeCount
              BY <2>3, <4>1, <5>2 DEF WalkOK
            <6>2. l.limit <= l.k
              BY <1>1, <4>1, <5>2 DEF CountInv
            <6>3. m.c = l.c /\ (m.out = l.out \/ m.out = Append(l.out, x))
              BY <1>1, <3>3, <3>5, <5>2 DEF Steps
            <6>4. Len(m.out) = Len(l.out) \/ Len(m.out) = Len(l.out) + 1
              BY <2>2, <6>3
            <6>5. PICK n \in Nat : n = Len(m.out)
              BY <2>2
            <6>6. n = l.i \/ n = l.i + 1
              BY <6>1, <6>4, <6>5
            <6>7. n \in 0 .. N /\ n <= l.c /\ n <= l.k
              BY <2>2, <6>1, <6>2, <6>6
            <6>8. l.c \in l.floor .. writeCount
              BY <2>2, <6>1
            <6> QED BY <2>3, <4>1, <6>3, <6>5, <6>7, <6>8
          <5> QED BY <5>1, <5>2
        <4>3. History!Answer(r, "count", History!Newest(m.c, Len(m.out)))
          BY <1>2, <3>2, <3>5, Zenon
        <4>4. History!AnswerSnapshot(r)
          BY <1>2, <4>1, <4>2, <4>3, Zenon DEF History!AnswerSnapshot, Calls
        <4> QED BY <4>4 DEF History!Return
      <3> QED BY <2>6, <3>4, <3>5
    <2>7. m.res \in {"kEmpty", "kStalled", "kValue", "count"}
      BY DEF Steps
    <2> QED BY <2>4, <2>5, <2>6, <2>7
  <1> QED BY <1>3, <1>4

LEMMA HistoryNext ==
  ASSUME N > 1 \/ crashes = 0, IInv, IInv', JInv, JInv', CountInv, [CrashNext]_vars
  PROVE  [History!Next]_(History!vars)
  <1>1. ASSUME Calls' = Calls, log' = log PROVE UNCHANGED History!vars
    BY <1>1 DEF History!vars, Calls
  <1>2. CASE StoreBegin \/ StoreIndex \/ StoreWord \/ StoreEven \/ Crash
    <2>1. UNCHANGED <<rd, straddled, log>>
      BY <1>2 DEF StoreBegin, StoreIndex, StoreWord, StoreEven, WriterStep, Crash
    <2> QED BY <2>1 DEF History!vars
  <1>3. CASE StorePublish
    BY <1>3, PublishIsStore DEF History!Next
  <1>4. CASE RepairAfterWriterCrash
    BY <1>4, RepairIsRetract DEF History!Next
  <1>5. ASSUME NEW r \in Readers, CallAny(r) PROVE History!Next
    BY <1>5, CallIsInvoke DEF History!Next
  <1>6. ASSUME NEW r \in Readers, Read(r) PROVE [History!Next]_(History!vars)
    <2>1. PICK m : ReaderStep(r, m) /\ Steps(rd[r], m)
      BY <1>6, ReadMoves
    <2>2. CASE m.pc = "idle"
      BY <2>1, <2>2, ReturnIsAllowed DEF History!Next
    <2>3. CASE m.pc # "idle"
      BY <1>1, <2>1, <2>3, RunningIsHidden
    <2> QED BY <2>2, <2>3
  <1>7. CASE UNCHANGED vars
    BY <1>7 DEF vars, History!vars
  <1> QED
    BY <1>2, <1>3, <1>4, <1>5, <1>6, <1>7 DEF CrashNext, Next, Store

LEMMA CountHolds == CrashSpec => []CountInv
  <1>1. IInv /\ JInv /\ CountInv /\ [CrashNext]_vars => CountInv'
    BY CountNext
  <1> QED BY <1>1, CountInit, JHolds, InvariantHolds, PTL DEF CrashSpec

(* A ring of two or more cells implements OverwriteHistory, for every      *)
(* depth, value size and number of readers and however often the writer    *)
(* dies: each verb answers as if it had looked at the history at one       *)
(* moment of its call.  A ring of one cell does not: the repair takes its  *)
(* only value.                                                             *)
THEOREM RingRefinement == ASSUME N > 1 PROVE CrashSpec => ImplementsHistory
  <1>1. /\ IInv /\ IInv' /\ JInv /\ JInv' /\ CountInv /\ [CrashNext]_vars
        => [History!Next]_(History!vars)
    BY HistoryNext
  <1> QED BY <1>1, HistoryInit, CountHolds, JHolds, InvariantHolds, PTL
          DEF CrashSpec, ImplementsHistory, History!Spec

(* In process every ring implements it, MessageSlot's ring of one cell     *)
(* included.                                                               *)
THEOREM RingRefinementInProcess == Spec => ImplementsHistory
  <1>1. /\ crashes = 0 /\ IInv /\ IInv' /\ JInv /\ JInv' /\ CountInv /\ [CrashNext]_vars
        => [History!Next]_(History!vars)
    BY HistoryNext
  <1> QED BY <1>1, NoCrashes, HistoryInit, CountHolds, JHolds, InvariantHolds, PTL
          DEF CrashSpec, ImplementsHistory, History!Spec
=============================================================================
