---------------------------- MODULE SpscQueueProofs ----------------------------
(***************************************************************************)
(* The SPSC queue delivers every value once, whole and in order, the two   *)
(* plain accesses never meet in a cell, and Full() and Size() keep their   *)
(* word: for every depth, whatever the two sides' deaths.                  *)
(***************************************************************************)
EXTENDS SpscQueueRefinement, Integers, TLAPS

-----------------------------------------------------------------------------
(* Arithmetic of the ring. *)

(* Quotient and remainder. *)
LEMMA DivMod ==
    \A C \in Nat \ {0}, p \in Nat :
        p = C * (p \div C) + (p % C) /\ p \div C \in Nat /\ p % C \in Nat
  OBVIOUS

(* A positive multiple of C is at least C. *)
LEMMA Multiple == \A C \in Nat \ {0}, k \in Nat : k >= 1 => C * k >= C
  OBVIOUS

(* Positions less than one lap apart are in different cells. *)
LEMMA ModDistinct ==
    ASSUME NEW C \in Nat \ {0}, NEW p \in Nat, NEW t \in Nat, p < t, t - p < C
    PROVE  p % C # t % C
  <1> SUFFICES ASSUME p % C = t % C PROVE FALSE
    OBVIOUS
  <1> DEFINE a == p \div C
             b == t \div C
             m == p % C
  <1>1. p = C * a + m /\ t = C * b + m /\ a \in Nat /\ b \in Nat /\ m \in Nat
    <2>1. p = C * (p \div C) + (p % C) /\ p \div C \in Nat /\ p % C \in Nat
      BY DivMod
    <2>2. t = C * (t \div C) + (t % C) /\ t \div C \in Nat
      BY DivMod
    <2> QED BY <2>1, <2>2
  <1> HIDE DEF a, b, m
  <1>2. t - p = C * b - C * a
    BY <1>1
  <1>3. C * b - C * a = C * (b - a)
    BY <1>1
  <1>4. CASE b <= a
    <2>1. C * (a - b) >= 0
      BY <1>1, <1>4
    <2> QED BY <1>1, <1>2, <1>3, <2>1
  <1>5. CASE b > a
    <2>1. b - a \in Nat /\ b - a >= 1
      BY <1>1, <1>5
    <2>2. C * (b - a) >= C
      BY <2>1, Multiple
    <2> QED BY <1>1, <1>2, <1>3, <2>2
  <1> QED BY <1>1, <1>4, <1>5

(* The clamp of the constructor: there is at least one cell. *)
LEMMA CapacityType == Capacity \in Nat \ {0}
  BY QueueAssumption DEF QueueAssumption, Capacity

(* Every position has a cell. *)
LEMMA CellType == ASSUME NEW p \in Nat PROVE CellOf(p) \in 0 .. Capacity - 1
  <1>1. Capacity \in Nat \ {0}
    BY CapacityType
  <1> HIDE DEF Capacity
  <1> QED BY <1>1 DEF CellOf

(* Two positions of the same lap have two cells. *)
LEMMA CellDistinct ==
    ASSUME NEW p \in Nat, NEW t \in Nat, p < t, t < p + Capacity
    PROVE  CellOf(p) # CellOf(t)
  <1>1. Capacity \in Nat \ {0}
    BY CapacityType
  <1> HIDE DEF Capacity
  <1>2. t - p < Capacity
    BY <1>1
  <1>3. p % Capacity # t % Capacity
    BY <1>1, <1>2, ModDistinct
  <1> QED BY <1>3 DEF CellOf

(* An entry of a sequence. *)
LEMMA Element ==
    ASSUME NEW S, NEW s \in Seq(S), NEW j \in 1 .. Len(s) PROVE s[j] \in S
  OBVIOUS

(* A sequence with one more entry. *)
LEMMA Appended ==
    ASSUME NEW S, NEW s \in Seq(S), NEW e \in S
    PROVE  /\ Append(s, e) \in Seq(S) /\ Len(Append(s, e)) = Len(s) + 1
           /\ Append(s, e)[Len(s) + 1] = e
           /\ \A j \in 1 .. Len(s) : Append(s, e)[j] = s[j]
  OBVIOUS

-----------------------------------------------------------------------------
(* Initially. *)
(* Size() of any two indices *)
LEMMA SizeOfIs ==
    ASSUME NEW h \in Nat, NEW t \in Nat
    PROVE  /\ SizeOf(h, t) \in Nat /\ SizeOf(h, t) <= t
           /\ SizeOf(h, t) # 0 <=> t > h
  <1>1. CASE t >= h
    BY <1>1 DEF SizeOf
  <1>2. CASE ~(t >= h)
    BY <1>2 DEF SizeOf
  <1> QED BY <1>1, <1>2

LEMMA InitInv == Init => IInv
  <1> SUFFICES ASSUME Init PROVE IInv
    OBVIOUS
  <1>0. Capacity \in Nat \ {0}
    BY CapacityType
  <1> HIDE DEF Capacity
  <1>1. TypeOK
    <2>1. cells \in [0 .. Capacity - 1 -> Values \cup {Torn}]
      BY DEF Init
    <2>2. pushed \in Seq(Values) /\ popped \in Seq(Values \cup {Torn})
      BY DEF Init
    <2> QED BY <2>1, <2>2 DEF Init, TypeOK
  <1>2. IndexInv
    BY <1>0 DEF Init, IndexInv
  <1>3. CellInv
    BY DEF Init, CellInv
  <1>4. ProducerInv /\ ConsumerInv /\ AnswerInv
    BY DEF Init, ProducerInv, ConsumerInv, AnswerInv
  <1>5. Fifo
    BY DEF Init, Fifo
  <1>6. GaugeInv
    BY DEF Init, GaugeInv
  <1> QED BY <1>1, <1>2, <1>3, <1>4, <1>5, <1>6 DEF IInv, SidesInv

-----------------------------------------------------------------------------
(* The producer's steps. *)

LEMMA TryPushInv ==
    ASSUME SidesInv, NEW v \in Values, TryPush(v) PROVE SidesInv'
  <1> USE DEF SidesInv
  <1>0. Capacity \in Nat \ {0}
    BY CapacityType
  <1> HIDE DEF Capacity
  <1>1. PICK h \in headSeen .. head :
           /\ headSeen' = h
           /\ refusedPush' = IsFull(h)
           /\ IF IsFull(h) THEN UNCHANGED <<ppc, pVal, room>>
                           ELSE ppc' = "write" /\ pVal' = v /\ room' = FALSE
    BY DEF TryPush
  <1>2. /\ ppc = "idle"
        /\ UNCHANGED <<tail, pushed, cells, head, cpc, out, tailSeen, popped,
                       pending, refusedPop, deaths>>
    BY DEF TryPush, consumer
  <1>3. head \in Nat /\ tail \in Nat /\ headSeen \in Nat /\ h \in Nat
        /\ headSeen <= h /\ h <= head
    BY <1>1 DEF TypeOK
  <1>4. IsFull(h) \in BOOLEAN
    BY DEF IsFull
  <1>5. TypeOK'
    BY <1>1, <1>2, <1>3, <1>4 DEF TypeOK
  <1>6. IndexInv'
    BY <1>1, <1>2, <1>3 DEF IndexInv
  <1>7. CellInv' /\ Fifo' /\ ConsumerInv'
    BY <1>2 DEF CellInv, Fifo, ConsumerInv
  <1>8. ProducerInv'
    BY <1>0, <1>1, <1>2, <1>3 DEF ProducerInv, IsFull
  <1>9. AnswerInv'
    <2>1. (pending => head < tailSeen /\ ~refusedPop)' /\ (cpc # "idle" => ~pending)'
      BY <1>2 DEF AnswerInv
    <2>2. (room => tail < headSeen + Capacity /\ ~refusedPush)'
      BY <1>0, <1>1, <1>2, <1>3 DEF AnswerInv, IsFull, TypeOK
    <2>3. (ppc # "idle" => ~room)'
      BY <1>1, <1>2 DEF AnswerInv
    <2> QED BY <2>1, <2>2, <2>3 DEF AnswerInv
  <1> QED BY <1>5, <1>6, <1>7, <1>8, <1>9

(* A write to the producer's cell leaves the cells in use alone. *)
LEMMA WriteKeepsCells ==
    ASSUME SidesInv, ppc # "idle", NEW x \in Values \cup {Torn},
           cells' = [cells EXCEPT ![CellOf(tail)] = x],
           UNCHANGED <<head, tail, pushed>>
    PROVE  CellInv' /\ cells' \in [0 .. Capacity - 1 -> Values \cup {Torn}]
           /\ cells'[CellOf(tail)] = x
  <1>0. Capacity \in Nat \ {0}
    BY CapacityType
  <1> HIDE DEF Capacity
  <1>1. head \in Nat /\ tail \in Nat /\ headSeen \in Nat
        /\ cells \in [0 .. Capacity - 1 -> Values \cup {Torn}]
    BY DEF SidesInv, TypeOK
  <1>2. tail < headSeen + Capacity /\ headSeen <= head
    BY DEF SidesInv, ProducerInv, IndexInv
  <1>3. CellOf(tail) \in 0 .. Capacity - 1
    BY <1>1, CellType
  <1>4. cells'[CellOf(tail)] = x
        /\ cells' \in [0 .. Capacity - 1 -> Values \cup {Torn}]
    BY <1>1, <1>3
  <1>5. ASSUME NEW p \in head .. tail - 1
        PROVE  cells'[CellOf(p)] = pushed[p + 1]
    <2>1. p \in Nat /\ p < tail /\ tail < p + Capacity
      BY <1>0, <1>1, <1>2
    <2>2. CellOf(p) # CellOf(tail)
      BY <2>1, <1>1, CellDistinct
    <2>3. CellOf(p) \in 0 .. Capacity - 1
      BY <2>1, CellType
    <2>4. cells[CellOf(p)] = pushed[p + 1]
      BY DEF SidesInv, CellInv
    <2> QED BY <1>1, <2>2, <2>3, <2>4
  <1> QED BY <1>4, <1>5 DEF CellInv

LEMMA BeginWriteInv == ASSUME SidesInv, BeginWrite PROVE SidesInv'
  <1> USE DEF SidesInv
  <1>1. /\ ppc = "write" /\ ppc' = "writing"
        /\ cells' = [cells EXCEPT ![CellOf(tail)] = Torn]
        /\ UNCHANGED <<tail, pVal, headSeen, pushed, room, refusedPush, deaths>>
        /\ UNCHANGED <<head, cpc, out, tailSeen, popped, pending, refusedPop>>
    BY DEF BeginWrite, consumer
  <1>2. CellInv' /\ cells' \in [0 .. Capacity - 1 -> Values \cup {Torn}]
    BY <1>1, WriteKeepsCells
  <1>3. TypeOK'
    BY <1>1, <1>2 DEF TypeOK
  <1>4. IndexInv' /\ Fifo' /\ ConsumerInv' /\ AnswerInv'
    BY <1>1 DEF IndexInv, Fifo, ConsumerInv, AnswerInv
  <1>5. ProducerInv'
    BY <1>1 DEF ProducerInv
  <1> QED BY <1>2, <1>3, <1>4, <1>5

LEMMA EndWriteInv == ASSUME SidesInv, EndWrite PROVE SidesInv'
  <1> USE DEF SidesInv
  <1>1. /\ ppc = "writing" /\ ppc' = "publish"
        /\ cells' = [cells EXCEPT ![CellOf(tail)] = pVal]
        /\ UNCHANGED <<tail, pVal, headSeen, pushed, room, refusedPush, deaths>>
        /\ UNCHANGED <<head, cpc, out, tailSeen, popped, pending, refusedPop>>
    BY DEF EndWrite, consumer
  <1>2. pVal \in Values \cup {Torn}
    BY DEF TypeOK
  <1>3. CellInv' /\ cells' \in [0 .. Capacity - 1 -> Values \cup {Torn}]
        /\ cells'[CellOf(tail)] = pVal
    BY <1>1, <1>2, WriteKeepsCells
  <1>4. TypeOK'
    BY <1>1, <1>3 DEF TypeOK
  <1>5. IndexInv' /\ Fifo' /\ ConsumerInv' /\ AnswerInv'
    BY <1>1 DEF IndexInv, Fifo, ConsumerInv, AnswerInv
  <1>6. ProducerInv'
    BY <1>1, <1>3 DEF ProducerInv, CellOf
  <1> QED BY <1>3, <1>4, <1>5, <1>6

LEMMA PublishTailInv == ASSUME SidesInv, PublishTail PROVE SidesInv'
  <1> USE DEF SidesInv
  <1>0. Capacity \in Nat \ {0}
    BY CapacityType
  <1> HIDE DEF Capacity
  <1>1. /\ ppc = "publish" /\ ppc' = "idle" /\ tail' = tail + 1
        /\ pushed' = Append(pushed, pVal)
        /\ UNCHANGED <<pVal, headSeen, room, refusedPush, cells, deaths>>
        /\ UNCHANGED <<head, cpc, out, tailSeen, popped, pending, refusedPop>>
    BY DEF PublishTail, consumer
  <1>2. /\ head \in Nat /\ tail \in Nat /\ headSeen \in Nat /\ tailSeen \in Nat
        /\ pushed \in Seq(Values) /\ popped \in Seq(Values \cup {Torn})
        /\ room \in BOOLEAN /\ pending \in BOOLEAN
    BY DEF TypeOK
  <1>3. pVal \in Values /\ tail < headSeen + Capacity
        /\ cells[CellOf(tail)] = pVal
    BY <1>1 DEF ProducerInv
  <1>4. /\ headSeen <= head /\ head <= tailSeen /\ tailSeen <= tail
        /\ Len(pushed) = tail /\ Len(popped) = head
    BY DEF IndexInv
  <1>5. /\ pushed' \in Seq(Values) /\ Len(pushed') = tail + 1
        /\ pushed'[tail + 1] = pVal
        /\ \A j \in 1 .. tail : pushed'[j] = pushed[j]
    <2>1. /\ Append(pushed, pVal) \in Seq(Values)
          /\ Len(Append(pushed, pVal)) = Len(pushed) + 1
          /\ Append(pushed, pVal)[Len(pushed) + 1] = pVal
          /\ \A j \in 1 .. Len(pushed) : Append(pushed, pVal)[j] = pushed[j]
      BY <1>2, <1>3, Appended
    <2> QED BY <2>1, <1>1, <1>4
  <1>6. TypeOK'
    BY <1>1, <1>2, <1>5 DEF TypeOK
  <1>7. IndexInv'
    BY <1>0, <1>1, <1>2, <1>3, <1>4, <1>5 DEF IndexInv
  <1>8. CellInv'
    <2>1. SUFFICES ASSUME NEW p \in head .. tail
                   PROVE  cells[CellOf(p)] = pushed'[p + 1]
      <3>1. head' .. tail' - 1 = head .. tail
        BY <1>1, <1>2
      <3> QED BY <3>1, <1>1 DEF CellInv, CellOf
    <2>2. CASE p = tail
      BY <2>2, <1>3, <1>5
    <2>3. CASE p # tail
      <3>1. p \in head .. tail - 1 /\ p + 1 \in 1 .. tail
        BY <2>3, <1>2
      <3>2. cells[CellOf(p)] = pushed[p + 1]
        BY <3>1 DEF CellInv
      <3> QED BY <3>1, <3>2, <1>5
    <2> QED BY <2>2, <2>3
  <1>9. ProducerInv'
    BY <1>1 DEF ProducerInv
  <1>10. ConsumerInv'
    <2>1. (cpc # "idle" => head < tailSeen)'
      BY <1>1 DEF ConsumerInv
    <2>2. ASSUME cpc \in {"reading", "release"} PROVE out = pushed'[head + 1]
      <3>1. head < tailSeen /\ out = pushed[head + 1]
        BY <2>2 DEF ConsumerInv
      <3>2. head + 1 \in 1 .. tail
        BY <3>1, <1>2, <1>4
      <3> QED BY <3>1, <3>2, <1>5
    <2> QED BY <2>1, <2>2, <1>1 DEF ConsumerInv
  <1>11. AnswerInv'
    <2>1. ~room
      BY <1>1 DEF AnswerInv
    <2> QED BY <2>1, <1>1 DEF AnswerInv
  <1>12. Fifo'
    <2>1. \A i \in 1 .. Len(popped) : popped[i] = pushed[i]
      BY DEF Fifo
    <2>2. ASSUME NEW i \in 1 .. Len(popped) PROVE popped[i] = pushed'[i]
      <3>1. i \in 1 .. tail
        BY <1>2, <1>4
      <3> QED BY <3>1, <2>1, <1>5
    <2>3. Len(popped) <= Len(pushed')
      BY <1>2, <1>4, <1>5
    <2> QED BY <2>2, <2>3, <1>1 DEF Fifo
  <1> QED BY <1>6, <1>7, <1>8, <1>9, <1>10, <1>11, <1>12

LEMMA FullInv == ASSUME SidesInv, Full PROVE SidesInv'
  <1> USE DEF SidesInv
  <1>0. Capacity \in Nat \ {0}
    BY CapacityType
  <1> HIDE DEF Capacity
  <1>1. PICK h \in headSeen .. head : headSeen' = h /\ room' = ~IsFull(h)
    BY DEF Full
  <1>2. /\ ppc = "idle" /\ refusedPush' = FALSE
        /\ UNCHANGED <<tail, ppc, pVal, pushed, cells, deaths>>
        /\ UNCHANGED <<head, cpc, out, tailSeen, popped, pending, refusedPop>>
    BY DEF Full, consumer
  <1>3. head \in Nat /\ tail \in Nat /\ headSeen \in Nat /\ h \in Nat
        /\ headSeen <= h /\ h <= head
    BY <1>1 DEF TypeOK
  <1>4. IsFull(h) \in BOOLEAN
    BY DEF IsFull
  <1>5. TypeOK'
    BY <1>1, <1>2, <1>3, <1>4 DEF TypeOK
  <1>6. IndexInv'
    BY <1>1, <1>2, <1>3 DEF IndexInv
  <1>7. CellInv' /\ Fifo' /\ ConsumerInv' /\ ProducerInv'
    BY <1>2 DEF CellInv, Fifo, ConsumerInv, ProducerInv
  <1>8. AnswerInv'
    <2>1. ASSUME room' PROVE tail < h + Capacity
      <3>1. ~(tail - h >= Capacity)
        BY <2>1, <1>1 DEF IsFull
      <3> QED BY <3>1, <1>0, <1>3
    <2> QED BY <2>1, <1>1, <1>2 DEF AnswerInv
  <1> QED BY <1>5, <1>6, <1>7, <1>8

-----------------------------------------------------------------------------
(* The consumer's steps. *)

LEMMA TryPopInv == ASSUME SidesInv, TryPop PROVE SidesInv'
  <1> USE DEF SidesInv
  <1>1. PICK t \in tailSeen .. tail :
           /\ tailSeen' = t
           /\ refusedPop' = (head = t)
           /\ IF head = t THEN UNCHANGED <<cpc, pending>>
                          ELSE cpc' = "read" /\ pending' = FALSE
    BY DEF TryPop
  <1>2. /\ cpc = "idle"
        /\ UNCHANGED <<head, out, popped, cells, deaths>>
        /\ UNCHANGED <<tail, ppc, pVal, headSeen, pushed, room, refusedPush>>
    BY DEF TryPop, producer
  <1>3. head \in Nat /\ tail \in Nat /\ tailSeen \in Nat /\ t \in Nat
        /\ tailSeen <= t /\ t <= tail
    BY <1>1 DEF TypeOK
  <1>4. TypeOK'
    BY <1>1, <1>2, <1>3 DEF TypeOK
  <1>5. IndexInv'
    BY <1>1, <1>2, <1>3 DEF IndexInv
  <1>6. CellInv' /\ Fifo' /\ ProducerInv'
    BY <1>2 DEF CellInv, Fifo, ProducerInv
  <1>7. (cpc # "idle" => head < tailSeen)'
    <2>1. CASE head = t
      BY <2>1, <1>1, <1>2
    <2>2. CASE head # t
      BY <2>2, <1>1, <1>2, <1>3 DEF IndexInv
    <2> QED BY <2>1, <2>2
  <1>8. ConsumerInv'
    BY <1>7, <1>1, <1>2 DEF ConsumerInv
  <1>9. AnswerInv'
    BY <1>1, <1>2, <1>3 DEF AnswerInv
  <1> QED BY <1>4, <1>5, <1>6, <1>8, <1>9

(* The consumer's cell still holds the value it went for. *)
LEMMA CellInUse ==
    ASSUME SidesInv, cpc # "idle"
    PROVE  cells[CellOf(head)] = pushed[head + 1] /\ head < tail
           /\ pushed[head + 1] \in Values
  <1>1. head \in Nat /\ tail \in Nat /\ tailSeen \in Nat /\ pushed \in Seq(Values)
    BY DEF SidesInv, TypeOK
  <1>2. head < tail /\ Len(pushed) = tail
    BY <1>1 DEF SidesInv, ConsumerInv, IndexInv
  <1>3. head \in head .. tail - 1 /\ head + 1 \in 1 .. Len(pushed)
    BY <1>1, <1>2
  <1>4. pushed[head + 1] \in Values
    BY <1>1, <1>3, Element
  <1>5. cells[CellOf(head)] = pushed[head + 1]
    BY <1>3 DEF SidesInv, CellInv
  <1> QED BY <1>2, <1>4, <1>5

LEMMA ReadingInv == ASSUME SidesInv, BeginRead \/ EndRead PROVE SidesInv'
  <1> USE DEF SidesInv
  <1>1. /\ cpc # "idle" /\ cpc' \in {"reading", "release"}
        /\ UNCHANGED <<head, tailSeen, popped, pending, refusedPop, cells, deaths>>
        /\ UNCHANGED <<tail, ppc, pVal, headSeen, pushed, room, refusedPush>>
    BY DEF BeginRead, EndRead, producer
  <1>2. cells[CellOf(head)] = pushed[head + 1] /\ pushed[head + 1] \in Values
    BY <1>1, CellInUse
  <1>3. out' = pushed[head + 1]
    <2>1. CASE BeginRead
      BY <2>1, <1>2 DEF BeginRead
    <2>2. CASE EndRead
      BY <2>2, <1>2 DEF EndRead, ConsumerInv
    <2> QED BY <2>1, <2>2
  <1>4. TypeOK'
    <2>1. out' \in Values \cup {Torn}
      BY <1>2, <1>3
    <2> QED BY <2>1, <1>1 DEF TypeOK
  <1>5. IndexInv' /\ CellInv' /\ Fifo' /\ ProducerInv'
    BY <1>1 DEF IndexInv, CellInv, Fifo, ProducerInv
  <1>6. ConsumerInv'
    BY <1>1, <1>3 DEF ConsumerInv
  <1>7. AnswerInv'
    BY <1>1 DEF AnswerInv
  <1> QED BY <1>4, <1>5, <1>6, <1>7

LEMMA ReleaseHeadInv == ASSUME SidesInv, ReleaseHead PROVE SidesInv'
  <1> USE DEF SidesInv
  <1>0. Capacity \in Nat \ {0}
    BY CapacityType
  <1> HIDE DEF Capacity
  <1>1. /\ cpc = "release" /\ cpc' = "idle" /\ head' = head + 1
        /\ popped' = Append(popped, out)
        /\ UNCHANGED <<out, tailSeen, pending, refusedPop, cells, deaths>>
        /\ UNCHANGED <<tail, ppc, pVal, headSeen, pushed, room, refusedPush>>
    BY DEF ReleaseHead, producer
  <1>2. /\ head \in Nat /\ tail \in Nat /\ headSeen \in Nat /\ tailSeen \in Nat
        /\ out \in Values \cup {Torn} /\ popped \in Seq(Values \cup {Torn})
    BY DEF TypeOK
  <1>3. out = pushed[head + 1] /\ head < tail /\ head < tailSeen
    BY <1>1, CellInUse DEF ConsumerInv
  <1>4. /\ headSeen <= head /\ tailSeen <= tail /\ tail <= head + Capacity
        /\ Len(pushed) = tail /\ Len(popped) = head
    BY DEF IndexInv
  <1>5. /\ popped' \in Seq(Values \cup {Torn}) /\ Len(popped') = head + 1
        /\ popped'[head + 1] = out
        /\ \A j \in 1 .. head : popped'[j] = popped[j]
    <2>1. /\ Append(popped, out) \in Seq(Values \cup {Torn})
          /\ Len(Append(popped, out)) = Len(popped) + 1
          /\ Append(popped, out)[Len(popped) + 1] = out
          /\ \A j \in 1 .. Len(popped) : Append(popped, out)[j] = popped[j]
      BY <1>2, Appended
    <2> QED BY <2>1, <1>1, <1>4
  <1>6. TypeOK'
    BY <1>1, <1>2, <1>5 DEF TypeOK
  <1>7. IndexInv'
    BY <1>0, <1>1, <1>2, <1>3, <1>4, <1>5 DEF IndexInv
  <1>8. CellInv'
    <2>1. SUFFICES ASSUME NEW p \in head + 1 .. tail - 1
                   PROVE  cells[CellOf(p)] = pushed[p + 1]
      BY <1>1 DEF CellInv, CellOf
    <2>2. p \in head .. tail - 1
      BY <1>2
    <2> QED BY <2>2 DEF CellInv
  <1>9. ProducerInv'
    BY <1>1 DEF ProducerInv, CellOf
  <1>10. ConsumerInv' /\ AnswerInv'
    <2>1. ~pending
      BY <1>1 DEF AnswerInv
    <2> QED BY <2>1, <1>1 DEF ConsumerInv, AnswerInv
  <1>11. Fifo'
    <2>1. ASSUME NEW i \in 1 .. head + 1 PROVE popped'[i] = pushed[i]
      <3>1. CASE i = head + 1
        BY <3>1, <1>3, <1>5
      <3>2. CASE i # head + 1
        <4>1. i \in 1 .. head
          BY <3>2, <1>2
        <4>2. popped[i] = pushed[i]
          BY <4>1, <1>4 DEF Fifo
        <4> QED BY <4>1, <4>2, <1>5
      <3> QED BY <3>1, <3>2
    <2>2. Len(popped') <= Len(pushed)
      BY <1>2, <1>3, <1>4, <1>5
    <2> QED BY <2>1, <2>2, <1>1, <1>5 DEF Fifo
  <1> QED BY <1>6, <1>7, <1>8, <1>9, <1>10, <1>11

LEMMA SizeInv == ASSUME SidesInv, Size PROVE SidesInv'
  <1> USE DEF SidesInv
  <1>1. PICK t \in tailSeen .. tail : tailSeen' = t /\ pending' = (SizeOf(head, t) # 0)
    BY DEF Size
  <1>2. /\ cpc = "idle" /\ refusedPop' = FALSE
        /\ UNCHANGED <<head, cpc, out, popped, cells, deaths>>
        /\ UNCHANGED <<tail, ppc, pVal, headSeen, pushed, room, refusedPush>>
    BY DEF Size, producer
  <1>3. head \in Nat /\ tail \in Nat /\ tailSeen \in Nat /\ t \in Nat
        /\ tailSeen <= t /\ t <= tail
    BY <1>1 DEF TypeOK
  <1>4. TypeOK'
    <2>1. pending' \in BOOLEAN
      BY <1>1
    <2>2. tailSeen' \in Nat
      BY <1>1, <1>3
    <2> QED BY <2>1, <2>2, <1>2 DEF TypeOK
  <1>5. IndexInv'
    BY <1>1, <1>2, <1>3 DEF IndexInv
  <1>6. CellInv' /\ Fifo' /\ ProducerInv' /\ ConsumerInv'
    BY <1>2 DEF CellInv, Fifo, ProducerInv, ConsumerInv
  <1>7. AnswerInv'
    BY <1>1, <1>2, <1>3, SizeOfIs DEF AnswerInv
  <1> QED BY <1>4, <1>5, <1>6, <1>7

-----------------------------------------------------------------------------
(* A death leaves the control block and the cells as they are. *)
LEMMA AttachInv == ASSUME SidesInv, AttachProducer \/ AttachConsumer PROVE SidesInv'
  <1> USE DEF SidesInv
  <1>1. CASE AttachProducer
    <2>1. /\ deaths' = deaths + 1
          /\ ppc' = "idle" /\ room' = FALSE /\ refusedPush' = FALSE
          /\ UNCHANGED <<tail, pVal, headSeen, pushed, cells>>
          /\ UNCHANGED <<head, cpc, out, tailSeen, popped, pending, refusedPop>>
      BY <1>1 DEF AttachProducer, consumer
    <2>2. TypeOK'
      <3>1. deaths' \in Nat
        BY <2>1 DEF TypeOK
      <3> QED BY <3>1, <2>1 DEF TypeOK
    <2>3. IndexInv' /\ CellInv' /\ Fifo' /\ ConsumerInv'
      BY <2>1 DEF IndexInv, CellInv, Fifo, ConsumerInv
    <2>4. ProducerInv' /\ AnswerInv'
      BY <2>1 DEF ProducerInv, AnswerInv
    <2> QED BY <2>2, <2>3, <2>4
  <1>2. CASE AttachConsumer
    <2>1. /\ deaths' = deaths + 1
          /\ cpc' = "idle" /\ pending' = FALSE /\ refusedPop' = FALSE
          /\ UNCHANGED <<head, out, tailSeen, popped, cells>>
          /\ UNCHANGED <<tail, ppc, pVal, headSeen, pushed, room, refusedPush>>
      BY <1>2 DEF AttachConsumer, producer
    <2>2. TypeOK'
      <3>1. deaths' \in Nat
        BY <2>1 DEF TypeOK
      <3> QED BY <3>1, <2>1 DEF TypeOK
    <2>3. IndexInv' /\ CellInv' /\ Fifo' /\ ProducerInv'
      BY <2>1 DEF IndexInv, CellInv, Fifo, ProducerInv
    <2>4. ConsumerInv' /\ AnswerInv'
      BY <2>1 DEF ConsumerInv, AnswerInv
    <2> QED BY <2>2, <2>3, <2>4
  <1> QED BY <1>1, <1>2

LEMMA StutterInv == ASSUME SidesInv, UNCHANGED sides PROVE SidesInv'
  BY DEF SidesInv, sides, producer, consumer, TypeOK, IndexInv, CellInv,
         ProducerInv, ConsumerInv, AnswerInv, Fifo

LEMMA SidesStepInv == ASSUME SidesInv, Sides PROVE SidesInv'
  <1>1. CASE Produce
    BY <1>1, TryPushInv, BeginWriteInv, EndWriteInv, PublishTailInv, FullInv
       DEF Produce
  <1>2. CASE Consume
    BY <1>2, TryPopInv, ReadingInv, ReleaseHeadInv, SizeInv DEF Consume
  <1>3. CASE AttachProducer \/ AttachConsumer
    BY <1>3, AttachInv
  <1> QED BY <1>1, <1>2, <1>3 DEF Sides

-----------------------------------------------------------------------------
(* The observer: the indices only grow, so that what it loaded stays below *)
(* them.                                                                   *)

LEMMA IndicesGrow ==
    ASSUME SidesInv, Sides
    PROVE  /\ head' \in Nat /\ tail' \in Nat
           /\ head <= head' /\ tail <= tail'
  <1>1. head \in Nat /\ tail \in Nat
    BY DEF SidesInv, TypeOK
  <1>2. head' \in {head, head + 1} /\ tail' \in {tail, tail + 1}
    BY DEF Sides, Produce, Consume, TryPush, BeginWrite, EndWrite, PublishTail, Full,
           TryPop, BeginRead, EndRead, ReleaseHead, Size, AttachProducer,
           AttachConsumer, producer, consumer
  <1> QED BY <1>1, <1>2

LEMMA ObserveInv ==
    ASSUME SidesInv, GaugeInv, Observe, UNCHANGED sides PROVE GaugeInv'
  <1>1. head' = head /\ tail' = tail /\ head \in Nat /\ tail \in Nat
    BY DEF sides, producer, consumer, SidesInv, TypeOK
  <1>2. CASE LoadHead
    BY <1>1, <1>2 DEF LoadHead, GaugeInv
  <1>3. CASE LoadTail
    <2>1. gTail' \in Nat /\ gTail' <= tail /\ gHead \in Nat
      BY <1>1, <1>3 DEF LoadTail, GaugeInv
    <2>2. SizeOf(gHead, gTail') \in Nat /\ SizeOf(gHead, gTail') <= gTail'
      BY <2>1, SizeOfIs
    <2> QED BY <1>1, <1>3, <2>1, <2>2 DEF LoadTail, GaugeInv
  <1> QED BY <1>2, <1>3 DEF Observe

LEMMA NextInv == IInv /\ [Next]_vars => IInv'
  <1> SUFFICES ASSUME SidesInv, GaugeInv, [Next]_vars PROVE SidesInv' /\ GaugeInv'
    BY DEF IInv
  <1>1. CASE Sides /\ UNCHANGED gauge
    <2>1. GaugeInv'
      BY <1>1, IndicesGrow DEF GaugeInv, gauge, SidesInv, TypeOK
    <2> QED BY <1>1, <2>1, SidesStepInv
  <1>2. CASE Observe /\ UNCHANGED sides
    BY <1>2, ObserveInv, StutterInv
  <1>3. CASE UNCHANGED vars
    <2>1. UNCHANGED sides /\ UNCHANGED <<gpc, gHead, gTail, depth, head, tail>>
      BY <1>3 DEF vars, gauge, sides, producer, consumer
    <2> QED BY <2>1, StutterInv DEF GaugeInv
  <1> QED BY <1>1, <1>2, <1>3 DEF Next

-----------------------------------------------------------------------------
(* The invariant holds of the queue of TryPush, TryPop, Full and Size, for *)
(* every depth and whatever deaths and reattachments happen.               *)
THEOREM InvariantHolds == Spec => []IInv
  BY InitInv, NextInv, PTL DEF Spec

(* TryPop takes exactly what TryPush accepted, in order and whole. *)
THEOREM FifoHolds == Spec => []Fifo
  <1>1. IInv => Fifo
    BY DEF IInv, SidesInv
  <1> QED BY <1>1, InvariantHolds, PTL

(* TryPush's copy-in and TryPop's copy-out are never in one cell at once. *)
THEOREM NoDataRaceHolds == Spec => []NoDataRace
  <1>1. IInv => NoDataRace
    <2> SUFFICES ASSUME IInv, ppc = "writing", cpc = "reading"
                 PROVE  CellOf(tail) # CellOf(head)
      BY DEF NoDataRace
    <2>1. Capacity \in Nat \ {0} /\ head \in Nat /\ tail \in Nat /\ headSeen \in Nat
      BY CapacityType DEF IInv, SidesInv, TypeOK
    <2>2. head < tail
      BY CellInUse DEF IInv
    <2>3. tail < head + Capacity
      <3> HIDE DEF Capacity
      <3> QED BY <2>1 DEF IInv, SidesInv, IndexInv, ProducerInv
    <2> QED BY <2>1, <2>2, <2>3, CellDistinct
  <1> QED BY <1>1, InvariantHolds, PTL

(* Full() and Size() keep their word in their own threads, and Size() does *)
(* not wrap in any other.                                                  *)
THEOREM AnswersHoldAlways == Spec => []AnswersHold
  <1>1. IInv => AnswersHold
    BY DEF IInv, SidesInv, GaugeInv, AnswerInv, IndexInv, TypeOK, AnswersHold
  <1> QED BY <1>1, InvariantHolds, PTL


-----------------------------------------------------------------------------
(* The queue implements BoundedFifo. *)

Waiting == SubSeq(pushed, Len(popped) + 1, Len(pushed))

(* A run of entries, position by position. *)
LEMMA Run ==
    ASSUME NEW S, NEW s \in Seq(S), NEW m \in 0 .. Len(s)
    PROVE  /\ SubSeq(s, m + 1, Len(s)) \in Seq(S)
           /\ Len(SubSeq(s, m + 1, Len(s))) = Len(s) - m
           /\ \A i \in 1 .. Len(s) - m : SubSeq(s, m + 1, Len(s))[i] = s[m + i]
  OBVIOUS

(* Sequences of the same length with the same entries are the same. *)
LEMMA SameEntries ==
    ASSUME NEW S, NEW s \in Seq(S), NEW u \in Seq(S), Len(s) = Len(u),
           \A i \in 1 .. Len(s) : s[i] = u[i]
    PROVE  s = u
  OBVIOUS

(* Before anything is pushed nothing waits. *)
LEMMA RefinesInit == Init => Queue!Init
  BY DEF Init, Queue!Init

(* (Q3) is the abstract push. *)
LEMMA PublishIsPush ==
    ASSUME IInv, PublishTail PROVE \E v \in Values : Queue!Push(v)
  <1>1. /\ pushed \in Seq(Values) /\ pVal \in Values /\ Len(popped) \in 0 .. Len(pushed)
        /\ tail \in Nat /\ head \in Nat /\ headSeen \in Nat
        /\ Len(pushed) = tail /\ Len(popped) = head
        /\ tail < headSeen + Capacity /\ headSeen <= head
    BY DEF IInv, SidesInv, TypeOK, IndexInv, ProducerInv, PublishTail, Fifo
  <1>2. pushed' = Append(pushed, pVal) /\ popped' = popped
    BY DEF PublishTail, consumer
  <1>3. Len(Waiting) < Capacity
    <2>1. Len(Waiting) = Len(pushed) - Len(popped)
      BY <1>1, Run DEF Waiting
    <2>2. Capacity \in Nat
      BY CapacityType
    <2> HIDE DEF Capacity
    <2> QED BY <1>1, <2>1, <2>2
  <1>4. Waiting' = Append(Waiting, pVal)
    <2>1. /\ Waiting \in Seq(Values) /\ Len(Waiting) = Len(pushed) - Len(popped)
          /\ \A i \in 1 .. Len(Waiting) : Waiting[i] = pushed[Len(popped) + i]
      BY <1>1, Run DEF Waiting
    <2>2. /\ pushed' \in Seq(Values) /\ Len(pushed') = Len(pushed) + 1
          /\ pushed'[Len(pushed) + 1] = pVal
          /\ \A i \in 1 .. Len(pushed) : pushed'[i] = pushed[i]
      BY <1>1, <1>2, Appended
    <2>3. Len(popped) \in 0 .. Len(pushed')
      BY <1>1, <2>2
    <2>4. /\ Waiting' \in Seq(Values) /\ Len(Waiting') = Len(pushed') - Len(popped)
          /\ \A i \in 1 .. Len(Waiting') : Waiting'[i] = pushed'[Len(popped) + i]
      BY <1>2, <2>2, <2>3, Run DEF Waiting
    <2>5. /\ Append(Waiting, pVal) \in Seq(Values)
          /\ Len(Append(Waiting, pVal)) = Len(Waiting) + 1
          /\ Append(Waiting, pVal)[Len(Waiting) + 1] = pVal
          /\ \A i \in 1 .. Len(Waiting) : Append(Waiting, pVal)[i] = Waiting[i]
      BY <1>1, <2>1, Appended
    <2>6. ASSUME NEW i \in 1 .. Len(Waiting') PROVE Waiting'[i] = Append(Waiting, pVal)[i]
      <3>1. CASE i \in 1 .. Len(Waiting)
        BY <1>1, <2>1, <2>2, <2>4, <2>5, <3>1
      <3>2. CASE i = Len(Waiting) + 1
        BY <1>1, <2>1, <2>2, <2>4, <2>5, <3>2
      <3> QED BY <1>1, <2>1, <2>2, <2>4, <3>1, <3>2
    <2>7. Len(Waiting') = Len(Append(Waiting, pVal))
      BY <1>1, <2>1, <2>2, <2>4, <2>5
    <2> HIDE DEF Waiting
    <2> QED BY <2>4, <2>5, <2>6, <2>7, SameEntries
  <1> QED BY <1>1, <1>2, <1>3, <1>4 DEF Queue!Push, Waiting

(* (Q2) is the abstract pop. *)
LEMMA ReleaseIsPop == ASSUME IInv, ReleaseHead PROVE Queue!Pop
  <1>1. /\ pushed \in Seq(Values) /\ Len(popped) \in 0 .. Len(pushed)
        /\ tail \in Nat /\ head \in Nat /\ tailSeen \in Nat
        /\ Len(pushed) = tail /\ Len(popped) = head
        /\ head < tailSeen /\ tailSeen <= tail /\ out = pushed[head + 1]
        /\ popped \in Seq(Values \cup {Torn}) /\ out \in Values \cup {Torn}
    BY DEF IInv, SidesInv, TypeOK, IndexInv, ConsumerInv, ReleaseHead, Fifo
  <1>2. popped' = Append(popped, out) /\ pushed' = pushed
    BY DEF ReleaseHead, producer
  <1>3. /\ Waiting \in Seq(Values) /\ Len(Waiting) = Len(pushed) - Len(popped)
        /\ \A i \in 1 .. Len(Waiting) : Waiting[i] = pushed[Len(popped) + i]
    BY <1>1, Run DEF Waiting
  <1>4. Len(popped') = Len(popped) + 1 /\ Len(popped') \in 0 .. Len(pushed)
    BY <1>1, <1>2, Appended
  <1>5. /\ Waiting' \in Seq(Values) /\ Len(Waiting') = Len(pushed) - Len(popped')
        /\ \A i \in 1 .. Len(Waiting') : Waiting'[i] = pushed[Len(popped') + i]
    BY <1>1, <1>2, <1>4, Run DEF Waiting
  <1> HIDE DEF Waiting
  <1>6. Waiting # <<>> /\ Head(Waiting) = out
    BY <1>1, <1>3
  <1>7. /\ Tail(Waiting) \in Seq(Values) /\ Len(Tail(Waiting)) = Len(Waiting) - 1
        /\ \A i \in 1 .. Len(Waiting) - 1 : Tail(Waiting)[i] = Waiting[i + 1]
    BY <1>1, <1>3
  <1>8. Waiting' = Tail(Waiting)
    <2>1. Len(Waiting') = Len(Tail(Waiting))
      BY <1>1, <1>3, <1>4, <1>5, <1>7
    <2>2. \A i \in 1 .. Len(Waiting') : Waiting'[i] = Tail(Waiting)[i]
      BY <1>1, <1>3, <1>4, <1>5, <1>7
    <2> QED BY <1>5, <1>7, <2>1, <2>2, SameEntries
  <1> QED BY <1>2, <1>6, <1>8 DEF Queue!Pop, Waiting

(* Every other step leaves both ends of the abstract queue alone. *)
LEMMA RefinesStep ==
    ASSUME IInv, [Next]_vars PROVE [Queue!Next]_(Queue!vars)
  <1>1. CASE PublishTail
    BY <1>1, PublishIsPush DEF Queue!Next
  <1>2. CASE ReleaseHead
    BY <1>2, ReleaseIsPop DEF Queue!Next
  <1>3. CASE ~PublishTail /\ ~ReleaseHead
    <2>1. UNCHANGED <<pushed, popped>>
      BY <1>3 DEF Next, Sides, Produce, Consume, TryPush, BeginWrite, EndWrite, Full,
                  TryPop, BeginRead, EndRead, Size, AttachProducer,
                  AttachConsumer, vars, sides, producer, consumer
    <2> QED BY <2>1 DEF Queue!vars
  <1> QED BY <1>1, <1>2, <1>3

(* SpscQueue implements the bounded queue of single-step pushes and pops   *)
(* it promises, for every depth and whatever the deaths of its two sides:  *)
(* storing the tail (Q3) is the push and storing the head (Q2) the pop.    *)
THEOREM QueueRefinement == Spec => ImplementsFifo
  <1>1. IInv /\ [Next]_vars => [Queue!Next]_(Queue!vars)
    BY RefinesStep
  <1> QED BY <1>1, RefinesInit, InvariantHolds, PTL
          DEF Spec, ImplementsFifo, Queue!Spec
=============================================================================
