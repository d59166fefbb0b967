---------------------------- MODULE ArgPackProofs ----------------------------
(***************************************************************************)
(* The pack and the message stay inside their buffers, strings are cut and *)
(* not dropped, and placeholders show their own arguments: for every size  *)
(* of the buffers that the code's uint8 fields can count, every argument   *)
(* list and every format.  The line that the console makes of a message    *)
(* arrives once and in order, whatever write(2) takes of it.               *)
(***************************************************************************)
EXTENDS ConsoleLine, SequenceTheorems, TLAPS

IInv == TypeOK /\ PackInv /\ OutputInBounds

-----------------------------------------------------------------------------
(* Lemmas about sequences and bytes. *)

(* What Append does to the length and to the elements of a sequence. *)
LEMMA AppendFacts ==
    ASSUME NEW S, NEW s \in Seq(S), NEW e \in S
    PROVE  /\ Append(s, e) \in Seq(S)
           /\ Len(Append(s, e)) = Len(s) + 1 /\ Len(s) \in Nat
           /\ \A i \in 1 .. Len(s) : Append(s, e)[i] = s[i]
           /\ Append(s, e)[Len(s) + 1] = e
           /\ Append(s, e) # <<>>
  OBVIOUS

(* An element of a sequence over S is in S. *)
LEMMA ElementType ==
    ASSUME NEW S, NEW s \in Seq(S) PROVE \A i \in 1 .. Len(s) : s[i] \in S
  OBVIOUS

(* A sequence without elements is the empty one. *)
LEMMA EmptyLen ==
    ASSUME NEW S, NEW s \in Seq(S) PROVE s = <<>> <=> Len(s) = 0
  OBVIOUS

(* A number below 256 fits a uint8. *)
LEMMA FitsByte == \A n \in Nat : n < Byte => n % Byte = n
  BY DEF Byte

(* The lesser of two naturals is a natural, and at most each of them. *)
LEMMA LeastNat ==
    \A i, j \in Nat : Least(i, j) \in Nat /\ Least(i, j) <= i /\ Least(i, j) <= j
  BY DEF Least

-----------------------------------------------------------------------------
(* Packing. *)

(* The part of the invariant that is about one entry *)
EntryOK(s, u, i) ==
    /\ s[i].offset = IF i = 1 THEN 0 ELSE End(s[i - 1])
    /\ End(s[i]) <= u
    /\ s[i].kind = "str" => s[i].len = s[i].size

(* PutRaw of n bytes keeps the entries in a row, when the length it notes  *)
(* for a string is n and fits a byte.                                      *)
LEMMA PutRawKeeps ==
    ASSUME TypeOK, PackInv,
           NEW a \in [kind : Kinds, size : Nat], NEW n \in Nat, NEW d \in Nat,
           a.kind = "str" => d = n, d < Byte,
           PutRaw(a, n, d)
    PROVE  /\ entries' \in Seq([kind : Kinds, offset : Nat, size : Nat,
                                len : Nat, of : Nat])
           /\ used' \in Nat
           /\ PackInv'
  <1> DEFINE E == [kind : Kinds, offset : Nat, size : Nat, len : Nat, of : Nat]
             e == Entry(a, n, d)
  <1>1. entries \in Seq(E) /\ used \in Nat /\ Len(given) \in Nat
    BY DEF TypeOK
  <1>2. kMaxArgs \in Nat /\ kBufBytes \in Nat /\ kBufBytes < Byte
    BY PackAssumption DEF PackAssumption
  <1>3. CASE ~Room(n)
    <2>1. entries' = entries /\ used' = used
      BY <1>3 DEF PutRaw
    <2>2. PackInv'
      BY <2>1 DEF PackInv, End
    <2> QED BY <1>1, <2>1, <2>2
  <1>4. CASE Room(n)
    <2>1. entries' = Append(entries, e) /\ used' = (used + n) % Byte
      BY <1>4 DEF PutRaw
    <2>2. Len(entries) < kMaxArgs /\ used + n <= kBufBytes
      BY <1>4 DEF Room
    <2>3. used' = used + n
      <3>1. used + n \in Nat /\ used + n < Byte
        BY <1>1, <1>2, <2>2 DEF Byte
      <3> QED BY <2>1, <3>1, FitsByte
    <2>4. d % Byte = d
      BY FitsByte
    <2>5. /\ e.kind = a.kind /\ e.offset = used /\ e.size = n /\ e.len = d
          /\ e \in E
      BY <1>1, <2>4 DEF Entry
    <2> HIDE DEF e, E
    <2>6. /\ entries' \in Seq(E)
          /\ Len(entries') = Len(entries) + 1 /\ Len(entries) \in Nat
          /\ \A i \in 1 .. Len(entries) : entries'[i] = entries[i]
          /\ entries'[Len(entries) + 1] = e
          /\ entries' # <<>>
      BY <1>1, <2>1, <2>5, AppendFacts
    <2>7. entries = <<>> <=> Len(entries) = 0
      BY <1>1, EmptyLen
    <2>8. \A i \in 1 .. Len(entries) : entries[i] \in E
      BY <1>1, ElementType
    <2>9. End(e) = used + n
      BY <2>5 DEF End
    <2>10. \A i \in 1 .. Len(entries) : EntryOK(entries', used', i)
      <3> SUFFICES ASSUME NEW i \in 1 .. Len(entries)
                   PROVE  EntryOK(entries', used', i)
        OBVIOUS
      <3>1. EntryOK(entries, used, i)
        BY DEF PackInv, EntryOK
      <3>2. entries'[i] = entries[i] /\ (i # 1 => entries'[i - 1] = entries[i - 1])
        BY <2>6
      <3>3. End(entries[i]) \in Nat
        <4>1. entries[i] \in E
          BY <2>8
        <4> QED BY <4>1 DEF End, E
      <3> QED BY <1>1, <2>3, <3>1, <3>2, <3>3 DEF EntryOK
    <2>11. EntryOK(entries', used', Len(entries) + 1)
      <3>1. used = IF entries = <<>> THEN 0 ELSE End(entries[Len(entries)])
        BY DEF PackInv
      <3>2. e.offset = IF Len(entries) + 1 = 1 THEN 0 ELSE End(entries'[Len(entries)])
        BY <2>5, <2>6, <2>7, <3>1
      <3>3. (Len(entries) + 1) - 1 = Len(entries)
        BY <2>6
      <3> QED BY <2>3, <2>5, <2>6, <2>9, <3>2, <3>3, <1>1 DEF EntryOK
    <2>12. \A i \in 1 .. Len(entries') : EntryOK(entries', used', i)
      BY <2>6, <2>10, <2>11
    <2>13. used' = IF entries' = <<>> THEN 0 ELSE End(entries'[Len(entries')])
      BY <2>3, <2>6, <2>9
    <2>14. Len(entries') <= kMaxArgs /\ used' <= kBufBytes /\ used' \in Nat
      BY <1>1, <1>2, <2>2, <2>3, <2>6
    <2>15. PackInv'
      BY <2>12, <2>13, <2>14 DEF PackInv, EntryOK, End
    <2> QED BY <2>6, <2>14, <2>15 DEF E
  <1> QED BY <1>3, <1>4

(* What PackStr keeps is a natural that fits a byte. *)
LEMMA KeptType ==
    ASSUME TypeOK, PackInv, NEW size \in Nat
    PROVE  Kept(size) \in Nat /\ Kept(size) < Byte
  <1>1. kBufBytes - used \in Nat
    BY PackAssumption DEF PackAssumption, TypeOK, PackInv
  <1> QED BY <1>1 DEF Kept, Least, Byte

-----------------------------------------------------------------------------
(* Rendering. *)

(* A spec's width and precision are integers. *)
LEMMA SpecType ==
    ASSUME NEW spec \in Specs PROVE spec.width \in Int /\ spec.prec \in Int
  <1>1. /\ kMaxWidth \in Nat /\ kMaxPrec \in Nat
        /\ Widths \subseteq Nat /\ Precs \subseteq Nat
    BY PackAssumption DEF PackAssumption
  <1> QED BY <1>1 DEF Specs, Default, ParseSpec, Least

(* A rendered argument has a length. *)
LEMMA RenderType ==
    ASSUME NEW spec \in Specs,
           NEW e \in [kind : Kinds, offset : Nat, size : Nat, len : Nat, of : Nat],
           NEW n \in Rendered(e, spec)
    PROVE  n \in Nat
  <1>1. spec.width \in Int /\ spec.prec \in Int
    BY SpecType
  <1>2. NumberSizes \subseteq Nat /\ TmpBytes \in Nat \ {0}
    BY PackAssumption DEF PackAssumption
  <1>3. PICK sp \in {spec, Default} : n \in RenderArg(e, sp)
    BY DEF Rendered, AppendArg
  <1>4. sp.width \in Int /\ sp.prec \in Int
    BY <1>1 DEF Default
  <1>5. \A k \in Nat : RenderNumeric(k, sp) \in Nat
    BY <1>2, <1>4 DEF RenderNumeric, Least
  <1>6. RenderString(e.len, sp) \in Nat
    BY <1>4 DEF RenderString, Least
  <1>7. CASE e.kind = "str"
    BY <1>3, <1>6, <1>7 DEF RenderArg
  <1>8. CASE e.kind = "bool"
    BY <1>3, <1>5, <1>8 DEF RenderArg
  <1>9. CASE e.kind = "word"
    BY <1>2, <1>3, <1>5, <1>9 DEF RenderArg
  <1> QED BY <1>7, <1>8, <1>9 DEF Kinds

(* Appending keeps room for the terminator. *)
LEMMA AppendRawBound ==
    ASSUME len \in Nat, OutputInBounds, NEW n \in Nat
    PROVE  len + AppendRaw(n) \in Nat /\ len + AppendRaw(n) + 1 <= Cap
  BY PackAssumption DEF PackAssumption, OutputInBounds, AppendRaw, Least

-----------------------------------------------------------------------------
(* The invariant. *)

(* A new event has an empty pack and an empty buffer. *)
LEMMA FreshEvent ==
    ASSUME given = <<>>, entries = <<>>, used = 0, next = 0, len = 0
    PROVE  IInv
  BY PackAssumption DEF PackAssumption, IInv, TypeOK, PackInv, OutputInBounds

(* Every step keeps the invariant. *)
LEMMA StepKeeps == ASSUME IInv, [Next]_vars PROVE IInv'
  <1> USE DEF IInv
  <1>1. ASSUME NEW a \in Scalars \cup Strings, PackOne(a) PROVE IInv'
    <2>1. a \in [kind : Kinds, size : Nat]
      <3>1. CASE a \in Scalars
        BY <3>1 DEF Scalars, Kinds
      <3>2. CASE a \in Strings
        <4>1. StrSizes \subseteq Nat
          BY PackAssumption DEF PackAssumption
        <4> QED BY <3>2, <4>1 DEF Strings, Kinds
      <3> QED BY <3>1, <3>2
    <2>2. given' = Append(given, a) /\ next' = next /\ len' = len
      BY <1>1 DEF PackOne, output
    <2>3. given' \in Seq([kind : Kinds, size : Nat])
      BY <2>1, <2>2 DEF TypeOK
    <2>4. /\ entries' \in Seq([kind : Kinds, offset : Nat, size : Nat,
                               len : Nat, of : Nat])
          /\ used' \in Nat
          /\ PackInv'
      <3>1. CASE a.kind = "str"
        <4>1. PutRaw(a, Kept(a.size), Kept(a.size))
          BY <1>1, <3>1 DEF PackOne
        <4>2. a.size \in Nat
          BY <2>1
        <4>3. Kept(a.size) \in Nat /\ Kept(a.size) < Byte
          BY <4>2, KeptType
        <4> HIDE DEF IInv
        <4>4. TypeOK /\ PackInv
          BY DEF IInv
        <4> QED BY <2>1, <4>1, <4>3, <4>4, PutRawKeeps
      <3>2. CASE a.kind # "str"
        <4>1. PutRaw(a, a.size, 0)
          BY <1>1, <3>2 DEF PackOne
        <4>2. a.size \in Nat /\ 0 \in Nat /\ 0 < Byte
          BY <2>1 DEF Byte
        <4>3. TypeOK /\ PackInv
          BY DEF IInv
        <4> HIDE DEF IInv
        <4> QED BY <2>1, <3>2, <4>1, <4>2, <4>3, PutRawKeeps
      <3> QED BY <3>1, <3>2
    <2>5. TypeOK'
      BY <2>2, <2>3, <2>4 DEF TypeOK
    <2> QED BY <2>2, <2>4, <2>5 DEF OutputInBounds
  <1>2. ASSUME NEW spec \in Specs, Placeholder(spec) PROVE IInv'
    <2>1. given' = given /\ entries' = entries /\ used' = used
      BY <1>2 DEF Placeholder, pack
    <2>2. PackInv'
      BY <2>1 DEF PackInv, End
    <2>3. len' \in Nat /\ len' + 1 <= Cap /\ next' \in Nat
      <3>1. len \in Nat /\ next \in Nat /\ OutputInBounds
        BY DEF TypeOK
      <3>2. CASE next < Len(entries)
        <4>1. PICK n \in Rendered(entries[next + 1], spec) : len' = len + AppendRaw(n)
          BY <1>2, <3>2 DEF Placeholder
        <4>2. entries[next + 1] \in
                  [kind : Kinds, offset : Nat, size : Nat, len : Nat, of : Nat]
          <5>1. Len(entries) \in Nat /\ next + 1 \in 1 .. Len(entries)
            BY <3>1, <3>2 DEF TypeOK
          <5>2. entries \in Seq([kind : Kinds, offset : Nat, size : Nat,
                                 len : Nat, of : Nat])
            BY DEF TypeOK
          <5> QED BY <5>1, <5>2, ElementType
        <4>3. n \in Nat
          BY <4>2, RenderType
        <4>4. next' = next + 1
          BY <1>2, <3>2 DEF Placeholder
        <4> QED BY <3>1, <4>1, <4>3, <4>4, AppendRawBound
      <3>3. CASE ~(next < Len(entries))
        <4>1. len' = len + AppendRaw(3) /\ next' = next
          BY <1>2, <3>3 DEF Placeholder
        <4> QED BY <3>1, <4>1, AppendRawBound
      <3> QED BY <3>2, <3>3
    <2> QED BY <2>1, <2>2, <2>3 DEF TypeOK, OutputInBounds
  <1>3. CASE Literal
    <2>1. given' = given /\ entries' = entries /\ used' = used /\ next' = next
      BY <1>3 DEF Literal, pack
    <2>2. len' = len + 1 /\ len < Cap - 1
      BY <1>3 DEF Literal, Piece
    <2>3. len' \in Nat /\ len' + 1 <= Cap
      BY <2>2, PackAssumption DEF PackAssumption, TypeOK
    <2>4. PackInv'
      BY <2>1 DEF PackInv, End
    <2> QED BY <2>1, <2>3, <2>4 DEF TypeOK, OutputInBounds
  <1>4. CASE Again
    <2>1. given' = <<>> /\ entries' = <<>> /\ used' = 0 /\ next' = 0 /\ len' = 0
      BY <1>4 DEF Again
    <2> QED BY <2>1, PackAssumption
         DEF PackAssumption, TypeOK, PackInv, OutputInBounds
  <1>5. CASE Pass \/ Terminate \/ UNCHANGED vars
    <2>1. UNCHANGED <<pack, output>>
      BY <1>5 DEF Pass, Terminate, vars
    <2> QED BY <2>1 DEF pack, output, TypeOK, PackInv, OutputInBounds, End
  <1> QED BY <1>1, <1>2, <1>3, <1>4, <1>5 DEF Next, Prepare

(* The inductive invariant holds for every size of the buffers. *)
THEOREM InvariantHolds == Spec => []IInv
  <1>1. Init => IInv
    BY FreshEvent DEF Init
  <1>2. IInv /\ [Next]_vars => IInv'
    BY StepKeeps
  <1> QED BY <1>1, <1>2, PTL DEF Spec

(* The entries tile the pack and no uint8 field of ArgPack loses a bit,    *)
(* whatever arguments an event is given.                                   *)
THEOREM PackStaysInBounds == Spec => []PackInv
  <1>1. IInv => PackInv
    BY DEF IInv
  <1> QED BY <1>1, InvariantHolds, PTL

(* A formatter writes inside its buffer,   terminator included, whatever   *)
(* the format, the specs and the arguments.                                *)
THEOREM MessageStaysInBounds == Spec => []OutputInBounds
  <1>1. IInv => OutputInBounds
    BY DEF IInv
  <1> QED BY <1>1, InvariantHolds, PTL

-----------------------------------------------------------------------------
(* Which arguments are kept, and where they are shown. *)

Packed == [kind : Kinds, offset : Nat, size : Nat, len : Nat, of : Nat]

(* What PutRaw does with an argument: it adds an entry, or there is no     *)
(* room for one.                                                           *)
LEMMA PutRawAdds ==
    ASSUME TypeOK, PackInv,
           NEW a \in [kind : Kinds, size : Nat], NEW n \in Nat, NEW d \in Nat,
           d < Byte, PutRaw(a, n, d)
    PROVE  /\ Len(entries) \in Nat /\ Len(given) \in Nat
           /\ \/ /\ Len(entries') = Len(entries) + 1
                 /\ \A i \in 1 .. Len(entries) : entries'[i] = entries[i]
                 /\ LET e == entries'[Len(entries) + 1] IN
                    /\ e.of = Len(given) + 1 /\ e.len = d
                    /\ e.offset = used /\ e.size = n
                 /\ used' = used + n
              \/ /\ entries' = entries /\ used' = used
                 /\ Len(entries) < kMaxArgs => kBufBytes < used + n
  <1>1. entries \in Seq(Packed) /\ used \in Nat /\ Len(given) \in Nat
    BY DEF TypeOK, Packed
  <1>2. kMaxArgs \in Nat /\ kBufBytes \in Nat /\ kBufBytes < Byte
    BY PackAssumption DEF PackAssumption
  <1>3. Len(entries) \in Nat
    <2> HIDE DEF Packed
    <2> QED BY <1>1
  <1>4. CASE ~Room(n)
    BY <1>1, <1>2, <1>3, <1>4 DEF PutRaw, Room
  <1>5. CASE Room(n)
    <2> DEFINE e == Entry(a, n, d)
    <2>1. entries' = Append(entries, e) /\ used' = (used + n) % Byte
      BY <1>5 DEF PutRaw
    <2>2. used' = used + n
      <3>1. used + n \in Nat /\ used + n < Byte
        BY <1>1, <1>2, <1>5 DEF Byte, Room
      <3> QED BY <2>1, <3>1, FitsByte
    <2>3. d % Byte = d
      BY FitsByte
    <2>4. /\ e.of = Len(given) + 1 /\ e.len = d /\ e.offset = used /\ e.size = n
          /\ e \in Packed
      BY <1>1, <2>3 DEF Entry, Packed
    <2> HIDE DEF e, Packed
    <2>5. /\ Len(entries') = Len(entries) + 1
          /\ \A i \in 1 .. Len(entries) : entries'[i] = entries[i]
          /\ entries'[Len(entries) + 1] = e
      BY <1>1, <2>1, <2>4, AppendFacts
    <2> QED BY <1>1, <1>3, <2>2, <2>4, <2>5
  <1> QED BY <1>4, <1>5

OrderInv == CountInv /\ ShownInv /\ StringsAreCutNotDropped

(* One more argument *)
LEMMA PackOneKeeps ==
    ASSUME IInv, OrderInv, NEW a \in Scalars \cup Strings, PackOne(a)
    PROVE  OrderInv'
  <1>1. /\ a \in [kind : Kinds, size : Nat]
        /\ a.kind # "str" => a.size <= 8
    <2>1. StrSizes \subseteq Nat
      BY PackAssumption DEF PackAssumption
    <2>2. CASE a \in Scalars
      BY <2>2 DEF Scalars, Kinds
    <2>3. CASE a \in Strings
      BY <2>1, <2>3 DEF Strings, Kinds
    <2> QED BY <2>2, <2>3
  <1>2. TypeOK /\ PackInv /\ CountInv /\ ShownInv /\ StringsAreCutNotDropped
    BY DEF IInv, OrderInv
  <1>3. /\ kMaxArgs \in Nat /\ kBufBytes \in Nat /\ used \in Nat /\ used <= kBufBytes
        /\ a.size \in Nat /\ kBufBytes < Byte
    BY <1>1, <1>2, PackAssumption DEF PackAssumption, TypeOK, PackInv
  <1>4. PICK n \in Nat, d \in Nat :
           /\ d < Byte /\ PutRaw(a, n, d)
           /\ a.kind # "str" => n <= 8
           /\ a.kind = "str" => d = n /\ used + n <= kBufBytes
           /\ a.kind = "str" => n = a.size \/ n = 255 \/ used + n = kBufBytes
    <2>1. CASE a.kind = "str"
      <3>1. Kept(a.size) \in Nat /\ Kept(a.size) < Byte
        BY <1>2, <1>3, KeptType
      <3>2. /\ used + Kept(a.size) <= kBufBytes
            /\ \/ Kept(a.size) = a.size \/ Kept(a.size) = 255
               \/ used + Kept(a.size) = kBufBytes
        BY <1>3 DEF Kept, Least
      <3>3. PutRaw(a, Kept(a.size), Kept(a.size))
        BY <2>1 DEF PackOne
      <3> QED BY <2>1, <3>1, <3>2, <3>3
    <2>2. CASE a.kind # "str"
      <3>1. PutRaw(a, a.size, 0) /\ 0 < Byte
        BY <2>2 DEF PackOne, Byte
      <3> QED BY <1>1, <1>3, <2>2, <3>1
    <2> QED BY <2>1, <2>2
  <1>5. PICK m \in Nat, g \in Nat : m = Len(entries) /\ g = Len(given)
    BY <1>1, <1>2, <1>4, PutRawAdds
  <1>6. \/ /\ Len(entries') = m + 1 /\ \A i \in 1 .. m : entries'[i] = entries[i]
           /\ entries'[m + 1].of = g + 1 /\ entries'[m + 1].len = d
           /\ entries'[m + 1].offset = used /\ entries'[m + 1].size = n
           /\ used' = used + n
        \/ /\ entries' = entries /\ used' = used
           /\ m < kMaxArgs => kBufBytes < used + n
    BY <1>1, <1>2, <1>4, <1>5, PutRawAdds
  <1>7. /\ Len(given') = g + 1 /\ given'[g + 1] = a
        /\ \A j \in 1 .. g : given'[j] = given[j]
    <2>1. given \in Seq([kind : Kinds, size : Nat]) /\ given' = Append(given, a)
      BY <1>2 DEF PackOne, TypeOK
    <2> QED BY <1>1, <1>5, <2>1, AppendFacts
  <1>8. phase = "pack" /\ phase' = "pack" /\ next' = next /\ shown' = shown /\ shown = <<>>
    BY <1>2 DEF PackOne, output, ShownInv
  <1>9. m <= g
    BY <1>2, <1>5 DEF CountInv
  <1>10. CountInv'
    <2>1. CASE Len(entries') = m + 1 /\ used' = used + n
      <3>1. Len(entries') <= Len(given')
        BY <1>5, <1>7, <1>9, <2>1
      <3>2. ASSUME used' + 8 <= kBufBytes
            PROVE  /\ Len(entries') = Least(Len(given'), kMaxArgs)
                   /\ \A i \in 1 .. Len(entries') : entries'[i].of = i
        <4>1. used + 8 <= kBufBytes
          BY <1>3, <1>4, <2>1, <3>2
        <4>2. m = Least(g, kMaxArgs) /\ \A i \in 1 .. m : entries[i].of = i
          BY <1>2, <1>5, <4>1 DEF CountInv
        <4>3. Len(entries') <= kMaxArgs
          <5>1. TypeOK /\ PackInv /\ PutRaw(a, n, d) /\ d < Byte /\ (a.kind = "str" => d = n)
            BY <1>2, <1>4
          <5>2. PackInv'
            BY <1>1, <5>1, PutRawKeeps
          <5> QED BY <5>2 DEF PackInv
        <4>4. m = g
          BY <1>3, <1>5, <2>1, <4>2, <4>3 DEF Least
        <4> QED BY <1>3, <1>5, <1>6, <1>7, <2>1, <4>2, <4>3, <4>4 DEF Least
      <3> QED BY <3>1, <3>2 DEF CountInv
    <2>2. CASE entries' = entries /\ used' = used /\ (m < kMaxArgs => kBufBytes < used + n)
      <3>1. Len(entries') <= Len(given')
        BY <1>5, <1>7, <1>9, <2>2
      <3>2. ASSUME used' + 8 <= kBufBytes
            PROVE  /\ Len(entries') = Least(Len(given'), kMaxArgs)
                   /\ \A i \in 1 .. Len(entries') : entries'[i].of = i
        <4>1. m = Least(g, kMaxArgs) /\ \A i \in 1 .. m : entries[i].of = i
          BY <1>2, <1>5, <2>2, <3>2 DEF CountInv
        <4>2. used + n <= kBufBytes
          BY <1>3, <1>4, <2>2, <3>2
        <4>3. ~(m < kMaxArgs)
          BY <1>3, <2>2, <4>2
        <4>4. Least(g + 1, kMaxArgs) = m
          BY <1>3, <1>5, <4>1, <4>3 DEF Least
        <4> QED BY <1>5, <1>7, <2>2, <4>1, <4>4
      <3> QED BY <3>1, <3>2 DEF CountInv
    <2> QED BY <1>6, <2>1, <2>2
  <1>11. ShownInv'
    <2>1. Len(entries') \in Nat
      BY <1>5, <1>6
    <2>2. next = 0
      BY <1>2, <1>5, <1>8 DEF ShownInv, Least
    <2> QED BY <1>8, <2>1, <2>2 DEF ShownInv, Least
  <1>12. StringsAreCutNotDropped'
    <2> SUFFICES ASSUME NEW j \in 1 .. Least(Len(given'), kMaxArgs), given'[j].kind = "str"
                 PROVE  \E i \in 1 .. Len(entries') :
                          /\ entries'[i].of = j
                          /\ \/ entries'[i].len = given'[j].size
                             \/ entries'[i].len = 255
                             \/ entries'[i].offset + entries'[i].size = kBufBytes
      BY DEF StringsAreCutNotDropped, End
    <2>1. j \in 1 .. g + 1 /\ j <= kMaxArgs
      BY <1>3, <1>5, <1>7 DEF Least
    <2>2. CASE j = g + 1
      <3>1. a.kind = "str" /\ m < kMaxArgs
        BY <1>3, <1>5, <1>7, <1>9, <2>1, <2>2
      <3>2. used + n <= kBufBytes
        BY <1>3, <1>4, <3>1
      <3>3. /\ Len(entries') = m + 1
            /\ entries'[m + 1].of = g + 1 /\ entries'[m + 1].len = d
            /\ entries'[m + 1].offset = used /\ entries'[m + 1].size = n
        BY <1>3, <1>6, <3>1, <3>2
      <3>4. d = a.size \/ d = 255 \/ used + n = kBufBytes
        BY <1>3, <1>4, <3>1
      <3>5. m + 1 \in 1 .. Len(entries')
        BY <1>5, <3>3
      <3> QED BY <1>7, <2>2, <3>3, <3>4, <3>5
    <2>3. CASE j # g + 1
      <3>1. j \in 1 .. g /\ j \in 1 .. Least(g, kMaxArgs) /\ given'[j] = given[j]
        BY <1>3, <1>5, <1>7, <2>1, <2>3 DEF Least
      <3>2. PICK i \in 1 .. m :
               /\ entries[i].of = j
               /\ \/ entries[i].len = given[j].size
                  \/ entries[i].len = 255
                  \/ entries[i].offset + entries[i].size = kBufBytes
        BY <1>2, <1>5, <3>1 DEF StringsAreCutNotDropped, End
      <3>3. i \in 1 .. Len(entries') /\ entries'[i] = entries[i]
        BY <1>5, <1>6
      <3> QED BY <3>1, <3>2, <3>3
    <2> QED BY <2>2, <2>3
  <1> QED BY <1>10, <1>11, <1>12 DEF OrderInv

(* One more placeholder *)
LEMMA PlaceholderKeeps ==
    ASSUME IInv, OrderInv, NEW spec \in Specs, Placeholder(spec)
    PROVE  OrderInv'
  <1>1. phase \in Formatters /\ phase' = phase /\ UNCHANGED <<given, entries, used>>
    BY DEF Placeholder, Piece, pack
  <1>2. CountInv' /\ StringsAreCutNotDropped'
    BY <1>1 DEF OrderInv, CountInv, StringsAreCutNotDropped, End
  <1>3. PICK m \in Nat, s \in Nat : m = Len(entries) /\ s = Len(shown)
    BY DEF IInv, OrderInv, TypeOK, ShownInv
  <1>4. next = Least(s, m) /\ shown \in Seq(Nat)
    BY <1>3 DEF OrderInv, ShownInv
  <1>5. \A i \in 1 .. m : entries[i].of \in Nat
    <2>1. entries \in Seq(Packed)
      BY DEF IInv, TypeOK, Packed
    <2>2. \A i \in 1 .. m : entries[i] \in Packed
      <3> HIDE DEF Packed
      <3> QED BY <1>3, <2>1, ElementType
    <2> QED BY <2>2 DEF Packed
  <1>6. PICK x \in Nat :
           /\ shown' = Append(shown, x)
           /\ \/ s < m /\ next' = s + 1 /\ x = entries[s + 1].of
              \/ ~(s < m) /\ next' = m /\ x = 0
    <2>1. CASE next < m
      <3>1. next = s /\ s + 1 \in 1 .. m
        BY <1>3, <1>4, <2>1 DEF Least
      <3>2. shown' = Append(shown, entries[s + 1].of) /\ next' = s + 1
        BY <1>3, <2>1, <3>1 DEF Placeholder
      <3> QED BY <1>5, <2>1, <3>1, <3>2
    <2>2. CASE ~(next < m)
      <3>1. next = m /\ ~(s < m)
        BY <1>3, <1>4, <2>2 DEF Least
      <3>2. shown' = Append(shown, 0) /\ next' = next
        BY <1>3, <2>2 DEF Placeholder
      <3> QED BY <3>1, <3>2
    <2> QED BY <2>1, <2>2
  <1>7. /\ shown' \in Seq(Nat) /\ Len(shown') = s + 1 /\ shown'[s + 1] = x
        /\ \A j \in 1 .. s : shown'[j] = shown[j]
    BY <1>3, <1>4, <1>6, AppendFacts
  <1>8. ShownInv'
    <2>1. next' = Least(s + 1, m)
      BY <1>3, <1>6 DEF Least
    <2>2. ASSUME NEW j \in 1 .. s + 1
          PROVE  shown'[j] = IF j <= next' THEN entries[j].of ELSE 0
      <3>1. CASE j = s + 1
        BY <1>3, <1>6, <1>7, <3>1
      <3>2. CASE j # s + 1
        <4>1. j \in 1 .. s
          BY <1>3, <3>2
        <4>2. shown[j] = IF j <= next THEN entries[j].of ELSE 0
          BY <1>3, <4>1 DEF OrderInv, ShownInv
        <4>3. j <= next <=> j <= next'
          BY <1>3, <1>4, <2>1, <4>1 DEF Least
        <4> QED BY <1>7, <4>1, <4>2, <4>3
      <3> QED BY <3>1, <3>2
    <2>3. phase' # "pack"
      BY <1>1 DEF Formatters
    <2> QED BY <1>1, <1>3, <1>7, <2>1, <2>2, <2>3 DEF ShownInv
  <1> QED BY <1>2, <1>8 DEF OrderInv

LEMMA OrderKeeps == ASSUME IInv, OrderInv, [Next]_vars PROVE OrderInv'
  <1>1. CASE Literal \/ Pass \/ Terminate \/ UNCHANGED vars
    <2>1. /\ UNCHANGED <<given, entries, used, next, shown>>
          /\ phase' = "pack" => phase = "pack"
      BY <1>1 DEF Literal, Piece, Pass, Terminate, Formatters, vars, pack, output
    <2>2. CountInv' /\ StringsAreCutNotDropped'
      BY <2>1 DEF OrderInv, CountInv, StringsAreCutNotDropped, End
    <2>3. ShownInv'
      BY <2>1 DEF OrderInv, ShownInv
    <2> QED BY <2>2, <2>3 DEF OrderInv
  <1>2. CASE Again
    BY <1>2, PackAssumption DEF Again, PackAssumption, OrderInv, CountInv, ShownInv,
                                StringsAreCutNotDropped, Least
  <1> QED BY <1>1, <1>2, PackOneKeeps, PlaceholderKeeps DEF Next, Prepare

LEMMA OrderInit == Init => OrderInv
  BY PackAssumption DEF Init, PackAssumption, OrderInv, CountInv, ShownInv,
                        StringsAreCutNotDropped, Least

LEMMA OrderHolds == Spec => []OrderInv
  BY OrderInit, OrderKeeps, InvariantHolds, PTL DEF Spec

(* PackStr cuts strings, PutRaw drops none of the first kMaxArgs of them,  *)
(* whatever arguments are between them.                                    *)
THEOREM StringsAreKept == Spec => []StringsAreCutNotDropped
  <1>1. OrderInv => StringsAreCutNotDropped
    BY DEF OrderInv
  <1> QED BY <1>1, OrderHolds, PTL

(* In an event that leaves room for a word the formatter shows argument j  *)
(* at placeholder j, for every format.                                     *)
THEOREM FittingEventsAreAligned == Spec => []FittingEventsAlign
  <1>1. IInv /\ OrderInv => FittingEventsAlign
    <2> SUFFICES ASSUME IInv, OrderInv, used + 8 <= kBufBytes, NEW j \in 1 .. Len(shown)
                 PROVE  shown[j] \in {0, j}
      BY DEF FittingEventsAlign, Aligned
    <2>1. PICK m \in Nat, s \in Nat : m = Len(entries) /\ s = Len(shown)
      BY DEF IInv, OrderInv, TypeOK, ShownInv
    <2>2. /\ next = Least(s, m) /\ \A i \in 1 .. m : entries[i].of = i
          /\ shown[j] = IF j <= next THEN entries[j].of ELSE 0
      BY <2>1 DEF OrderInv, CountInv, ShownInv
    <2>3. j <= next => j \in 1 .. m
      BY <2>1, <2>2 DEF Least
    <2> QED BY <2>2, <2>3
  <1> QED BY <1>1, InvariantHolds, OrderHolds, PTL

-----------------------------------------------------------------------------
(* The console, with its lines, dynamic texts and health reports, runs its *)
(* events as ArgPack describes them: no step of EmitLine or WriteLine      *)
(* touches a pack or a message that is still in use.                       *)
THEOREM ConsoleRunsEvents == LineSpec => Spec
  <1>1. LineInit => Init
    BY DEF LineInit
  <1>2. [LineNext]_lineVars => [Next]_vars
    <2> SUFFICES ASSUME [LineNext]_lineVars PROVE [Next]_vars
      OBVIOUS
    <2>1. CASE Event
      BY <2>1 DEF Event, Next
    <2>2. CASE EmitEventImpl
      BY <2>2 DEF EmitEventImpl, Next
    <2>3. CASE \E n \in TextSizes : EmitEventDynImpl(n)
      BY <2>3 DEF EmitEventDynImpl
    <2>4. CASE (\E n \in 1 .. LineBytes : Write(n)) \/ WriteFails \/ Others \/ Return
      BY <2>4 DEF Write, WriteFails, Others, Return
    <2>5. CASE UNCHANGED lineVars
      BY <2>5 DEF lineVars
    <2> QED BY <2>1, <2>2, <2>3, <2>4, <2>5 DEF LineNext
  <1> QED BY <1>1, <1>2, PTL DEF LineSpec, Spec

-----------------------------------------------------------------------------
(* The line on its way to stderr. *)

(* The next n bytes continue a line of which k are written. *)
LEMMA NextBytes ==
    ASSUME NEW s \in Seq(Nat), NEW k \in Nat, NEW n \in Nat, InOrder(s, k)
    PROVE  LET t == s \o [i \in 1 .. n |-> k + i] IN
           /\ t \in Seq(Nat) /\ Len(t) = Len(s) + n /\ InOrder(t, k + n)
  <1> DEFINE p == [i \in 1 .. n |-> k + i]
             t == s \o p
  <1>1. PICK m \in Nat : m = Len(s)
    OBVIOUS
  <1>2. p \in Seq(Nat) /\ Len(p) = n /\ \A i \in 1 .. n : p[i] = k + i
    OBVIOUS
  <1> HIDE DEF p
  <1>3. /\ t \in Seq(Nat) /\ Len(t) = m + n
        /\ \A i \in 1 .. m : t[i] = s[i]
        /\ \A i \in m + 1 .. m + n : t[i] = p[i - m]
    <2>1. /\ t \in Seq(Nat) /\ Len(t) = Len(s) + Len(p)
          /\ \A i \in 1 .. Len(s) + Len(p) :
               t[i] = IF i <= Len(s) THEN s[i] ELSE p[i - Len(s)]
      BY <1>2, ConcatProperties
    <2> HIDE DEF t
    <2>2. /\ t \in Seq(Nat) /\ Len(t) = m + n
          /\ \A i \in 1 .. m + n : t[i] = IF i <= m THEN s[i] ELSE p[i - m]
      BY <1>1, <1>2, <2>1
    <2>3. ASSUME NEW i \in 1 .. m PROVE t[i] = s[i]
      BY <2>2
    <2>4. ASSUME NEW i \in m + 1 .. m + n PROVE t[i] = p[i - m]
      <3>1. i \in 1 .. m + n /\ ~(i <= m)
        OBVIOUS
      <3> QED BY <2>2, <3>1
    <2> QED BY <2>2, <2>3, <2>4
  <1> HIDE DEF t
  <1>4. \A i \in m + 1 .. m + n : t[i] = k + (i - m)
    BY <1>2, <1>3
  <1>5. /\ \A i \in 1 .. m : s[i] \in 0 .. k
        /\ \A b \in 1 .. k : \E i \in 1 .. m : s[i] = b
        /\ \A i, j \in 1 .. m : i < j /\ s[i] # 0 /\ s[j] # 0 => s[i] < s[j]
    BY <1>1 DEF InOrder
  <1>6. \A i \in 1 .. m + n : t[i] \in 0 .. k + n
    <2> SUFFICES ASSUME NEW i \in 1 .. m + n PROVE t[i] \in 0 .. k + n
      OBVIOUS
    <2>1. CASE i \in 1 .. m
      <3>1. t[i] \in 0 .. k
        BY <1>3, <1>5, <2>1
      <3> QED BY <3>1
    <2>2. CASE i \in m + 1 .. m + n
      <3>1. t[i] = k + (i - m)
        BY <1>4, <2>2
      <3> QED BY <2>2, <3>1
    <2> QED BY <2>1, <2>2
  <1>7. \A b \in 1 .. k + n : \E i \in 1 .. m + n : t[i] = b
    <2> SUFFICES ASSUME NEW b \in 1 .. k + n PROVE \E i \in 1 .. m + n : t[i] = b
      OBVIOUS
    <2>1. CASE b \in 1 .. k
      <3>1. PICK i \in 1 .. m : s[i] = b
        BY <1>5, <2>1
      <3>2. i \in 1 .. m + n /\ t[i] = b
        BY <1>3, <3>1
      <3> QED BY <3>2
    <2>2. CASE b \in k + 1 .. k + n
      <3>1. m + (b - k) \in m + 1 .. m + n /\ m + (b - k) \in 1 .. m + n
        BY <2>2
      <3>2. t[m + (b - k)] = b
        BY <1>4, <2>2, <3>1
      <3> QED BY <3>1, <3>2
    <2> QED BY <2>1, <2>2
  <1>8. \A i, j \in 1 .. m + n : i < j /\ t[i] # 0 /\ t[j] # 0 => t[i] < t[j]
    <2> SUFFICES ASSUME NEW i \in 1 .. m + n, NEW j \in 1 .. m + n,
                        i < j, t[i] # 0, t[j] # 0
                 PROVE  t[i] < t[j]
      OBVIOUS
    <2>1. CASE j \in 1 .. m
      <3>1. i \in 1 .. m /\ t[i] = s[i] /\ t[j] = s[j]
        BY <1>3, <2>1
      <3> QED BY <1>5, <2>1, <3>1
    <2>2. CASE i \in 1 .. m /\ j \in m + 1 .. m + n
      <3>1. t[i] \in 0 .. k
        BY <1>3, <1>5, <2>2
      <3>2. t[j] = k + (j - m)
        BY <1>4, <2>2
      <3> QED BY <2>2, <3>1, <3>2
    <2>3. CASE i \in m + 1 .. m + n
      <3>1. j \in m + 1 .. m + n
        BY <2>3
      <3>2. t[i] = k + (i - m) /\ t[j] = k + (j - m)
        BY <1>4, <2>3, <3>1
      <3> QED BY <3>2
    <2> QED BY <2>1, <2>2, <2>3
  <1>9. InOrder(t, k + n)
    BY <1>3, <1>6, <1>7, <1>8 DEF InOrder
  <1> QED BY <1>1, <1>3, <1>9 DEF t, p

(* A line of another thread takes nothing from this one. *)
LEMMA StrangersBetween ==
    ASSUME NEW s \in Seq(Nat), NEW k \in Nat, InOrder(s, k)
    PROVE  Append(s, 0) \in Seq(Nat) /\ InOrder(Append(s, 0), k)
  <1> DEFINE t == Append(s, 0)
  <1>1. PICK m \in Nat : m = Len(s)
    OBVIOUS
  <1>2. /\ t \in Seq(Nat) /\ Len(t) = m + 1 /\ t[m + 1] = 0
        /\ \A i \in 1 .. m : t[i] = s[i]
    BY <1>1, AppendFacts
  <1> HIDE DEF t
  <1>3. /\ \A i \in 1 .. m : s[i] \in 0 .. k
        /\ \A b \in 1 .. k : \E i \in 1 .. m : s[i] = b
        /\ \A i, j \in 1 .. m : i < j /\ s[i] # 0 /\ s[j] # 0 => s[i] < s[j]
    BY <1>1 DEF InOrder
  <1>4. \A i \in 1 .. m + 1 : i \in 1 .. m \/ i = m + 1
    OBVIOUS
  <1>5. \A i \in 1 .. m + 1 : t[i] \in 0 .. k
    <2> SUFFICES ASSUME NEW i \in 1 .. m + 1 PROVE t[i] \in 0 .. k
      OBVIOUS
    <2>1. CASE i \in 1 .. m
      BY <1>2, <1>3, <2>1
    <2>2. CASE i = m + 1
      BY <1>2, <2>2
    <2> QED BY <1>4, <2>1, <2>2
  <1>6. \A b \in 1 .. k : \E i \in 1 .. m + 1 : t[i] = b
    <2> SUFFICES ASSUME NEW b \in 1 .. k PROVE \E i \in 1 .. m + 1 : t[i] = b
      OBVIOUS
    <2>1. PICK i \in 1 .. m : s[i] = b
      BY <1>3
    <2>2. i \in 1 .. m + 1 /\ t[i] = b
      BY <1>2, <2>1
    <2> QED BY <2>2
  <1>7. \A i, j \in 1 .. m + 1 : i < j /\ t[i] # 0 /\ t[j] # 0 => t[i] < t[j]
    BY <1>2, <1>3, <1>4
  <1>8. InOrder(t, k)
    BY <1>2, <1>5, <1>6, <1>7 DEF InOrder
  <1> QED BY <1>2, <1>8 DEF t

(* A line that starts, with prefix and message of any size *)
LEMMA EmitLineStarts ==
    ASSUME NEW n \in Nat, EmitLine(n) PROVE LineInv'
  <1>1. PICK p \in PrefixSizes :
           bytes' = Cut(p + n + 1).len /\ newline' = Cut(p + n + 1).newline
    BY DEF EmitLine
  <1>2. p \in Nat /\ LineBytes \in Nat /\ LineBytes > 1
    BY LineAssumption DEF LineAssumption
  <1>3. bytes' \in Nat /\ newline' = bytes' /\ bytes' < LineBytes
    BY <1>1, <1>2 DEF Cut
  <1>4. stage' = "write" /\ off' = 0 /\ wire' = <<>> /\ short' = FALSE
    BY DEF EmitLine
  <1>5. wire' \in Seq(Nat) /\ Len(wire') = 0
    BY <1>4
  <1>6. InOrder(wire', off')
    BY <1>4, <1>5 DEF InOrder
  <1>7. short' \in BOOLEAN
    BY Zenon DEF EmitLine
  <1>8. stage' \in {"none", "write", "written", "failed"} /\ stage' # "written"
    BY <1>4
  <1> QED BY <1>3, <1>4, <1>5, <1>6, <1>7, <1>8 DEF LineInv

(* One write(2) *)
LEMMA WriteKeeps ==
    ASSUME LineInv, NEW n \in 1 .. LineBytes, Write(n) PROVE LineInv'
  <1>1. LineBytes \in Nat
    BY LineAssumption DEF LineAssumption
  <1>2. /\ bytes \in Nat /\ off \in Nat /\ wire \in Seq(Nat) /\ off <= bytes
        /\ newline = bytes /\ bytes < LineBytes /\ InOrder(wire, off)
        /\ ~short => Len(wire) = off /\ (stage = "write" => off = 0)
    BY DEF LineInv
  <1>3. /\ stage = "write" /\ n <= bytes - off
        /\ wire' = wire \o [i \in 1 .. n |-> off + i]
        /\ off' = off + n /\ bytes' = bytes /\ newline' = newline
        /\ stage' = IF off' = bytes THEN "written" ELSE "write"
    BY DEF Write
  <1>4. wire' \in Seq(Nat) /\ Len(wire') = Len(wire) + n /\ InOrder(wire', off + n)
    BY <1>1, <1>2, <1>3, NextBytes
  <1>5. short' \in BOOLEAN /\ (~short' => ~short /\ ~(n < bytes - off))
    BY Zenon DEF Write
  <1>6. ~short' => /\ Len(wire') = off'
                   /\ stage' = "write" => off' = 0
    <2> SUFFICES ASSUME ~short' PROVE Len(wire') = off' /\ stage' # "write"
      OBVIOUS
    <2>1. Len(wire) = off /\ ~(n < bytes - off)
      BY <1>2, <1>5
    <2>2. off + n = bytes
      BY <1>1, <1>2, <1>3, <2>1
    <2> QED BY <1>3, <1>4, <2>1, <2>2
  <1>7. /\ off' \in Nat /\ off' <= bytes' /\ stage' \in {"write", "written"}
        /\ stage' = "written" => off' = bytes'
    BY <1>1, <1>2, <1>3
  <1> QED BY <1>2, <1>3, <1>4, <1>5, <1>6, <1>7 DEF LineInv

(* Before and after a line *)
LEMMA NoLineYet == NoLine => LineInv
  <1> SUFFICES ASSUME NoLine PROVE LineInv
    OBVIOUS
  <1>1. LineBytes \in Nat /\ LineBytes > 1
    BY LineAssumption DEF LineAssumption
  <1>2. InOrder(<<>>, 0) /\ Len(<<>>) = 0 /\ <<>> \in Seq(Nat)
    BY DEF InOrder
  <1>3. short \in BOOLEAN
    BY Zenon DEF NoLine
  <1>4. /\ stage = "none" /\ bytes = 0 /\ off = 0 /\ newline = 0 /\ wire = <<>>
    BY DEF NoLine
  <1> QED BY <1>1, <1>2, <1>3, <1>4 DEF LineInv

LEMMA LineKeeps == ASSUME IInv, LineInv, [LineNext]_lineVars PROVE LineInv'
  <1>1. CASE Event \/ UNCHANGED lineVars
    BY <1>1 DEF Event, lineVars, sink, LineInv
  <1>2. CASE EmitEventImpl
    <2>1. len \in Nat
      BY DEF IInv, TypeOK
    <2> QED BY <1>2, <2>1, EmitLineStarts DEF EmitEventImpl
  <1>3. ASSUME NEW n \in TextSizes, EmitEventDynImpl(n) PROVE LineInv'
    <2>1. Least(n, Cap - 1) \in Nat
      BY PackAssumption, LineAssumption DEF PackAssumption, LineAssumption, Least
    <2> QED BY <1>3, <2>1, EmitLineStarts DEF EmitEventDynImpl
  <1>4. CASE WriteFails
    BY <1>4 DEF WriteFails, LineInv
  <1>5. CASE Others
    <2>1. /\ wire' = Append(wire, 0) /\ wire # <<>> /\ stage = "write"
          /\ UNCHANGED <<stage, bytes, off, newline, short>>
      BY <1>5 DEF Others
    <2>2. wire \in Seq(Nat) /\ off \in Nat /\ InOrder(wire, off)
      BY DEF LineInv
    <2>3. wire' \in Seq(Nat) /\ InOrder(wire', off)
      BY <2>1, <2>2, StrangersBetween
    <2>4. Len(wire) # 0
      BY <2>1, <2>2, EmptyLen
    <2>5. short
      BY <2>1, <2>4 DEF LineInv
    <2> QED BY <2>1, <2>3, <2>5 DEF LineInv
  <1>6. CASE Return
    <2>1. NoLine'
      BY <1>6 DEF Return, NoLine
    <2> QED BY <2>1, NoLineYet, PTL
  <1> QED BY <1>1, <1>2, <1>3, <1>4, <1>5, <1>6, WriteKeeps DEF LineNext

LEMMA LineStarts == LineInit => LineInv
  BY NoLineYet DEF LineInit

(* Whatever the sizes of prefix, message and buffer, however write(2) cuts *)
(* the line up and whoever writes in between: WriteLine returns with the   *)
(* whole line on stderr, its newline last.                                 *)
THEOREM LinesArriveWhole == LineSpec => []LineArrives
  <1>1. LineSpec => []IInv
    BY ConsoleRunsEvents, InvariantHolds, PTL
  <1>2. LineInv => LineArrives
    BY DEF LineInv, LineArrives
  <1> QED BY <1>1, <1>2, LineStarts, LineKeeps, PTL DEF LineSpec
=============================================================================
