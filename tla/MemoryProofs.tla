---------------------------- MODULE MemoryProofs ----------------------------
(***************************************************************************)
(* What a reader in another process or on another machine finds in memory: *)
(* where the objects of a region lie (RegionStorage), what value the bytes *)
(* of a buffer stand for (ByteOrder), and which of a writer's stores it    *)
(* may see once it has seen others (SeqlockFences).                        *)
(***************************************************************************)
EXTENDS RegionStorage, ByteOrder, SeqlockFences, TLAPS

-----------------------------------------------------------------------------
(* Layouts, for every depth, record and cursor. *)

(* RoundUp goes up to a multiple of a, by less than a. *)
LEMMA RoundUpBounds ==
    ASSUME NEW x \in Nat, NEW a \in Nat \ {0}
    PROVE  /\ RoundUp(x, a) \in Nat
           /\ x <= RoundUp(x, a)
           /\ RoundUp(x, a) < x + a
           /\ RoundUp(x, a) % a = 0
<1>1. (x + a - 1) \div a \in Nat
  BY SMT
<1>2. RoundUp(x, a) % a = 0
  <2>1. ASSUME NEW q \in Nat PROVE (a * q) % a = 0
    BY SMT
  <2> QED BY <1>1, <2>1 DEF RoundUp
<1>3. RoundUp(x, a) \in Nat /\ x <= RoundUp(x, a) /\ RoundUp(x, a) < x + a
  BY SMT DEF RoundUp
<1> QED BY <1>2, <1>3

(* What is aligned to a line stays where it is. *)
LEMMA RoundUpAligned ==
    ASSUME NEW x \in Nat, x % 64 = 0
    PROVE  RoundUp(x, 64) = x
BY SMT DEF RoundUp

(* Rounding is relative to any aligned start. *)
LEMMA RoundUpShift ==
    ASSUME NEW x \in Nat, NEW y \in Nat, x % 64 = 0
    PROVE  RoundUp(x + y, 64) = x + RoundUp(y, 64)
BY SMT DEF RoundUp

(* Carve aligns to a cache line at least. *)
LEMMA AlignType ==
    ASSUME NEW alignof \in Nat \ {0}
    PROVE  CarveAlign(alignof) \in Nat \ {0} /\ CarveAlign(alignof) >= 64
BY DEF CarveAlign, kCacheLine

(* The bytes of an array are a natural number. *)
LEMMA ProductType ==
    ASSUME NEW sizeof \in Nat, NEW count \in Nat
    PROVE  sizeof * count \in Nat
BY SMT

(* An object that RegionStorage::Carve places starts where the cursor was  *)
(* or later, on its alignment, less than one alignment away, and ends at   *)
(* the new cursor: whatever is carved one after the other never overlaps.  *)
THEOREM CarvesAreDisjoint ==
    ASSUME NEW cursor \in Nat, NEW alignof \in Nat \ {0},
           NEW sizeof \in Nat, NEW count \in Nat
    PROVE  LET c == Carve(cursor, alignof, sizeof, count) IN
           /\ c.at \in Nat /\ c.cursor \in Nat
           /\ cursor <= c.at /\ c.at < cursor + CarveAlign(alignof)
           /\ c.at % CarveAlign(alignof) = 0
           /\ c.cursor = c.at + sizeof * count
<1> DEFINE a == CarveAlign(alignof)
           at == RoundUp(cursor, a)
<1>1. a \in Nat \ {0}
  BY AlignType
<1>2. /\ at \in Nat /\ cursor <= at /\ at < cursor + a /\ at % a = 0
  <2> HIDE DEF a
  <2> QED BY <1>1, RoundUpBounds
<1>3. sizeof * count \in Nat
  BY ProductType
<1>4. /\ Carve(cursor, alignof, sizeof, count).at = at
      /\ Carve(cursor, alignof, sizeof, count).cursor = at + sizeof * count
  BY DEF Carve
<1>5. at + sizeof * count \in Nat
  <2> HIDE DEF at
  <2> QED BY <1>2, <1>3
<1> HIDE DEF a, at
<1> QED BY <1>1, <1>2, <1>3, <1>4, <1>5 DEF a

(* "StorageBytes() is exactly the bytes those two carves consume from a    *)
(* 64-aligned start": a region of that size holds the ring, its first word *)
(* is cell 0's sequence, and the header with the cursor begins on a line   *)
(* of its own after the last cell.                                         *)
THEOREM StorageBytesExact ==
    ASSUME NEW cursor \in Nat, cursor % 64 = 0,
           NEW depth \in Nat \ {0}, NEW words \in Nat \ {0}
    PROVE  LET r == RingLayout(cursor, depth, words) IN
           /\ r.used = cursor + StorageBytes(depth, words)
           /\ r.cells = cursor
           /\ r.cells + CellBytes(words) * depth <= r.header
           /\ r.header + HeaderBytes = r.used
<1> DEFINE bytes == CellBytes(words) * depth
           cells == Carve(cursor, kWordAlign, CellBytes(words), depth)
           header == Carve(cells.cursor, kWordAlign, HeaderBytes, 1)
<1>1. CellBytes(words) \in Nat
  BY DEF CellBytes, kWordBytes
<1>2. bytes \in Nat
  BY <1>1, ProductType
<1>3. CarveAlign(kWordAlign) = 64
  BY DEF CarveAlign, kWordAlign, kCacheLine
<1>4. cells.at = cursor /\ cells.cursor = cursor + bytes
  <2>1. cells.at = RoundUp(cursor, 64)
    BY <1>3 DEF Carve
  <2>2. cells.cursor = RoundUp(cursor, 64) + bytes
    BY <1>3 DEF Carve
  <2> HIDE DEF cells, bytes
  <2> QED BY <2>1, <2>2, RoundUpAligned
<1>5. header.at = cursor + RoundUp(bytes, 64)
  <2>1. header.at = RoundUp(cells.cursor, 64)
    BY <1>3 DEF Carve
  <2> HIDE DEF cells, bytes, header
  <2> QED BY <2>1, <1>2, <1>4, RoundUpShift
<1>6. header.cursor = header.at + HeaderBytes
  <2>1. header.cursor = header.at + HeaderBytes * 1
    BY DEF Carve
  <2> HIDE DEF header
  <2> QED BY <2>1 DEF HeaderBytes, kWordBytes
<1>7. RoundUp(bytes, 64) \in Nat /\ bytes <= RoundUp(bytes, 64)
  <2> HIDE DEF bytes
  <2> QED BY <1>2, RoundUpBounds
<1>8. StorageBytes(depth, words) = RoundUp(bytes, 64) + HeaderBytes
  BY DEF StorageBytes, kCacheLine
<1>9. /\ RingLayout(cursor, depth, words).cells = cells.at
      /\ RingLayout(cursor, depth, words).header = header.at
      /\ RingLayout(cursor, depth, words).used = header.cursor
  BY DEF RingLayout
<1>10. HeaderBytes \in Nat
  BY DEF HeaderBytes, kWordBytes
<1> DEFINE l == RingLayout(cursor, depth, words)
<1> HIDE DEF cells, header, bytes, l
<1>11. /\ l.used = cursor + StorageBytes(depth, words)
       /\ l.cells = cursor
       /\ l.cells + bytes <= l.header
       /\ l.header + HeaderBytes = l.used
  BY <1>2, <1>4, <1>5, <1>6, <1>7, <1>8, <1>9, <1>10 DEF l
<1> QED BY <1>11 DEF l, bytes

(* A consumer that declared its depth and a producer that attaches with    *)
(* the region's bound find the control block and the records at the same   *)
(* offsets: the control block is carved first, so the depth only moves the *)
(* end.  A creator's records end before those of any larger bound, and a   *)
(* region of the bound's layout holds them all.                            *)
THEOREM QueueViewsAgree ==
    ASSUME NEW cursor \in Nat, NEW sizeof \in Nat, NEW alignof \in Nat \ {0},
           NEW depth \in Nat, NEW bound \in Nat, depth <= bound
    PROVE  LET creator == QueueLayout(cursor, depth, sizeof, alignof)
               attacher == QueueLayout(cursor, bound, sizeof, alignof)
           IN /\ creator.ctrl = attacher.ctrl
              /\ creator.cells = attacher.cells
              /\ creator.ctrl + ControlBytes <= creator.cells
              /\ creator.used <= attacher.used
<1> DEFINE Count(d) == IF d = 0 THEN 1 ELSE d
           ctrl == Carve(cursor, kCacheLine, ControlBytes, 1)
           at == Carve(ctrl.cursor, alignof, sizeof, Count(depth)).at
<1>1. ControlBytes \in Nat /\ kCacheLine \in Nat \ {0}
  BY DEF ControlBytes, kCacheLine
<1>2. ctrl.at \in Nat /\ ctrl.cursor \in Nat
      /\ ctrl.cursor = ctrl.at + ControlBytes * 1
  BY <1>1, CarvesAreDisjoint
<1>3. Count(depth) \in Nat /\ Count(bound) \in Nat /\ Count(depth) <= Count(bound)
  OBVIOUS
<1>4. at \in Nat /\ ctrl.cursor <= at
  <2> HIDE DEF ctrl, Count
  <2> QED BY <1>2, <1>3, CarvesAreDisjoint
<1>5. /\ QueueLayout(cursor, depth, sizeof, alignof).ctrl = ctrl.at
      /\ QueueLayout(cursor, bound, sizeof, alignof).ctrl = ctrl.at
      /\ QueueLayout(cursor, depth, sizeof, alignof).cells = at
      /\ QueueLayout(cursor, bound, sizeof, alignof).cells = at
      /\ QueueLayout(cursor, depth, sizeof, alignof).used
            = at + sizeof * Count(depth)
      /\ QueueLayout(cursor, bound, sizeof, alignof).used
            = at + sizeof * Count(bound)
  BY DEF QueueLayout, Carve
<1>6. sizeof * Count(depth) <= sizeof * Count(bound)
      /\ sizeof * Count(depth) \in Nat /\ sizeof * Count(bound) \in Nat
  <2>1. ASSUME NEW m \in Nat, NEW n \in Nat, m <= n
        PROVE  sizeof * m <= sizeof * n /\ sizeof * m \in Nat /\ sizeof * n \in Nat
    <3>1. sizeof * n = sizeof * m + sizeof * (n - m)
      BY <2>1, SMT
    <3>2. n - m \in Nat
      BY <2>1
    <3>3. sizeof * m \in Nat /\ sizeof * (n - m) \in Nat
      BY <3>2, ProductType
    <3> QED BY <3>1, <3>3, ProductType
  <2> HIDE DEF Count
  <2> QED BY <1>3, <2>1
<1>7. ctrl.at + ControlBytes <= at
  <2> HIDE DEF ctrl, at
  <2> QED BY <1>1, <1>2, <1>4
<1> DEFINE creator == QueueLayout(cursor, depth, sizeof, alignof)
           attacher == QueueLayout(cursor, bound, sizeof, alignof)
<1> HIDE DEF ctrl, at, Count, creator, attacher
<1>8. /\ creator.ctrl = attacher.ctrl
      /\ creator.cells = attacher.cells
      /\ creator.ctrl + ControlBytes <= creator.cells
      /\ creator.used <= attacher.used
  BY <1>4, <1>5, <1>6, <1>7 DEF creator, attacher
<1> QED BY <1>8 DEF creator, attacher

-----------------------------------------------------------------------------
(* Byte order: a value comes back from the wire as it was written, for     *)
(* every value of its width, and no two byte strings stand for the same.  *)

(* Four bytes, the lowest first, and the number they stand for *)
Value(a, b, c, d) == 16777216 * d + 65536 * c + 256 * b + a

(* The last byte of a value, and what is above it *)
LEMMA LastByte ==
    ASSUME NEW v \in Nat
    PROVE  v % 256 = v - 256 * (v \div 256) /\ v \div 256 \in Nat
  BY SMT

(* A shift by two bytes, or by three, is as many shifts by one. *)
LEMMA Shifts ==
    ASSUME NEW v \in Nat
    PROVE  /\ v \div 65536 = (v \div 256) \div 256
           /\ v \div 16777216 = ((v \div 256) \div 256) \div 256
  BY SMT

(* A byte is its own last byte. *)
LEMMA ByteOfByte ==
    ASSUME NEW d \in Nat, d < 256
    PROVE  d % 256 = d
  BY SMT

(* A 32-bit value is the number its four bytes stand for. *)
LEMMA Digits ==
    ASSUME NEW v \in Nat, v \div 16777216 < 256
    PROVE  v = Value(v % 256, (v \div 256) % 256, (v \div 65536) % 256,
                     (v \div 16777216) % 256)
  <1> DEFINE p == v \div 256
             q == p \div 256
             r == q \div 256
  <1>1. v % 256 = v - 256 * p /\ p \in Nat
    BY LastByte
  <1>2. p % 256 = p - 256 * q /\ q \in Nat
    BY <1>1, LastByte
  <1>3. q % 256 = q - 256 * r /\ r \in Nat
    BY <1>2, LastByte
  <1>4. v \div 65536 = q /\ v \div 16777216 = r
    BY Shifts
  <1>5. r % 256 = r
    BY <1>3, <1>4, ByteOfByte
  <1>6. SUFFICES v = Value(v % 256, p % 256, q % 256, r % 256)
    BY <1>4
  <1>7. SUFFICES v = Value(v - 256 * p, p - 256 * q, q - 256 * r, r)
    BY <1>1, <1>2, <1>3, <1>5
  <1> HIDE DEF p, q, r
  <1> QED BY <1>1, <1>2, <1>3 DEF Value

(* The bytes of the number that four bytes stand for are those four. *)
LEMMA Bytes ==
    ASSUME NEW a \in Byte, NEW b \in Byte, NEW c \in Byte, NEW d \in Byte
    PROVE  LET v == Value(a, b, c, d) IN
           /\ v % 256 = a /\ (v \div 256) % 256 = b
           /\ (v \div 65536) % 256 = c /\ (v \div 16777216) % 256 = d
  <1> DEFINE v == Value(a, b, c, d)
  <1>1. v % 256 = a /\ v \div 256 = 65536 * d + 256 * c + b
    BY DEF Byte, Value
  <1>2. (v \div 256) % 256 = b
    BY <1>1 DEF Byte
  <1>3. v \div 65536 = 256 * d + c
    BY DEF Byte, Value
  <1>4. (v \div 65536) % 256 = c
    BY <1>3 DEF Byte
  <1>5. v \div 16777216 = d
    BY DEF Byte, Value
  <1>6. (v \div 16777216) % 256 = d
    BY <1>5 DEF Byte
  <1> QED BY <1>1, <1>2, <1>4, <1>6

(* What store_be16 or store_le16 wrote, the load of the same order reads.  *)
THEOREM RoundTrip16 ==
    ASSUME NEW v \in Nat, v < 65536
    PROVE  load_be16(store_be16(v)) = v /\ load_le16(store_le16(v)) = v
  <1> DEFINE p == v \div 256
  <1>1. v % 256 = v - 256 * p /\ p \in Nat
    BY LastByte
  <1>2. p < 256
    BY SMT
  <1>3. p % 256 = p
    BY <1>1, <1>2, ByteOfByte
  <1>4. v % 256 = v - 256 * p /\ p % 256 = p /\ v \in Nat /\ p \in Nat
    BY <1>1, <1>3
  <1>5. /\ load_be16(<<p % 256, v % 256>>) = v
        /\ load_le16(<<v % 256, p % 256>>) = v
    <2> HIDE DEF p
    <2> QED BY <1>4 DEF load_be16, load_le16
  <1> QED BY <1>5 DEF store_be16, store_le16

(* What store_be32 or store_le32 wrote, the load of the same order reads.  *)
THEOREM RoundTrip32 ==
    ASSUME NEW v \in Nat, v \div 16777216 < 256
    PROVE  load_be32(store_be32(v)) = v /\ load_le32(store_le32(v)) = v
  BY Digits DEF load_be32, store_be32, load_le32, store_le32, Value

(* A store after the load puts the same bytes back, so that no two buffers *)
(* are read as the same value.                                             *)
THEOREM LoadsAreInjective ==
    ASSUME NEW a \in Byte, NEW b \in Byte, NEW c \in Byte, NEW d \in Byte
    PROVE  /\ store_be16(load_be16(<<a, b>>)) = <<a, b>>
           /\ store_le16(load_le16(<<a, b>>)) = <<a, b>>
           /\ store_be32(load_be32(<<a, b, c, d>>)) = <<a, b, c, d>>
           /\ store_le32(load_le32(<<a, b, c, d>>)) = <<a, b, c, d>>
  <1>1. /\ store_be16(load_be16(<<a, b>>)) = <<a, b>>
        /\ store_le16(load_le16(<<a, b>>)) = <<a, b>>
    BY DEF load_be16, store_be16, load_le16, store_le16, Byte
  <1>2. store_be32(load_be32(<<a, b, c, d>>)) = <<a, b, c, d>>
    <2>1. load_be32(<<a, b, c, d>>) = Value(d, c, b, a)
      BY DEF load_be32, Value, Byte
    <2> QED BY <2>1, Bytes DEF store_be32
  <1>3. store_le32(load_le32(<<a, b, c, d>>)) = <<a, b, c, d>>
    <2>1. load_le32(<<a, b, c, d>>) = Value(a, b, c, d)
      BY DEF load_le32, Value, Byte
    <2> QED BY <2>1, Bytes DEF store_le32
  <1> QED BY <1>1, <1>2, <1>3

(* A number that was written as its two's complement is read back as      *)
(* itself by the signed loads of either order and width.                   *)
THEOREM SignedRoundTrip16 ==
    ASSUME NEW x \in Int, -32768 <= x, x < 32768,
           NEW v, v = IF x < 0 THEN x + 65536 ELSE x
    PROVE  load_be16s(store_be16(v)) = x /\ load_le16s(store_le16(v)) = x
  <1>1. v \in Nat /\ v < 65536 /\ Signed16(v) = x
    BY SMT DEF Signed16
  <1>2. load_be16(store_be16(v)) = v /\ load_le16(store_le16(v)) = v
    BY <1>1, RoundTrip16
  <1>3. Signed16(load_be16(store_be16(v))) = x /\ Signed16(load_le16(store_le16(v))) = x
    BY <1>1, <1>2
  <1> QED BY <1>3 DEF load_be16s, load_le16s

(* The same for 32 bits *)
THEOREM SignedRoundTrip32 ==
    ASSUME NEW x \in Int, -(32768 * 65536) <= x, x < 32768 * 65536,
           NEW v, v = IF x < 0 THEN x + 65536 * 65536 ELSE x
    PROVE  load_be32s(store_be32(v)) = x /\ load_le32s(store_le32(v)) = x
  <1>1. v \in Nat /\ v < 65536 * 65536 /\ Signed32(v) = x
    BY SMT DEF Signed32
  <1>2. v \div 16777216 < 256
    BY <1>1, SMT
  <1>3. load_be32(store_be32(v)) = v /\ load_le32(store_le32(v)) = v
    BY <1>1, <1>2, RoundTrip32
  <1>4. Signed32(load_be32(store_be32(v))) = x /\ Signed32(load_le32(store_le32(v))) = x
    BY <1>1, <1>3
  <1> QED BY <1>4 DEF load_be32s, load_le32s

-----------------------------------------------------------------------------
(* The fences of the seqlock, for any number of cells and words. *)

Entry == [val : Nat, view : Views]

(* Two positions of one cell are a lap apart. *)
LEMMA LapApart ==
    ASSUME NEW p \in Nat, NEW q \in Nat, p < q, CellOf(p) = CellOf(q)
    PROVE  p + N <= q
  <1> DEFINE a == p \div N
             b == q \div N
  <1>1. N \in Nat /\ N > 0
    BY FenceAssumption
  <1>2. a \in Nat /\ b \in Nat /\ p = N * a + (p % N) /\ q = N * b + (q % N)
    BY <1>1
  <1>3. N * a < N * b
    BY <1>1, <1>2 DEF CellOf
  <1> HIDE DEF a, b
  <1>4. a < b
    <2> SUFFICES ASSUME b <= a PROVE FALSE
      BY <1>2
    <2>1. PICK d \in Nat : a = b + d
      BY <1>2
    <2>2. N * a = N * b + N * d /\ N * d \in Nat /\ N * b \in Nat
      BY <1>1, <1>2, <2>1
    <2> QED BY <1>3, <2>2
  <1>5. PICK d \in Nat : b = a + 1 + d
    <2>1. b - a - 1 \in Nat
      BY <1>2, <1>4
    <2> QED BY <1>2, <2>1
  <1>6. N * b = N * a + N + N * d /\ N * d \in Nat /\ N * a \in Nat
    BY <1>1, <1>2, <1>5
  <1>7. N * a + N <= N * b
    BY <1>1, <1>6
  <1>8. p % N = q % N /\ p % N \in Nat /\ N * b \in Nat
    BY <1>1, <1>2 DEF CellOf
  <1> QED BY <1>1, <1>2, <1>6, <1>7, <1>8

LEMMA CellInRing == \A p \in Nat : CellOf(p) \in Cells
  BY FenceAssumption DEF CellOf, Cells

(* The atomics are many. *)
LEMMA Names ==
    /\ Cursor \in Atomics
    /\ \A k \in Cells : SeqOf(k) \in Atomics /\ IndexOf(k) \in Atomics
    /\ \A k \in Cells, w \in WordIds : WordOf(k, w) \in Atomics
    /\ \A k \in Cells : SeqOf(k) # Cursor /\ IndexOf(k) # Cursor
    /\ \A k, j \in Cells : SeqOf(k) # IndexOf(j)
    /\ \A k, j \in Cells, w \in WordIds :
         WordOf(k, w) # SeqOf(j) /\ WordOf(k, w) # IndexOf(j) /\ WordOf(k, w) # Cursor
    /\ \A k, j \in Cells : SeqOf(k) = SeqOf(j) => k = j
    /\ \A k, j \in Cells : IndexOf(k) = IndexOf(j) => k = j
    /\ \A k, j \in Cells, w, v \in WordIds :
         WordOf(k, w) = WordOf(j, v) => k = j /\ w = v
  BY DEF Atomics, Cursor, SeqOf, IndexOf, WordOf

-----------------------------------------------------------------------------
(* Views. *)

LEMMA JoinIsAbove ==
    ASSUME NEW v \in Views, NEW u \in Views
    PROVE  /\ Join(v, u) \in Views
           /\ \A a \in Atomics : Join(v, u)[a] >= v[a] /\ Join(v, u)[a] >= u[a]
  BY DEF Join, Views

LEMMA EverythingType ==
    ASSUME TypeOK PROVE Everything \in Views /\ \A a \in Atomics : Everything[a] = Size(a)
  BY DEF TypeOK, Everything, Views, Size

LEMMA EntryType ==
    ASSUME TypeOK, NEW a \in Atomics, NEW t \in 1 .. Size(a)
    PROVE  mem[a][t] \in Entry /\ Val(a, t) \in Nat /\ Seen(a, t) \in Views
  <1>1. mem[a] \in Seq(Entry)
    BY DEF TypeOK, Entry
  <1>2. mem[a][t] \in Entry
    <2> HIDE DEF Entry
    <2> QED BY <1>1 DEF Size
  <1> QED BY <1>2 DEF Entry, Val, Seen

LEMMA SizeType == ASSUME TypeOK, NEW a \in Atomics PROVE Size(a) \in Nat \ {0}
  BY DEF TypeOK, Size

(* One more entry of one atomic *)
Grown(a, val, seen) ==
    /\ mem' \in [Atomics -> Seq(Entry)]
    /\ \A b \in Atomics \ {a} : mem'[b] = mem[b]
    /\ Len(mem'[a]) = Size(a) + 1
    /\ \A t \in 1 .. Size(a) : mem'[a][t] = mem[a][t]
    /\ mem'[a][Size(a) + 1].val = val /\ mem'[a][Size(a) + 1].view[a] = Size(a) + 1
    /\ \A b \in Atomics \ {a} : mem'[a][Size(a) + 1].view[b] = seen[b]

LEMMA PutGrows ==
    ASSUME TypeOK, NEW a \in Atomics, NEW val \in Nat, NEW seen \in Views,
           Put(a, val, seen)
    PROVE  Grown(a, val, seen)
  <1> DEFINE view == [seen EXCEPT ![a] = Len(mem[a]) + 1]
             e == [val |-> val, view |-> view]
  <1>0. mem \in [Atomics -> Seq(Entry)]
    BY DEF TypeOK, Entry
  <1>1. /\ mem \in [Atomics -> Seq(Entry)] /\ mem[a] \in Seq(Entry)
        /\ Size(a) \in Nat /\ Size(a) = Len(mem[a])
    BY <1>0, SizeType DEF Size
  <1>2. /\ view \in Views /\ view[a] = Size(a) + 1
        /\ \A b \in Atomics \ {a} : view[b] = seen[b]
    BY <1>1 DEF Views
  <1>3. e \in Entry /\ e.val = val /\ e.view = view
    BY <1>2 DEF Entry
  <1>4. mem' = [mem EXCEPT ![a] = Append(mem[a], e)]
    BY DEF Put
  <1> HIDE DEF Entry, e, view
  <1>5. /\ Append(mem[a], e) \in Seq(Entry) /\ Len(Append(mem[a], e)) = Size(a) + 1
        /\ \A t \in 1 .. Size(a) : Append(mem[a], e)[t] = mem[a][t]
        /\ Append(mem[a], e)[Size(a) + 1] = e
    BY <1>1, <1>3 DEF Size
  <1>6. mem'[a] = Append(mem[a], e) /\ \A b \in Atomics \ {a} : mem'[b] = mem[b]
    BY <1>1, <1>4
  <1>7. mem' \in [Atomics -> Seq(Entry)]
    BY <1>1, <1>4, <1>5
  <1> QED BY <1>2, <1>3, <1>5, <1>6, <1>7 DEF Grown

(* Nothing that was stored is ever taken back. *)
Kept ==
    \A b \in Atomics : /\ Size(b)' \in Nat /\ Size(b)' >= Size(b)
                       /\ \A t \in 1 .. Size(b) : mem'[b][t] = mem[b][t]

LEMMA GrownKept ==
    ASSUME TypeOK, NEW a \in Atomics, NEW val, NEW seen, Grown(a, val, seen)
    PROVE  Kept
  <1> SUFFICES ASSUME NEW b \in Atomics
               PROVE  /\ Len(mem'[b]) \in Nat /\ Len(mem'[b]) >= Len(mem[b])
                      /\ \A t \in 1 .. Len(mem[b]) : mem'[b][t] = mem[b][t]
    BY DEF Kept, Size
  <1>1. Len(mem[b]) \in Nat
    BY SizeType DEF Size
  <1> QED BY <1>1 DEF Grown, Size

-----------------------------------------------------------------------------
(* What the writer's own last stores are. *)

LEMMA Published ==
    ASSUME IInv
    PROVE  /\ Latest(Cursor) = Size(Cursor) - 1 /\ Latest(Cursor) \in Nat
           /\ wCell \in Cells /\ wCell = CellOf(Latest(Cursor))
           /\ Latest(Cursor) = IF wpc = "idle" THEN stores ELSE stores - 1
  <1>1. Size(Cursor) \in Nat \ {0} /\ stores \in Nat
    BY SizeType, Names DEF IInv, TypeOK
  <1>2. Latest(Cursor) = Size(Cursor) - 1
    <2>1. Size(Cursor) \in 1 .. Size(Cursor)
      BY <1>1
    <2>2. Val(Cursor, Size(Cursor)) = Size(Cursor) - 1
      BY <2>1 DEF IInv, CursorInv
    <2> QED BY <2>2 DEF Latest, Size, Val
  <1>3. Latest(Cursor) \in Nat
    BY <1>1, <1>2
  <1>4. Latest(Cursor) = IF wpc = "idle" THEN stores ELSE stores - 1
    BY <1>1, <1>2 DEF IInv, CursorInv
  <1> QED BY <1>2, <1>3, <1>4, CellInRing DEF wCell

LEMMA LatestSeq ==
    ASSUME IInv, NEW k \in Cells
    PROVE  Latest(SeqOf(k)) = Size(SeqOf(k)) - 1 /\ Latest(SeqOf(k)) \in Nat
  <1>1. Size(SeqOf(k)) \in Nat \ {0}
    BY SizeType, Names DEF IInv
  <1>2. Size(SeqOf(k)) \in 1 .. Size(SeqOf(k))
    BY <1>1
  <1>3. Val(SeqOf(k), Size(SeqOf(k))) = Size(SeqOf(k)) - 1
    BY <1>2 DEF IInv, ValueInv
  <1> QED BY <1>1, <1>3 DEF Latest, Size, Val

-----------------------------------------------------------------------------
(* What a reader knows stays true while the writer goes on. *)

(* Sees, once the step is taken *)
SeesNext(view, c) ==
    \A p \in 0 .. c - 1 :
        \E t \in 2 .. Len(mem'[IndexOf(CellOf(p))]) :
            /\ mem'[IndexOf(CellOf(p))][t].val = p
            /\ view[SeqOf(CellOf(p))] >= 2 * t - 1

LEMMA SeesKept ==
    ASSUME TypeOK, Kept, NEW c \in Nat, NEW v \in Views, NEW u \in Views,
           \A a \in Atomics : u[a] >= v[a], Sees(v, c)
    PROVE  SeesNext(u, c)
  <1> SUFFICES ASSUME NEW p \in 0 .. c - 1
               PROVE  \E t \in 2 .. Len(mem'[IndexOf(CellOf(p))]) :
                        /\ mem'[IndexOf(CellOf(p))][t].val = p
                        /\ u[SeqOf(CellOf(p))] >= 2 * t - 1
    BY DEF SeesNext
  <1>1. PICK k \in Cells : k = CellOf(p)
    BY CellInRing
  <1>2. IndexOf(k) \in Atomics /\ SeqOf(k) \in Atomics
    BY Names
  <1>3. PICK t \in 2 .. Size(IndexOf(k)) :
           Val(IndexOf(k), t) = p /\ v[SeqOf(k)] >= 2 * t - 1
    BY <1>1 DEF Sees
  <1>4. /\ Size(IndexOf(k)) \in Nat /\ Len(mem'[IndexOf(k)]) \in Nat
        /\ Len(mem'[IndexOf(k)]) >= Size(IndexOf(k))
    BY <1>2, SizeType DEF Kept, Size
  <1>5. t \in 1 .. Size(IndexOf(k)) /\ mem'[IndexOf(k)][t].val = p
    BY <1>2, <1>3, <1>4 DEF Kept, Val
  <1>6. t \in 2 .. Len(mem'[IndexOf(k)])
    BY <1>3, <1>4
  <1>7. u[SeqOf(k)] >= 2 * t - 1
    <2>1. u[SeqOf(k)] \in Nat /\ v[SeqOf(k)] \in Nat /\ u[SeqOf(k)] >= v[SeqOf(k)]
      BY <1>2 DEF Views
    <2> QED BY <1>3, <1>4, <2>1
  <1> QED BY <1>1, <1>3, <1>4, <1>5, <1>6, <1>7

LEMMA ReaderKept ==
    ASSUME IInv, TypeOK', Kept, UNCHANGED <<rd, cur, acq>>, stores <= stores'
    PROVE  ReaderInv' /\ FencedReadsAreWhole' /\ LossesAreLaps'
  <1>0. /\ rd.c \in Nat /\ rd.i \in Nat /\ stores \in Nat /\ stores' \in Nat
        /\ cur \in Views /\ acq \in Views /\ TypeOK /\ ReaderInv /\ N \in Nat
    BY FenceAssumption DEF IInv, TypeOK
  <1>1. FencedReadsAreWhole' /\ LossesAreLaps'
    BY <1>0 DEF IInv, FencedReadsAreWhole, LossesAreLaps, Want
  <1>2. rd.pc \notin {"idle", "cursor"} => Sees(cur, rd.c)'
    <2> SUFFICES ASSUME rd.pc \notin {"idle", "cursor"} PROVE Sees(cur, rd.c)'
      OBVIOUS
    <2>1. Sees(cur, rd.c) /\ \A a \in Atomics : cur[a] >= cur[a]
      BY <1>0 DEF ReaderInv, Views
    <2>2. SeesNext(cur, rd.c)
      BY <1>0, <2>1, SeesKept
    <2> QED BY <2>2 DEF Sees, SeesNext, Size, Val
  <1>3. CASE rd.pc \in {"idle", "cursor", "seq"}
    BY <1>0, <1>1, <1>2, <1>3 DEF ReaderInv
  <1>4. CASE rd.pc \in {"index", "words", "fence", "validate"}
    <2>1. PICK k \in Cells : k = WantCell(rd)
      BY <1>0, <1>4, CellInRing DEF ReaderInv, WantCell, Want
    <2>2. /\ IndexOf(k) \in Atomics /\ SeqOf(k) \in Atomics
          /\ \A w \in WordIds : WordOf(k, w) \in Atomics
      BY Names
    <2>3. ASSUME NEW a \in Atomics, NEW t \in 2 .. Size(a)
          PROVE  t \in 2 .. Size(a)' /\ Val(a, t)' = Val(a, t)
      <3>1. Size(a) \in Nat /\ Size(a)' \in Nat /\ Size(a)' >= Size(a)
        BY <1>0, SizeType DEF Kept, TypeOK, Size
      <3>2. t \in 1 .. Size(a)
        BY <3>1
      <3>3. mem'[a][t] = mem[a][t]
        BY <3>2 DEF Kept
      <3> QED BY <3>1, <3>3 DEF Val
    <2>4. SeqRead(k)'
      <3>1. SeqRead(k)
        BY <1>0, <1>4, <2>1 DEF ReaderInv
      <3>2. PICK t \in 2 .. Size(IndexOf(k)) :
               Val(IndexOf(k), t) = Want(rd) /\ rd.s1 >= 2 * t - 2
        BY <3>1 DEF SeqRead
      <3>3. t \in 2 .. Size(IndexOf(k))' /\ Val(IndexOf(k), t)' = Want(rd)
        BY <2>2, <2>3, <3>2
      <3> QED BY <3>1, <3>2, <3>3 DEF SeqRead, Want
    <2>5. IndexRead(k) => IndexRead(k)'
      <3> SUFFICES ASSUME IndexRead(k) PROVE IndexRead(k)'
        OBVIOUS
      <3>1. PICK t \in 2 .. Size(IndexOf(k)) :
               Val(IndexOf(k), t) = rd.idx /\ 2 * t >= rd.s1 + 2
        BY DEF IndexRead
      <3>2. t \in 2 .. Size(IndexOf(k))' /\ Val(IndexOf(k), t)' = rd.idx
        BY <2>2, <2>3, <3>1
      <3> QED BY <3>1, <3>2 DEF IndexRead
    <2>6. ASSUME NEW w \in WordIds
          PROVE  /\ WordRead(k, w, acq) => WordRead(k, w, acq)'
                 /\ WordRead(k, w, cur) => WordRead(k, w, cur)'
      <3>1. ASSUME NEW v, WordRead(k, w, v)
            PROVE  \E t \in 2 .. Size(WordOf(k, w))' :
                     /\ Val(WordOf(k, w), t)' = rd.staged[w] /\ 2 * t >= rd.s1 + 2
                     /\ v[SeqOf(k)] >= 2 * t - 2
        <4>1. PICK t \in 2 .. Size(WordOf(k, w)) :
                 /\ Val(WordOf(k, w), t) = rd.staged[w] /\ 2 * t >= rd.s1 + 2
                 /\ v[SeqOf(k)] >= 2 * t - 2
          BY <3>1 DEF WordRead
        <4>2. t \in 2 .. Size(WordOf(k, w))' /\ Val(WordOf(k, w), t)' = rd.staged[w]
          BY <2>2, <2>3, <4>1
        <4> QED BY <4>1, <4>2
      <3> QED BY <3>1 DEF WordRead
    <2>7. ReaderInv /\ WantCell(rd)' = k /\ WantCell(rd) = k
      BY <1>0, <2>1 DEF WantCell, Want
    <2> QED BY <1>1, <1>2, <1>4, <2>4, <2>5, <2>6, <2>7 DEF ReaderInv
  <1> QED BY <1>0, <1>1, <1>3, <1>4 DEF TypeOK

-----------------------------------------------------------------------------
(* The writer's steps. *)

LEMMA WriterParts ==
    ASSUME IInv
    PROVE  /\ TypeOK /\ CursorInv /\ SizeInv /\ ValueInv /\ WriterInv /\ ViewInv
           /\ stores \in Nat /\ frel \in Views /\ wWord \in WordIds
           /\ N \in Nat \ {0} /\ kWords \in Nat \ {0}
  BY FenceAssumption DEF IInv, TypeOK

(* A store makes a state of the right type. *)
LEMMA StoreType ==
    ASSUME TypeOK, NEW a \in Atomics, NEW val, NEW seen, Grown(a, val, seen),
           UNCHANGED <<frel, rd, cur, acq>>, wWord' \in WordIds, stores' \in Nat,
           wpc' \in {"idle", "fence", "index", "words", "even", "publish"}
    PROVE  TypeOK'
  <1>1. \A b \in Atomics : Len(mem'[b]) > 0
    BY SizeType DEF Grown, Size
  <1>2. mem' \in [Atomics -> Seq([val : Nat, view : Views])]
    BY DEF Grown, Entry
  <1> QED BY <1>1, <1>2 DEF TypeOK

LEMMA CursorKept ==
    ASSUME mem'[Cursor] = mem[Cursor]
    PROVE  /\ Latest(Cursor)' = Latest(Cursor) /\ wCell' = wCell
           /\ Size(Cursor)' = Size(Cursor)
           /\ \A t : Val(Cursor, t)' = Val(Cursor, t) /\ Seen(Cursor, t)' = Seen(Cursor, t)
  BY DEF Latest, wCell, Size, Val, Seen

(* What the cursor promises is kept. *)
LEMMA CursorViewsKept ==
    ASSUME TypeOK, ViewInv, Kept, NEW t \in 1 .. Size(Cursor)
    PROVE  SeesNext(Seen(Cursor, t), t - 1)
  <1>1. Seen(Cursor, t) \in Views
    BY EntryType, Names
  <1>2. \A a \in Atomics : Seen(Cursor, t)[a] >= Seen(Cursor, t)[a]
    BY <1>1 DEF Views
  <1>3. Sees(Seen(Cursor, t), t - 1)
    BY DEF ViewInv
  <1>4. t - 1 \in Nat
    BY SizeType, Names
  <1> QED BY <1>1, <1>2, <1>3, <1>4, SeesKept

(* Unless the cursor is stored, its part of ViewInv is kept. *)
LEMMA CursorViews ==
    ASSUME TypeOK, ViewInv, Kept, mem'[Cursor] = mem[Cursor]
    PROVE  \A t \in 1 .. Size(Cursor)' : Sees(Seen(Cursor, t), t - 1)'
  <1> SUFFICES ASSUME NEW t \in 1 .. Size(Cursor)' PROVE Sees(Seen(Cursor, t), t - 1)'
    OBVIOUS
  <1>1. t \in 1 .. Size(Cursor) /\ Seen(Cursor, t)' = Seen(Cursor, t)
    BY CursorKept
  <1>2. SeesNext(Seen(Cursor, t), t - 1)
    BY <1>1, CursorViewsKept
  <1> QED BY <1>1, <1>2 DEF Sees, SeesNext, Size, Val

(* A store is seen with itself. *)
LEMMA OwnViews ==
    ASSUME TypeOK, ViewInv, NEW a \in Atomics, NEW val, NEW seen, Grown(a, val, seen)
    PROVE  \A b \in Atomics : \A t \in 1 .. Size(b)' : Seen(b, t)'[b] >= t
  <1> SUFFICES ASSUME NEW b \in Atomics, NEW t \in 1 .. Size(b)'
               PROVE  Seen(b, t)'[b] >= t
    OBVIOUS
  <1>1. CASE b = a /\ t = Size(a) + 1
    <2>1. Size(a) \in Nat
      BY SizeType
    <2> QED BY <1>1, <2>1 DEF Grown, Seen
  <1>2. CASE b = a /\ t # Size(a) + 1
    <2>1. Size(a) \in Nat /\ Size(a)' = Size(a) + 1
      BY SizeType DEF Grown, Size
    <2>2. t \in 1 .. Size(a)
      BY <1>2, <2>1
    <2> QED BY <1>2, <2>2 DEF Grown, Seen, ViewInv
  <1>3. CASE b # a
    BY <1>3 DEF Grown, Seen, Size, ViewInv
  <1> QED BY <1>1, <1>2, <1>3

(* A store to the seq of a cell, odd or even *)
LEMMA SeqValues ==
    ASSUME IInv, NEW k \in Cells, NEW seen, stores' \in Nat, stores <= stores',
           Grown(SeqOf(k), Size(SeqOf(k)), seen)
    PROVE  ValueInv'
  <1>1. /\ \A j \in Cells : IndexOf(j) \in Atomics \ {SeqOf(k)}
        /\ \A j \in Cells : \A w \in WordIds : WordOf(j, w) \in Atomics \ {SeqOf(k)}
        /\ \A j \in Cells \ {k} : SeqOf(j) \in Atomics \ {SeqOf(k)}
        /\ SeqOf(k) \in Atomics
    BY Names
  <1> SUFFICES ASSUME NEW j \in Cells
               PROVE  /\ \A t \in 1 .. Size(SeqOf(j))' : Val(SeqOf(j), t)' = t - 1
                      /\ \A w \in WordIds : \A t \in 2 .. Size(WordOf(j, w))' :
                           Val(WordOf(j, w), t)' = Val(IndexOf(j), t)' + 1
                      /\ \A t \in 2 .. Size(IndexOf(j))' :
                           /\ Val(IndexOf(j), t)' < stores'
                           /\ CellOf(Val(IndexOf(j), t)') = j
                      /\ \A t, u \in 2 .. Size(IndexOf(j))' :
                           t < u => Val(IndexOf(j), t)' + N <= Val(IndexOf(j), u)'
    BY DEF ValueInv, CellOf
  <1>2. mem'[IndexOf(j)] = mem[IndexOf(j)] /\ \A w \in WordIds : mem'[WordOf(j, w)] = mem[WordOf(j, w)]
    BY <1>1 DEF Grown
  <1>3. \A w \in WordIds : \A t \in 2 .. Size(WordOf(j, w))' :
           Val(WordOf(j, w), t)' = Val(IndexOf(j), t)' + 1
    BY <1>2, WriterParts DEF ValueInv, Size, Val
  <1>4. ASSUME NEW t \in 2 .. Size(IndexOf(j))'
        PROVE  Val(IndexOf(j), t)' < stores' /\ CellOf(Val(IndexOf(j), t)') = j
    <2>1. t \in 2 .. Size(IndexOf(j)) /\ Val(IndexOf(j), t)' = Val(IndexOf(j), t)
      BY <1>2 DEF Size, Val
    <2>2. Val(IndexOf(j), t) < stores /\ CellOf(Val(IndexOf(j), t)) = j
      BY <2>1, WriterParts DEF ValueInv
    <2>3. Val(IndexOf(j), t) \in Nat /\ stores \in Nat
      <3>1. t \in 1 .. Size(IndexOf(j))
        BY <1>1, <2>1, SizeType, WriterParts
      <3> QED BY <1>1, <3>1, EntryType, WriterParts
    <2> QED BY <2>1, <2>2, <2>3
  <1>5. \A t, u \in 2 .. Size(IndexOf(j))' :
           t < u => Val(IndexOf(j), t)' + N <= Val(IndexOf(j), u)'
    BY <1>2, WriterParts DEF ValueInv, Size, Val
  <1>6. ASSUME NEW t \in 1 .. Size(SeqOf(j))' PROVE Val(SeqOf(j), t)' = t - 1
    <2>1. CASE j = k /\ t = Size(SeqOf(k)) + 1
      <3>1. Size(SeqOf(k)) \in Nat
        BY <1>1, SizeType, WriterParts
      <3> QED BY <2>1, <3>1 DEF Grown, Val
    <2>2. CASE j = k /\ t # Size(SeqOf(k)) + 1
      <3>1. Size(SeqOf(k)) \in Nat /\ Size(SeqOf(k))' = Size(SeqOf(k)) + 1
        BY <1>1, SizeType, WriterParts DEF Grown, Size
      <3>2. t \in 1 .. Size(SeqOf(k))
        BY <2>2, <3>1
      <3> QED BY <2>2, <3>2, WriterParts DEF Grown, Val, ValueInv
    <2>3. CASE j # k
      <3>1. mem'[SeqOf(j)] = mem[SeqOf(j)]
        BY <1>1, <2>3 DEF Grown
      <3> QED BY <3>1, WriterParts DEF ValueInv, Size, Val
    <2> QED BY <2>1, <2>2, <2>3
  <1> QED BY <1>3, <1>4, <1>5, <1>6

LEMMA SeqSizes ==
    ASSUME IInv, NEW k \in Cells, NEW seen, Grown(SeqOf(k), Size(SeqOf(k)), seen)
    PROVE  /\ Size(SeqOf(k))' = Size(SeqOf(k)) + 1
           /\ \A j \in Cells \ {k} : mem'[SeqOf(j)] = mem[SeqOf(j)]
           /\ \A j \in Cells : mem'[IndexOf(j)] = mem[IndexOf(j)]
           /\ \A j \in Cells, w \in WordIds : mem'[WordOf(j, w)] = mem[WordOf(j, w)]
           /\ mem'[Cursor] = mem[Cursor]
  BY Names DEF Grown, Size

LEMMA OddInv == ASSUME IInv, StoreOdd PROVE IInv'
  <1>1. PICK k \in Cells : k = wCell
    BY Published
  <1>2. /\ wpc = "idle" /\ wpc' = "fence" /\ stores' = stores + 1
        /\ UNCHANGED <<frel, wWord, rd, cur, acq>>
    BY DEF StoreOdd, WriterStep
  <1>3. Grown(SeqOf(k), Size(SeqOf(k)), frel)
    <2>1. Put(SeqOf(k), Latest(SeqOf(k)) + 1, frel)
      BY <1>1 DEF StoreOdd, StoreRelaxed
    <2>2. Latest(SeqOf(k)) + 1 = Size(SeqOf(k)) /\ Size(SeqOf(k)) \in Nat
      BY LatestSeq, SizeType, Names, WriterParts
    <2>3. Put(SeqOf(k), Size(SeqOf(k)), frel)
      BY <2>1, <2>2
    <2> QED BY <2>2, <2>3, PutGrows, Names, WriterParts
  <1>4. Kept /\ TypeOK'
    BY <1>2, <1>3, GrownKept, StoreType, Names, WriterParts
  <1>5. /\ Size(SeqOf(k))' = Size(SeqOf(k)) + 1
        /\ \A j \in Cells \ {k} : mem'[SeqOf(j)] = mem[SeqOf(j)]
        /\ \A j \in Cells : mem'[IndexOf(j)] = mem[IndexOf(j)]
        /\ \A j \in Cells, w \in WordIds : mem'[WordOf(j, w)] = mem[WordOf(j, w)]
        /\ mem'[Cursor] = mem[Cursor]
    BY <1>3, SeqSizes
  <1>6. /\ Latest(Cursor)' = Latest(Cursor) /\ wCell' = k
        /\ Size(Cursor)' = Size(Cursor)
        /\ \A t : Val(Cursor, t)' = Val(Cursor, t)
    BY <1>1, <1>5, CursorKept
  <1>7. CursorInv'
    BY <1>2, <1>6, WriterParts DEF CursorInv
  <1>8. SizeInv'
    <2> SUFFICES ASSUME NEW j \in Cells
                 PROVE  /\ Size(SeqOf(j))' = IF j = k THEN 2 * Size(IndexOf(j))'
                                                     ELSE 2 * Size(IndexOf(j))' - 1
                        /\ \A w \in WordIds : Size(WordOf(j, w))' = Size(IndexOf(j))'
      BY <1>2, <1>6 DEF SizeInv
    <2>1. Size(IndexOf(j))' = Size(IndexOf(j)) /\ Size(IndexOf(j)) \in Nat
      BY <1>5, SizeType, Names, WriterParts DEF Size
    <2>2. \A w \in WordIds : Size(WordOf(j, w))' = Size(WordOf(j, w))
      BY <1>5 DEF Size
    <2>3. /\ Size(SeqOf(j)) = 2 * Size(IndexOf(j)) - 1
          /\ \A w \in WordIds : Size(WordOf(j, w)) = Size(IndexOf(j))
      BY <1>2, WriterParts DEF SizeInv
    <2>4. Size(SeqOf(j))' = IF j = k THEN Size(SeqOf(j)) + 1 ELSE Size(SeqOf(j))
      BY <1>5 DEF Size
    <2> QED BY <2>1, <2>2, <2>3, <2>4
  <1>9. ValueInv'
    BY <1>2, <1>3, SeqValues, WriterParts
  <1>10. WriterInv'
    <2>1. ASSUME NEW t \in 2 .. Size(IndexOf(k))'
          PROVE  Val(IndexOf(k), t)' + N <= Latest(Cursor)'
      <3>1. t \in 2 .. Size(IndexOf(k)) /\ Val(IndexOf(k), t)' = Val(IndexOf(k), t)
        BY <1>5 DEF Size, Val
      <3>2. Val(IndexOf(k), t) \in Nat
        <4>1. t \in 1 .. Size(IndexOf(k))
          BY <3>1, SizeType, Names, WriterParts
        <4> QED BY <4>1, EntryType, Names, WriterParts
      <3>3. Val(IndexOf(k), t) < stores /\ CellOf(Val(IndexOf(k), t)) = k
        BY <3>1, WriterParts DEF ValueInv
      <3>4. Latest(Cursor) = stores /\ CellOf(stores) = k /\ stores \in Nat
        BY <1>1, <1>2, Published, WriterParts
      <3> QED BY <1>6, <3>1, <3>2, <3>3, <3>4, LapApart
    <2>2. wWord' = 1
      BY <1>2, WriterParts DEF WriterInv
    <2> QED BY <1>2, <1>6, <2>1, <2>2 DEF WriterInv
  <1>11. ViewInv'
    <2>1. ASSUME NEW j \in Cells, NEW w \in WordIds, NEW t \in 2 .. Size(WordOf(j, w))'
          PROVE  Seen(WordOf(j, w), t)'[SeqOf(j)] >= 2 * t - 2
      BY <1>5, WriterParts DEF ViewInv, Size, Seen
    <2>2. ASSUME NEW j \in Cells, NEW t \in 1 .. Size(SeqOf(j))', t % 2 = 1
          PROVE  /\ 2 * Seen(SeqOf(j), t)'[IndexOf(j)] >= t + 1
                 /\ \A w \in WordIds : 2 * Seen(SeqOf(j), t)'[WordOf(j, w)] >= t + 1
      <3>1. /\ Size(SeqOf(k)) = 2 * Size(IndexOf(k)) - 1 /\ Size(IndexOf(k)) \in Nat
            /\ Size(SeqOf(j)) \in Nat
        BY <1>2, SizeType, Names, WriterParts DEF SizeInv
      <3>2. t \in 1 .. Size(SeqOf(j))
        <4>1. CASE j = k
          BY <1>5, <2>2, <3>1, <4>1
        <4>2. CASE j # k
          BY <1>5, <4>2 DEF Size
        <4> QED BY <4>1, <4>2
      <3>3. Seen(SeqOf(j), t)' = Seen(SeqOf(j), t)
        BY <1>4, <3>2, Names DEF Kept, Seen
      <3> QED BY <2>2, <3>2, <3>3, WriterParts DEF ViewInv
    <2>3. \A t \in 1 .. Size(Cursor)' : Sees(Seen(Cursor, t), t - 1)'
      BY <1>4, <1>5, CursorViews, WriterParts
    <2>9. \A b \in Atomics : \A t \in 1 .. Size(b)' : Seen(b, t)'[b] >= t
      BY <1>3, OwnViews, Names, WriterParts
    <2> QED BY <2>1, <2>2, <2>3, <2>9 DEF ViewInv
  <1>12. ReaderInv' /\ FencedReadsAreWhole' /\ LossesAreLaps'
    BY <1>2, <1>4, ReaderKept, WriterParts
  <1> QED BY <1>4, <1>7, <1>8, <1>9, <1>10, <1>11, <1>12 DEF IInv

LEMMA FenceInv == ASSUME IInv, StoreFence PROVE IInv'
  <1>1. PICK k \in Cells : k = wCell
    BY Published
  <1>2. /\ wpc = "fence" /\ wpc' = "index" /\ frel' = Everything
        /\ UNCHANGED <<mem, stores, wWord, rd, cur, acq>>
    BY DEF StoreFence, WriterStep
  <1>3. frel' \in Views /\ frel'[SeqOf(k)] = Size(SeqOf(k)) /\ Size(SeqOf(k)) \in Nat
    BY <1>2, EverythingType, SizeType, Names, WriterParts
  <1>4. TypeOK' /\ wCell' = wCell
    BY <1>2, <1>3, WriterParts DEF TypeOK, wCell, Latest
  <1>5. CursorInv'
    BY <1>2, WriterParts DEF CursorInv, Size, Val
  <1>6. SizeInv'
    BY <1>2, <1>4, WriterParts DEF SizeInv, Size
  <1>7. ValueInv' /\ ViewInv'
    BY <1>2, WriterParts DEF ValueInv, ViewInv, Sees, Size, Val, Seen
  <1>8. WriterInv'
    BY <1>1, <1>2, <1>3, <1>4, WriterParts DEF WriterInv, Size, Val, Latest
  <1>9. Kept
    BY <1>2, SizeType, WriterParts DEF Kept, Size
  <1>10. ReaderInv' /\ FencedReadsAreWhole' /\ LossesAreLaps'
    BY <1>2, <1>4, <1>9, ReaderKept, WriterParts
  <1> QED BY <1>4, <1>5, <1>6, <1>7, <1>8, <1>10 DEF IInv

LEMMA IndexInv == ASSUME IInv, StoreIndex PROVE IInv'
  <1>1. PICK k \in Cells : k = wCell
    BY Published
  <1>2. /\ wpc = "index" /\ wpc' = "words"
        /\ UNCHANGED <<frel, stores, wWord, rd, cur, acq>>
    BY DEF StoreIndex, WriterStep
  <1>0. PICK p \in Nat : p = Latest(Cursor)
    BY Published
  <1>3. p = stores - 1 /\ CellOf(p) = k
    BY <1>0, <1>1, <1>2, Published
  <1>4. Grown(IndexOf(k), p, frel)
    <2>1. Put(IndexOf(k), p, frel)
      BY <1>0, <1>1 DEF StoreIndex, StoreRelaxed
    <2> QED BY <2>1, PutGrows, Names, WriterParts
  <1>5. Kept /\ TypeOK'
    BY <1>2, <1>4, GrownKept, StoreType, Names, WriterParts
  <1>01. PICK n \in Nat \ {0} : n = Size(IndexOf(k))
    BY SizeType, Names, WriterParts
  <1>6. /\ Size(IndexOf(k))' = n + 1 /\ Val(IndexOf(k), n + 1)' = p
        /\ \A j \in Cells \ {k} : mem'[IndexOf(j)] = mem[IndexOf(j)]
        /\ \A j \in Cells : mem'[SeqOf(j)] = mem[SeqOf(j)]
        /\ \A j \in Cells, w \in WordIds : mem'[WordOf(j, w)] = mem[WordOf(j, w)]
        /\ mem'[Cursor] = mem[Cursor]
    BY <1>4, <1>01, Names DEF Grown, Size, Val
  <1>7. /\ Latest(Cursor)' = p /\ wCell' = k
        /\ Size(Cursor)' = Size(Cursor)
        /\ \A t : Val(Cursor, t)' = Val(Cursor, t)
    BY <1>0, <1>1, <1>6, CursorKept
  <1>8. CursorInv'
    BY <1>2, <1>7, WriterParts DEF CursorInv
  <1>9. wWord = 1 /\ wWord' = 1 /\ \A w \in WordIds : wWord' <= w
    BY <1>2, WriterParts DEF WriterInv, WordIds
  <1>10. SizeInv'
    <2> SUFFICES ASSUME NEW j \in Cells
                 PROVE  /\ Size(SeqOf(j))' = IF j = k THEN 2 * Size(IndexOf(j))' - 2
                                                     ELSE 2 * Size(IndexOf(j))' - 1
                        /\ \A w \in WordIds :
                             Size(WordOf(j, w))' = IF j = k THEN Size(IndexOf(j))' - 1
                                                           ELSE Size(IndexOf(j))'
      BY <1>2, <1>7, <1>9 DEF SizeInv
    <2>1. /\ Size(IndexOf(j))' = IF j = k THEN Size(IndexOf(j)) + 1 ELSE Size(IndexOf(j))
          /\ Size(IndexOf(j)) \in Nat
      BY <1>6, <1>01, SizeType, Names, WriterParts DEF Size
    <2>2. /\ Size(SeqOf(j))' = Size(SeqOf(j))
          /\ \A w \in WordIds : Size(WordOf(j, w))' = Size(WordOf(j, w))
      BY <1>6 DEF Size
    <2>3. /\ Size(SeqOf(j)) = IF j = k THEN 2 * Size(IndexOf(j)) ELSE 2 * Size(IndexOf(j)) - 1
          /\ \A w \in WordIds : Size(WordOf(j, w)) = Size(IndexOf(j))
      BY <1>1, <1>2, WriterParts DEF SizeInv
    <2> QED BY <2>1, <2>2, <2>3
  <1>11. ASSUME NEW j \in Cells, NEW t \in 2 .. Size(IndexOf(j))'
         PROVE  \/ j = k /\ t = n + 1
                \/ t \in 2 .. Size(IndexOf(j)) /\ Val(IndexOf(j), t)' = Val(IndexOf(j), t)
    <2>1. CASE j = k /\ t # n + 1
      <3>2. t \in 2 .. Size(IndexOf(k)) /\ t \in 1 .. Size(IndexOf(k))
        BY <1>6, <1>01, <2>1
      <3> QED BY <1>5, <2>1, <3>2, Names DEF Kept, Val
    <2>2. CASE j # k
      BY <1>6, <2>2 DEF Size, Val
    <2> QED BY <2>1, <2>2
  <1>12. ValueInv'
    <2>1. ASSUME NEW j \in Cells PROVE \A t \in 1 .. Size(SeqOf(j))' : Val(SeqOf(j), t)' = t - 1
      BY <1>6, WriterParts DEF ValueInv, Size, Val
    <2>2. ASSUME NEW j \in Cells, NEW w \in WordIds, NEW t \in 2 .. Size(WordOf(j, w))'
          PROVE  Val(WordOf(j, w), t)' = Val(IndexOf(j), t)' + 1
      <3>1. /\ t \in 2 .. Size(WordOf(j, w)) /\ Val(WordOf(j, w), t)' = Val(WordOf(j, w), t)
            /\ Size(WordOf(j, w)) = Size(IndexOf(j)) /\ Size(IndexOf(j)) \in Nat
        BY <1>2, <1>6, SizeType, Names, WriterParts DEF SizeInv, Size, Val
      <3>2. t \in 1 .. Size(IndexOf(j))
        BY <3>1
      <3>3. Val(IndexOf(j), t)' = Val(IndexOf(j), t)
        BY <1>5, <3>2, Names DEF Kept, Val
      <3> QED BY <3>1, <3>3, WriterParts DEF ValueInv
    <2>3. ASSUME NEW j \in Cells, NEW t \in 2 .. Size(IndexOf(j))'
          PROVE  Val(IndexOf(j), t)' < stores' /\ CellOf(Val(IndexOf(j), t)') = j
      <3>1. CASE j = k /\ t = n + 1
        BY <1>2, <1>3, <1>6, <3>1, WriterParts
      <3>2. CASE t \in 2 .. Size(IndexOf(j)) /\ Val(IndexOf(j), t)' = Val(IndexOf(j), t)
        BY <1>2, <3>2, WriterParts DEF ValueInv
      <3> QED BY <1>11, <3>1, <3>2
    <2>4. ASSUME NEW j \in Cells, NEW t \in 2 .. Size(IndexOf(j))',
                 NEW u \in 2 .. Size(IndexOf(j))', t < u
          PROVE  Val(IndexOf(j), t)' + N <= Val(IndexOf(j), u)'
      <3>1. CASE u \in 2 .. Size(IndexOf(j)) /\ Val(IndexOf(j), u)' = Val(IndexOf(j), u)
        <4>1. t \in 2 .. Size(IndexOf(j))
          BY <2>4, <3>1, SizeType, Names, WriterParts
        <4>2. Val(IndexOf(j), t)' = Val(IndexOf(j), t)
          <5>1. t \in 1 .. Size(IndexOf(j))
            BY <4>1, SizeType, Names, WriterParts
          <5> QED BY <1>5, <5>1, Names DEF Kept, Val
        <4> QED BY <2>4, <3>1, <4>1, <4>2, WriterParts DEF ValueInv
      <3>2. CASE j = k /\ u = n + 1
        <4>1. t # n + 1
          BY <2>4, <3>2
        <4>2. t \in 2 .. Size(IndexOf(k)) /\ Val(IndexOf(k), t)' = Val(IndexOf(k), t)
          BY <1>11, <3>2, <4>1
        <4>3. Val(IndexOf(k), t) + N <= p
          BY <1>0, <1>1, <1>2, <4>2, WriterParts DEF WriterInv
        <4> QED BY <1>6, <3>2, <4>2, <4>3
      <3> QED BY <1>11, <3>1, <3>2
    <2> QED BY <2>1, <2>2, <2>3, <2>4 DEF ValueInv, CellOf
  <1>13. WriterInv'
    <2>2. Size(IndexOf(k))' > 1 /\ Latest(IndexOf(k))' = p
      BY <1>6, <1>01 DEF Latest, Size, Val
    <2>3. frel'[SeqOf(k)] >= Size(SeqOf(k))'
      BY <1>1, <1>2, <1>6, WriterParts DEF WriterInv, Size
    <2> QED BY <1>2, <1>7, <2>2, <2>3 DEF WriterInv
  <1>14. ViewInv'
    <2>1. \A t \in 1 .. Size(Cursor)' : Sees(Seen(Cursor, t), t - 1)'
      BY <1>5, <1>6, CursorViews, WriterParts
    <2>2. ASSUME NEW j \in Cells, NEW w \in WordIds, NEW t \in 2 .. Size(WordOf(j, w))'
          PROVE  Seen(WordOf(j, w), t)'[SeqOf(j)] >= 2 * t - 2
      BY <1>6, WriterParts DEF ViewInv, Size, Seen
    <2>3. ASSUME NEW j \in Cells, NEW t \in 1 .. Size(SeqOf(j))', t % 2 = 1
          PROVE  /\ 2 * Seen(SeqOf(j), t)'[IndexOf(j)] >= t + 1
                 /\ \A w \in WordIds : 2 * Seen(SeqOf(j), t)'[WordOf(j, w)] >= t + 1
      BY <1>6, <2>3, WriterParts DEF ViewInv, Size, Seen
    <2>9. \A b \in Atomics : \A t \in 1 .. Size(b)' : Seen(b, t)'[b] >= t
      BY <1>4, OwnViews, Names, WriterParts
    <2> QED BY <2>1, <2>2, <2>3, <2>9 DEF ViewInv
  <1>15. ReaderInv' /\ FencedReadsAreWhole' /\ LossesAreLaps'
    BY <1>2, <1>5, ReaderKept, WriterParts
  <1> QED BY <1>5, <1>8, <1>10, <1>12, <1>13, <1>14, <1>15 DEF IInv

LEMMA WordInv == ASSUME IInv, StoreWord PROVE IInv'
  <1>1. PICK k \in Cells : k = wCell
    BY Published
  <1>2. PICK x \in WordIds : x = wWord
    BY WriterParts
  <1>3. /\ wpc = "words" /\ UNCHANGED <<frel, stores, rd, cur, acq>>
        /\ IF x = kWords THEN wpc' = "even" /\ wWord' = 1
                         ELSE wpc' = "words" /\ wWord' = x + 1
    BY <1>2 DEF StoreWord, WriterStep
  <1>4. PICK n \in Nat \ {0} : n = Size(IndexOf(k))
    BY SizeType, Names, WriterParts
  <1>5. n > 1 /\ Size(WordOf(k, x)) = n - 1 /\ Size(SeqOf(k)) = 2 * n - 2
    BY <1>1, <1>2, <1>3, <1>4, WriterParts DEF SizeInv, WriterInv, WordIds
  <1>6. Val(IndexOf(k), n) + 1 = stores
    <2>1. Val(IndexOf(k), n) = Latest(Cursor)
      BY <1>1, <1>3, <1>4, WriterParts DEF WriterInv, Latest, Size, Val
    <2> QED BY <1>3, <2>1, Published, WriterParts
  <1>7. Grown(WordOf(k, x), stores, frel)
    <2>1. Put(WordOf(k, x), stores, frel)
      BY <1>1, <1>2 DEF StoreWord, StoreRelaxed
    <2> QED BY <2>1, PutGrows, Names, WriterParts
  <1>8. wWord' \in WordIds /\ wpc' \in {"words", "even"}
    BY <1>3, WriterParts DEF WordIds
  <1>9. Kept /\ TypeOK'
    BY <1>3, <1>7, <1>8, GrownKept, StoreType, Names, WriterParts
  <1>10. /\ Size(WordOf(k, x))' = n /\ Val(WordOf(k, x), n)' = stores
         /\ Seen(WordOf(k, x), n)'[SeqOf(k)] = frel[SeqOf(k)]
         /\ \A j \in Cells, w \in WordIds :
              j # k \/ w # x => mem'[WordOf(j, w)] = mem[WordOf(j, w)]
         /\ \A j \in Cells : mem'[SeqOf(j)] = mem[SeqOf(j)]
         /\ \A j \in Cells : mem'[IndexOf(j)] = mem[IndexOf(j)]
         /\ mem'[Cursor] = mem[Cursor]
    <2>1. Size(WordOf(k, x)) + 1 = n
      BY <1>4, <1>5
    <2>2. \A b \in Atomics \ {WordOf(k, x)} : mem'[b] = mem[b]
      BY <1>7 DEF Grown
    <2>3. SeqOf(k) \in Atomics \ {WordOf(k, x)}
      BY Names
    <2>4. /\ Size(WordOf(k, x))' = n /\ Val(WordOf(k, x), n)' = stores
          /\ Seen(WordOf(k, x), n)'[SeqOf(k)] = frel[SeqOf(k)]
      BY <1>7, <2>1, <2>3 DEF Grown, Size, Val, Seen
    <2> QED BY <2>2, <2>4, Names
  <1>11. /\ Latest(Cursor)' = Latest(Cursor) /\ wCell' = k
         /\ Size(Cursor)' = Size(Cursor)
         /\ \A t : Val(Cursor, t)' = Val(Cursor, t)
    BY <1>1, <1>10, CursorKept
  <1>12. CursorInv'
    BY <1>3, <1>8, <1>11, WriterParts DEF CursorInv
  <1>13. SizeInv'
    <2> SUFFICES ASSUME NEW j \in Cells
                 PROVE  /\ Size(SeqOf(j))' = IF j = k THEN 2 * Size(IndexOf(j))' - 2
                                                     ELSE 2 * Size(IndexOf(j))' - 1
                        /\ \A w \in WordIds :
                             Size(WordOf(j, w))' =
                                IF j = k /\ wpc' = "words" /\ wWord' <= w
                                  THEN Size(IndexOf(j))' - 1 ELSE Size(IndexOf(j))'
      BY <1>8, <1>11 DEF SizeInv
    <2>1. Size(IndexOf(j))' = Size(IndexOf(j)) /\ Size(SeqOf(j))' = Size(SeqOf(j))
      BY <1>10 DEF Size
    <2>2. Size(SeqOf(j)) = IF j = k THEN 2 * Size(IndexOf(j)) - 2
                                    ELSE 2 * Size(IndexOf(j)) - 1
      BY <1>1, <1>3, WriterParts DEF SizeInv
    <2>3. ASSUME NEW w \in WordIds
          PROVE  Size(WordOf(j, w))' =
                    IF j = k /\ wpc' = "words" /\ wWord' <= w
                      THEN Size(IndexOf(j)) - 1 ELSE Size(IndexOf(j))
      <3>1. Size(WordOf(j, w)) = IF j = k /\ x <= w THEN Size(IndexOf(j)) - 1
                                                   ELSE Size(IndexOf(j))
        BY <1>1, <1>2, <1>3, WriterParts DEF SizeInv
      <3>2. CASE j = k /\ w = x
        BY <1>3, <1>4, <1>10, <3>2, WriterParts DEF WordIds
      <3>3. CASE j # k
        BY <1>10, <3>1, <3>3 DEF Size
      <3>4. CASE j = k /\ w # x
        <4>1. Size(WordOf(j, w))' = Size(WordOf(j, w))
          BY <1>10, <3>4 DEF Size
        <4>2. x <= w <=> wpc' = "words" /\ wWord' <= w
          BY <1>3, <3>4, WriterParts DEF WordIds
        <4> QED BY <3>1, <3>4, <4>1, <4>2
      <3> QED BY <3>2, <3>3, <3>4
    <2> QED BY <2>1, <2>2, <2>3
  <1>14. ASSUME NEW j \in Cells, NEW w \in WordIds, NEW t \in 2 .. Size(WordOf(j, w))'
         PROVE  \/ j = k /\ w = x /\ t = n
                \/ /\ t \in 2 .. Size(WordOf(j, w))
                   /\ Val(WordOf(j, w), t)' = Val(WordOf(j, w), t)
                   /\ Seen(WordOf(j, w), t)' = Seen(WordOf(j, w), t)
    <2>1. CASE j = k /\ w = x /\ t # n
      <3>0. t \in 2 .. n
        BY <1>10, <2>1
      <3>1. t \in 2 .. Size(WordOf(k, x)) /\ t \in 1 .. Size(WordOf(k, x))
        BY <1>4, <1>5, <2>1, <3>0
      <3> QED BY <1>9, <2>1, <3>1, Names DEF Kept, Val, Seen
    <2>2. CASE j # k \/ w # x
      BY <1>10, <2>2 DEF Size, Val, Seen
    <2> QED BY <2>1, <2>2
  <1>15. ValueInv'
    <2>1. ASSUME NEW j \in Cells PROVE \A t \in 1 .. Size(SeqOf(j))' : Val(SeqOf(j), t)' = t - 1
      BY <1>10, WriterParts DEF ValueInv, Size, Val
    <2>2. ASSUME NEW j \in Cells, NEW w \in WordIds, NEW t \in 2 .. Size(WordOf(j, w))'
          PROVE  Val(WordOf(j, w), t)' = Val(IndexOf(j), t)' + 1
      <3>1. Val(IndexOf(j), t)' = Val(IndexOf(j), t)
        BY <1>10 DEF Val
      <3>2. CASE j = k /\ w = x /\ t = n
        BY <1>6, <1>10, <3>1, <3>2
      <3>3. CASE /\ t \in 2 .. Size(WordOf(j, w))
                 /\ Val(WordOf(j, w), t)' = Val(WordOf(j, w), t)
        BY <3>1, <3>3, WriterParts DEF ValueInv
      <3> QED BY <1>14, <3>2, <3>3
    <2>3. ASSUME NEW j \in Cells, NEW t \in 2 .. Size(IndexOf(j))'
          PROVE  Val(IndexOf(j), t)' < stores' /\ CellOf(Val(IndexOf(j), t)') = j
      BY <1>3, <1>10, WriterParts DEF ValueInv, Size, Val
    <2>4. ASSUME NEW j \in Cells, NEW t \in 2 .. Size(IndexOf(j))',
                 NEW u \in 2 .. Size(IndexOf(j))', t < u
          PROVE  Val(IndexOf(j), t)' + N <= Val(IndexOf(j), u)'
      BY <1>10, <2>4, WriterParts DEF ValueInv, Size, Val
    <2> QED BY <2>1, <2>2, <2>3, <2>4 DEF ValueInv, CellOf
  <1>16. WriterInv'
    <2>1. Size(IndexOf(k))' > 1 /\ Latest(IndexOf(k))' = Latest(Cursor)'
      BY <1>1, <1>3, <1>10, <1>11, WriterParts DEF WriterInv, Latest, Size
    <2>2. frel'[SeqOf(k)] >= Size(SeqOf(k))'
      BY <1>1, <1>3, <1>10, WriterParts DEF WriterInv, Size
    <2>3. wpc' # "words" => wWord' = 1
      BY <1>3
    <2> QED BY <1>8, <1>11, <2>1, <2>2, <2>3 DEF WriterInv
  <1>17. ViewInv'
    <2>1. \A t \in 1 .. Size(Cursor)' : Sees(Seen(Cursor, t), t - 1)'
      BY <1>9, <1>10, CursorViews, WriterParts
    <2>2. ASSUME NEW j \in Cells, NEW w \in WordIds, NEW t \in 2 .. Size(WordOf(j, w))'
          PROVE  Seen(WordOf(j, w), t)'[SeqOf(j)] >= 2 * t - 2
      <3>1. CASE j = k /\ w = x /\ t = n
        <4>1. frel[SeqOf(k)] >= 2 * n - 2
          BY <1>1, <1>3, <1>5, WriterParts DEF WriterInv
        <4> QED BY <1>10, <3>1, <4>1
      <3>2. CASE /\ t \in 2 .. Size(WordOf(j, w))
                 /\ Seen(WordOf(j, w), t)' = Seen(WordOf(j, w), t)
        BY <3>2, WriterParts DEF ViewInv
      <3> QED BY <1>14, <3>1, <3>2
    <2>3. ASSUME NEW j \in Cells, NEW t \in 1 .. Size(SeqOf(j))', t % 2 = 1
          PROVE  /\ 2 * Seen(SeqOf(j), t)'[IndexOf(j)] >= t + 1
                 /\ \A w \in WordIds : 2 * Seen(SeqOf(j), t)'[WordOf(j, w)] >= t + 1
      BY <1>10, <2>3, WriterParts DEF ViewInv, Size, Seen
    <2>9. \A b \in Atomics : \A t \in 1 .. Size(b)' : Seen(b, t)'[b] >= t
      BY <1>7, OwnViews, Names, WriterParts
    <2> QED BY <2>1, <2>2, <2>3, <2>9 DEF ViewInv
  <1>18. ReaderInv' /\ FencedReadsAreWhole' /\ LossesAreLaps'
    BY <1>3, <1>9, ReaderKept, WriterParts
  <1> QED BY <1>9, <1>12, <1>13, <1>15, <1>16, <1>17, <1>18 DEF IInv

LEMMA EvenInv == ASSUME IInv, StoreEven PROVE IInv'
  <1>1. PICK k \in Cells : k = wCell
    BY Published
  <1>2. /\ wpc = "even" /\ wpc' = "publish"
        /\ UNCHANGED <<frel, stores, wWord, rd, cur, acq>>
    BY DEF StoreEven, WriterStep
  <1>3. PICK n \in Nat \ {0} : n = Size(IndexOf(k))
    BY SizeType, Names, WriterParts
  <1>4. /\ Size(SeqOf(k)) = 2 * n - 2 /\ \A w \in WordIds : Size(WordOf(k, w)) = n
    BY <1>1, <1>2, <1>3, WriterParts DEF SizeInv
  <1>5. Grown(SeqOf(k), Size(SeqOf(k)), Everything)
    <2>1. Put(SeqOf(k), Latest(SeqOf(k)) + 1, Everything)
      BY <1>1 DEF StoreEven, StoreRelease
    <2>2. Latest(SeqOf(k)) + 1 = Size(SeqOf(k)) /\ Size(SeqOf(k)) \in Nat
      BY LatestSeq, SizeType, Names, WriterParts
    <2>3. Put(SeqOf(k), Size(SeqOf(k)), Everything)
      BY <2>1, <2>2
    <2> QED BY <2>2, <2>3, PutGrows, EverythingType, Names, WriterParts
  <1>6. Kept /\ TypeOK'
    BY <1>2, <1>5, GrownKept, StoreType, Names, WriterParts
  <1>7. /\ Size(SeqOf(k))' = Size(SeqOf(k)) + 1
        /\ \A j \in Cells \ {k} : mem'[SeqOf(j)] = mem[SeqOf(j)]
        /\ \A j \in Cells : mem'[IndexOf(j)] = mem[IndexOf(j)]
        /\ \A j \in Cells, w \in WordIds : mem'[WordOf(j, w)] = mem[WordOf(j, w)]
        /\ mem'[Cursor] = mem[Cursor]
    BY <1>5, SeqSizes
  <1>8. /\ Latest(Cursor)' = Latest(Cursor) /\ wCell' = k
        /\ Size(Cursor)' = Size(Cursor)
        /\ \A t : Val(Cursor, t)' = Val(Cursor, t)
    BY <1>1, <1>7, CursorKept
  <1>9. /\ Seen(SeqOf(k), 2 * n - 1)'[IndexOf(k)] = n
        /\ \A w \in WordIds : Seen(SeqOf(k), 2 * n - 1)'[WordOf(k, w)] = n
    <2>1. Size(SeqOf(k)) + 1 = 2 * n - 1
      BY <1>3, <1>4
    <2>2. /\ IndexOf(k) \in Atomics \ {SeqOf(k)}
          /\ \A w \in WordIds : WordOf(k, w) \in Atomics \ {SeqOf(k)}
      BY Names
    <2>3. \A b \in Atomics \ {SeqOf(k)} : Seen(SeqOf(k), 2 * n - 1)'[b] = Everything[b]
      BY <1>5, <2>1 DEF Grown, Seen
    <2> QED BY <1>3, <1>4, <2>2, <2>3, EverythingType, WriterParts
  <1>10. CursorInv'
    BY <1>2, <1>8, WriterParts DEF CursorInv
  <1>11. SizeInv'
    <2> SUFFICES ASSUME NEW j \in Cells
                 PROVE  /\ Size(SeqOf(j))' = 2 * Size(IndexOf(j))' - 1
                        /\ \A w \in WordIds : Size(WordOf(j, w))' = Size(IndexOf(j))'
      BY <1>2 DEF SizeInv
    <2>1. /\ Size(IndexOf(j))' = Size(IndexOf(j))
          /\ \A w \in WordIds : Size(WordOf(j, w))' = Size(WordOf(j, w))
      BY <1>7 DEF Size
    <2>2. \A w \in WordIds : Size(WordOf(j, w)) = Size(IndexOf(j))
      BY <1>2, WriterParts DEF SizeInv
    <2>3. Size(SeqOf(j))' = 2 * Size(IndexOf(j)) - 1
      <3>1. CASE j = k
        BY <1>3, <1>4, <1>7, <3>1
      <3>2. CASE j # k
        BY <1>1, <1>2, <1>7, <3>2, WriterParts DEF SizeInv, Size
      <3> QED BY <3>1, <3>2
    <2> QED BY <2>1, <2>2, <2>3
  <1>12. ValueInv'
    BY <1>2, <1>5, SeqValues, WriterParts
  <1>13. WriterInv'
    BY <1>1, <1>2, <1>7, <1>8, WriterParts DEF WriterInv, Latest, Size
  <1>14. ViewInv'
    <2>1. ASSUME NEW j \in Cells, NEW w \in WordIds, NEW t \in 2 .. Size(WordOf(j, w))'
          PROVE  Seen(WordOf(j, w), t)'[SeqOf(j)] >= 2 * t - 2
      BY <1>7, WriterParts DEF ViewInv, Size, Seen
    <2>2. ASSUME NEW j \in Cells, NEW t \in 1 .. Size(SeqOf(j))', t % 2 = 1
          PROVE  /\ 2 * Seen(SeqOf(j), t)'[IndexOf(j)] >= t + 1
                 /\ \A w \in WordIds : 2 * Seen(SeqOf(j), t)'[WordOf(j, w)] >= t + 1
      <3>1. CASE j = k /\ t = 2 * n - 1
        BY <1>3, <1>9, <3>1
      <3>2. CASE j # k \/ t # 2 * n - 1
        <4>1. t \in 1 .. Size(SeqOf(j))
          <5>1. CASE j = k
            BY <1>3, <1>4, <1>7, <3>2, <5>1
          <5>2. CASE j # k
            BY <1>7, <5>2 DEF Size
          <5> QED BY <5>1, <5>2
        <4>2. Seen(SeqOf(j), t)' = Seen(SeqOf(j), t)
          BY <1>6, <4>1, Names DEF Kept, Seen
        <4> QED BY <2>2, <4>1, <4>2, WriterParts DEF ViewInv
      <3> QED BY <3>1, <3>2
    <2>3. \A t \in 1 .. Size(Cursor)' : Sees(Seen(Cursor, t), t - 1)'
      BY <1>6, <1>7, CursorViews, WriterParts
    <2>9. \A b \in Atomics : \A t \in 1 .. Size(b)' : Seen(b, t)'[b] >= t
      BY <1>5, OwnViews, Names, WriterParts
    <2> QED BY <2>1, <2>2, <2>3, <2>9 DEF ViewInv
  <1>15. ReaderInv' /\ FencedReadsAreWhole' /\ LossesAreLaps'
    BY <1>2, <1>6, ReaderKept, WriterParts
  <1> QED BY <1>6, <1>10, <1>11, <1>12, <1>13, <1>14, <1>15 DEF IInv

LEMMA PublishInv == ASSUME IInv, StorePublish PROVE IInv'
  <1>1. PICK k \in Cells : k = wCell
    BY Published
  <1>2. /\ wpc = "publish" /\ wpc' = "idle"
        /\ UNCHANGED <<frel, stores, wWord, rd, cur, acq>>
    BY DEF StorePublish, WriterStep
  <1>3. /\ Size(Cursor) = stores /\ stores \in Nat \ {0}
        /\ Latest(Cursor) = stores - 1 /\ CellOf(stores - 1) = k
    BY <1>1, <1>2, Published, SizeType, Names, WriterParts DEF CursorInv
  <1>4. Grown(Cursor, stores, Everything)
    <2>1. Put(Cursor, Latest(Cursor) + 1, Everything)
      BY DEF StorePublish, StoreRelease
    <2>2. Latest(Cursor) + 1 = stores
      BY <1>3
    <2>3. Put(Cursor, stores, Everything)
      BY <2>1, <2>2
    <2> QED BY <1>3, <2>3, PutGrows, EverythingType, Names, WriterParts
  <1>5. Kept /\ TypeOK'
    BY <1>2, <1>4, GrownKept, StoreType, Names, WriterParts
  <1>6. /\ \A j \in Cells : mem'[SeqOf(j)] = mem[SeqOf(j)] /\ mem'[IndexOf(j)] = mem[IndexOf(j)]
        /\ \A j \in Cells, w \in WordIds : mem'[WordOf(j, w)] = mem[WordOf(j, w)]
    BY <1>4, Names DEF Grown
  <1>7. /\ Size(Cursor)' = stores + 1 /\ Val(Cursor, stores + 1)' = stores
        /\ \A j \in Cells : Seen(Cursor, stores + 1)'[SeqOf(j)] = Size(SeqOf(j))
    <2>1. Size(Cursor)' = stores + 1 /\ mem'[Cursor][stores + 1].val = stores
      BY <1>3, <1>4 DEF Grown, Size
    <2>2. \A b \in Atomics \ {Cursor} : mem'[Cursor][stores + 1].view[b] = Everything[b]
      BY <1>3, <1>4 DEF Grown
    <2>3. \A j \in Cells : SeqOf(j) \in Atomics \ {Cursor}
      BY Names
    <2> QED BY <1>2, <2>1, <2>2, <2>3, EverythingType, WriterParts DEF Val, Seen
  <1>8. CursorInv'
    <2>1. ASSUME NEW t \in 1 .. stores + 1 PROVE Val(Cursor, t)' = t - 1
      <3>1. CASE t = stores + 1
        BY <1>2, <1>3, <1>7, <3>1 DEF Val
      <3>2. CASE t # stores + 1
        <4>1. t \in 1 .. Size(Cursor)
          BY <1>3, <3>2
        <4> QED BY <1>5, <4>1, Names, WriterParts DEF Kept, Val, CursorInv
      <3> QED BY <3>1, <3>2
    <2> QED BY <1>2, <1>7, <2>1 DEF CursorInv
  <1>9. \A j \in Cells : /\ Size(SeqOf(j)) = 2 * Size(IndexOf(j)) - 1
                         /\ \A w \in WordIds : Size(WordOf(j, w)) = Size(IndexOf(j))
    BY <1>2, WriterParts DEF SizeInv
  <1>10. SizeInv'
    BY <1>2, <1>6, <1>9 DEF SizeInv, Size
  <1>11. ValueInv'
    <2>1. ASSUME NEW j \in Cells
          PROVE  /\ \A t \in 1 .. Size(SeqOf(j))' : Val(SeqOf(j), t)' = t - 1
                 /\ \A w \in WordIds : \A t \in 2 .. Size(WordOf(j, w))' :
                      Val(WordOf(j, w), t)' = Val(IndexOf(j), t)' + 1
      <3>1. /\ mem'[SeqOf(j)] = mem[SeqOf(j)] /\ mem'[IndexOf(j)] = mem[IndexOf(j)]
            /\ \A w \in WordIds : mem'[WordOf(j, w)] = mem[WordOf(j, w)]
        BY <1>6
      <3>2. /\ \A t \in 1 .. Size(SeqOf(j)) : Val(SeqOf(j), t) = t - 1
            /\ \A w \in WordIds : \A t \in 2 .. Size(WordOf(j, w)) :
                 Val(WordOf(j, w), t) = Val(IndexOf(j), t) + 1
        BY WriterParts DEF ValueInv
      <3>3. \A t \in 1 .. Size(SeqOf(j))' : Val(SeqOf(j), t)' = t - 1
        BY <3>1, <3>2 DEF Size, Val
      <3>4. ASSUME NEW w \in WordIds, NEW t \in 2 .. Size(WordOf(j, w))'
            PROVE  Val(WordOf(j, w), t)' = Val(IndexOf(j), t)' + 1
        <4>1. t \in 2 .. Size(WordOf(j, w))
          BY <3>1 DEF Size
        <4> QED BY <3>1, <3>2, <4>1 DEF Val
      <3> QED BY <3>3, <3>4
    <2>2. ASSUME NEW j \in Cells, NEW t \in 2 .. Size(IndexOf(j))'
          PROVE  Val(IndexOf(j), t)' < stores' /\ CellOf(Val(IndexOf(j), t)') = j
      BY <1>2, <1>6, WriterParts DEF ValueInv, Size, Val
    <2>3. ASSUME NEW j \in Cells, NEW t \in 2 .. Size(IndexOf(j))',
                 NEW u \in 2 .. Size(IndexOf(j))', t < u
          PROVE  Val(IndexOf(j), t)' + N <= Val(IndexOf(j), u)'
      BY <1>6, <2>3, WriterParts DEF ValueInv, Size, Val
    <2> QED BY <2>1, <2>2, <2>3 DEF ValueInv, CellOf
  <1>12. WriterInv'
    BY <1>2, WriterParts DEF WriterInv
  <1>13. ViewInv'
    <2>1. ASSUME NEW j \in Cells, NEW w \in WordIds, NEW t \in 2 .. Size(WordOf(j, w))'
          PROVE  Seen(WordOf(j, w), t)'[SeqOf(j)] >= 2 * t - 2
      BY <1>6, WriterParts DEF ViewInv, Size, Seen
    <2>2. ASSUME NEW j \in Cells, NEW t \in 1 .. Size(SeqOf(j))', t % 2 = 1
          PROVE  /\ 2 * Seen(SeqOf(j), t)'[IndexOf(j)] >= t + 1
                 /\ \A w \in WordIds : 2 * Seen(SeqOf(j), t)'[WordOf(j, w)] >= t + 1
      BY <1>6, <2>2, WriterParts DEF ViewInv, Size, Seen
    <2>3. ASSUME NEW t \in 1 .. Size(Cursor)' PROVE SeesNext(Seen(Cursor, t)', t - 1)
      <3>1. CASE t # stores + 1
        <4>1. t \in 1 .. Size(Cursor)
          BY <1>3, <1>7, <3>1
        <4>2. Seen(Cursor, t)' = Seen(Cursor, t)
          BY <1>5, <4>1, Names DEF Kept, Seen
        <4> QED BY <1>5, <4>1, <4>2, CursorViewsKept, WriterParts
      <3>2. CASE t = stores + 1
        <4> SUFFICES ASSUME NEW p \in 0 .. t - 1 - 1
                     PROVE  \E u \in 2 .. Len(mem'[IndexOf(CellOf(p))]) :
                              /\ mem'[IndexOf(CellOf(p))][u].val = p
                              /\ Seen(Cursor, t)'[SeqOf(CellOf(p))] >= 2 * u - 1
          BY DEF SeesNext
        <4>1. p \in Nat /\ p < stores
          BY <1>3, <3>2
        <4>2. PICK j \in Cells : j = CellOf(p)
          BY <4>1, CellInRing
        <4>3. Size(IndexOf(j)) \in Nat
          BY SizeType, Names, WriterParts
        <4>4. PICK u \in 2 .. Size(IndexOf(j)) : Val(IndexOf(j), u) = p
          <5>1. CASE p = stores - 1
            <6>1. /\ Size(IndexOf(j)) > 1
                  /\ Val(IndexOf(j), Size(IndexOf(j))) = stores - 1
              BY <1>1, <1>2, <1>3, <4>2, <5>1, WriterParts DEF WriterInv, Latest, Size, Val
            <6>2. Size(IndexOf(j)) \in 2 .. Size(IndexOf(j))
              BY <4>3, <6>1
            <6> QED BY <5>1, <6>1, <6>2
          <5>2. CASE p # stores - 1
            <6>1. p \in 0 .. stores - 1 - 1 /\ stores \in 1 .. Size(Cursor)
              BY <1>3, <4>1, <5>2
            <6>2. Sees(Seen(Cursor, stores), stores - 1)
              BY <6>1, WriterParts DEF ViewInv
            <6> QED BY <4>2, <6>1, <6>2 DEF Sees
          <5> QED BY <5>1, <5>2
        <4>5. Seen(Cursor, t)'[SeqOf(j)] = 2 * Size(IndexOf(j)) - 1
          BY <1>2, <1>7, <1>9, <3>2
        <4>6. mem'[IndexOf(j)] = mem[IndexOf(j)]
          BY <1>6
        <4>7. u \in 2 .. Len(mem'[IndexOf(j)]) /\ mem'[IndexOf(j)][u].val = p
          BY <4>4, <4>6 DEF Size, Val
        <4>8. Seen(Cursor, t)'[SeqOf(j)] >= 2 * u - 1
          BY <4>3, <4>4, <4>5
        <4> QED BY <4>2, <4>7, <4>8
      <3> QED BY <3>1, <3>2
    <2>4. \A t \in 1 .. Size(Cursor)' : Sees(Seen(Cursor, t), t - 1)'
      BY <2>3 DEF Sees, SeesNext, Size, Val
    <2>9. \A b \in Atomics : \A t \in 1 .. Size(b)' : Seen(b, t)'[b] >= t
      BY <1>4, OwnViews, Names, WriterParts
    <2> QED BY <2>1, <2>2, <2>4, <2>9 DEF ViewInv
  <1>14. ReaderInv' /\ FencedReadsAreWhole' /\ LossesAreLaps'
    BY <1>2, <1>5, ReaderKept, WriterParts
  <1> QED BY <1>5, <1>8, <1>10, <1>11, <1>12, <1>13, <1>14 DEF IInv

-----------------------------------------------------------------------------
(* The reader's steps. *)

Still == UNCHANGED <<mem, frel, wpc, wWord, stores>>

LEMMA WriterKept ==
    ASSUME IInv, Still
    PROVE  CursorInv' /\ SizeInv' /\ ValueInv' /\ WriterInv' /\ ViewInv' /\ Kept
  <1>1. /\ \A a : Size(a)' = Size(a) /\ Latest(a)' = Latest(a)
        /\ \A a, t : Val(a, t)' = Val(a, t) /\ Seen(a, t)' = Seen(a, t)
        /\ wCell' = wCell
    BY DEF Still, Size, Val, Seen, Latest, wCell
  <1>2. CursorInv' /\ SizeInv' /\ WriterInv'
    BY <1>1, WriterParts DEF Still, CursorInv, SizeInv, WriterInv
  <1>3. ValueInv'
    BY <1>1, WriterParts DEF Still, ValueInv, CellOf
  <1>4. ViewInv'
    BY WriterParts DEF Still, ViewInv, Sees, Size, Val, Seen
  <1>5. Kept
    BY SizeType, WriterParts DEF Still, Kept, Size
  <1> QED BY <1>2, <1>3, <1>4, <1>5

LEMMA ReaderParts ==
    ASSUME IInv
    PROVE  /\ TypeOK /\ ReaderInv /\ cur \in Views /\ acq \in Views
           /\ rd.c \in Nat /\ rd.i \in Nat /\ rd.s1 \in Nat /\ rd.idx \in Nat
           /\ rd.w \in WordIds /\ rd.staged \in [WordIds -> Nat]
           /\ N \in Nat \ {0} /\ kWords \in Nat \ {0}
  BY FenceAssumption DEF IInv, TypeOK

LEMMA Wanted ==
    ASSUME IInv, rd.pc \notin {"idle", "cursor"}
    PROVE  /\ Want(rd) \in Nat /\ Want(rd) \in 0 .. rd.c - 1 /\ WantCell(rd) \in Cells
           /\ CellOf(Want(rd)) = WantCell(rd)
  <1>1. rd.i < rd.c /\ rd.c \in Nat /\ rd.i \in Nat
    BY ReaderParts DEF ReaderInv
  <1>2. Want(rd) \in Nat /\ Want(rd) \in 0 .. rd.c - 1
    BY <1>1 DEF Want
  <1> QED BY <1>2, CellInRing DEF WantCell

(* The view may only grow. *)
Above(v, u) == v \in Views /\ \A a \in Atomics : v[a] >= u[a]

LEMMA JoinAbove ==
    ASSUME NEW v \in Views, NEW u \in Views
    PROVE  Above(Join(v, u), v) /\ Above(Join(v, u), u)
  BY JoinIsAbove DEF Above

LEMMA LoadGrows ==
    ASSUME IInv, NEW a \in Atomics, NEW t \in Readable(a),
           LoadRelaxed(a, t) \/ LoadAcquire(a, t)
    PROVE  /\ t \in 1 .. Size(a) /\ t >= cur[a] /\ Above(cur', cur) /\ Above(acq', acq)
           /\ Above(acq', Seen(a, t))
           /\ LoadAcquire(a, t) => Above(cur', Seen(a, t))
  <1>1. cur \in Views /\ acq \in Views /\ cur[a] \in Nat \ {0} /\ Size(a) \in Nat
    BY ReaderParts, SizeType DEF Views
  <1>2. t \in 1 .. Size(a) /\ t >= cur[a] /\ t \in Nat \ {0}
    BY <1>1 DEF Readable, Size
  <1>3. Seen(a, t) \in Views
    BY <1>2, EntryType, ReaderParts
  <1>4. acq' = Join(acq, Seen(a, t))
    BY DEF LoadRelaxed, LoadAcquire, Seen
  <1>5. CASE LoadRelaxed(a, t)
    <2>1. cur' = [cur EXCEPT ![a] = t]
      BY <1>5 DEF LoadRelaxed
    <2>2. Above(cur', cur)
      BY <1>1, <1>2, <2>1 DEF Above, Views
    <2>3. LoadAcquire(a, t) => Above(cur', Seen(a, t))
      BY <1>1, <1>3, JoinAbove DEF LoadAcquire, Seen
    <2> QED BY <1>1, <1>2, <1>3, <1>4, <2>2, <2>3, JoinAbove
  <1>6. CASE LoadAcquire(a, t)
    <2>1. cur' = Join(cur, Seen(a, t))
      BY <1>6 DEF LoadAcquire, Seen
    <2> QED BY <1>1, <1>2, <1>3, <1>4, <2>1, JoinAbove
  <1> QED BY <1>5, <1>6

(* What was seen is seen. *)
LEMMA StillSees ==
    ASSUME IInv, Still, NEW c \in Nat, NEW v \in Views, NEW u, Above(u, v), Sees(v, c)
    PROVE  SeesNext(u, c)
  BY WriterKept, SeesKept, ReaderParts DEF Above

(* The seq of a cell has gone beyond one of its stores only if a later     *)
(* store to the cell has begun, a lap on.                                  *)
LEMMA LapBegun ==
    ASSUME IInv, NEW k \in Cells, NEW t \in 2 .. Size(IndexOf(k)), 2 * t <= Size(SeqOf(k))
    PROVE  stores > Val(IndexOf(k), t) + N
  <1>1. Size(IndexOf(k)) \in Nat /\ stores \in Nat /\ N \in Nat
    BY SizeType, Names, WriterParts
  <1>2. ASSUME NEW u \in 2 .. Size(IndexOf(k)) PROVE Val(IndexOf(k), u) \in Nat
    <2>1. u \in 1 .. Size(IndexOf(k))
      BY <1>1
    <2> QED BY <2>1, EntryType, Names, WriterParts
  <1>3. CASE t < Size(IndexOf(k))
    <2>1. t + 1 \in 2 .. Size(IndexOf(k)) /\ t < t + 1
      BY <1>1, <1>3
    <2>2. /\ Val(IndexOf(k), t) + N <= Val(IndexOf(k), t + 1)
          /\ Val(IndexOf(k), t + 1) < stores
      BY <2>1, WriterParts DEF ValueInv
    <2> QED BY <1>1, <1>2, <2>1, <2>2
  <1>4. CASE t = Size(IndexOf(k))
    <2>1. k = wCell /\ wpc \in {"fence", "index"}
      BY <1>1, <1>4, WriterParts DEF SizeInv
    <2>2. Val(IndexOf(k), t) + N <= Latest(Cursor) /\ Latest(Cursor) = stores - 1
      BY <2>1, Published, WriterParts DEF WriterInv
    <2> QED BY <1>1, <1>2, <2>2
  <1> QED BY <1>1, <1>3, <1>4

LEMMA CallInv == ASSUME IInv, NEW op \in {"Load", "Snapshot"}, Call(op) PROVE IInv'
  <1>1. Still /\ UNCHANGED <<cur, acq>> /\ rd' = [Idle EXCEPT !.pc = "cursor", !.op = op]
    BY DEF Call, ReaderStep, Still
  <1>2. /\ rd'.pc = "cursor" /\ rd'.i = 0 /\ rd'.w = 1 /\ rd'.res = "none"
    BY <1>1 DEF Idle
  <1>3. TypeOK'
    <2>1. 1 \in WordIds
      BY ReaderParts DEF WordIds
    <2>2. PICK z \in [WordIds -> Nat] : z = [w \in WordIds |-> 0]
      OBVIOUS
    <2>3. rd' = [pc |-> "cursor", op |-> op, c |-> 0, i |-> 0, s1 |-> 0, idx |-> 0,
                 w |-> 1, staged |-> z, pos |-> 0, res |-> "none"]
      BY <1>1, <2>2 DEF Idle
    <2>4. rd' \in [pc : {"idle", "cursor", "seq", "index", "words", "fence", "validate"},
                   op : {"Load", "Snapshot"}, c : Nat, i : Nat, s1 : Nat, idx : Nat,
                   w : WordIds, staged : [WordIds -> Nat], pos : Nat,
                   res : {"none", "taken", "lost", "retracted"}]
      BY <2>1, <2>3
    <2> QED BY <1>1, <2>4, ReaderParts DEF TypeOK, Still
  <1>4. ReaderInv' /\ FencedReadsAreWhole' /\ LossesAreLaps'
    BY <1>2 DEF ReaderInv, FencedReadsAreWhole, LossesAreLaps
  <1> QED BY <1>1, <1>3, <1>4, WriterKept DEF IInv

LEMMA LoadCursorInv == ASSUME IInv, LoadCursor PROVE IInv'
  <1>1. rd.pc = "cursor" /\ rd.i = 0 /\ rd.w = 1
    BY ReaderParts DEF LoadCursor, ReaderInv
  <1>2. PICK t \in Readable(Cursor) :
           /\ LoadAcquire(Cursor, t) /\ Still
           /\ rd' = [rd EXCEPT !.pc = IF Val(Cursor, t) = 0 THEN "idle" ELSE "seq",
                               !.c = Val(Cursor, t), !.res = "none"]
    BY DEF LoadCursor, ReaderStep, Still, Val
  <1>3. /\ t \in 1 .. Size(Cursor) /\ Above(cur', cur) /\ Above(acq', acq)
        /\ Above(cur', Seen(Cursor, t))
    BY <1>2, LoadGrows, Names
  <1>4. Val(Cursor, t) = t - 1 /\ t - 1 \in Nat /\ t \in Nat
    BY <1>3, SizeType, Names, WriterParts DEF CursorInv
  <1>5. /\ rd'.pc = IF t - 1 = 0 THEN "idle" ELSE "seq"
        /\ rd'.c = t - 1 /\ rd'.res = "none" /\ rd'.i = 0 /\ rd'.w = 1
    BY <1>1, <1>2, <1>4, ReaderParts DEF TypeOK
  <1>6. TypeOK'
    BY <1>2, <1>3, <1>4, ReaderParts DEF TypeOK, Still, Above
  <1>7. Sees(cur, rd.c)'
    <2>1. Sees(Seen(Cursor, t), t - 1) /\ Seen(Cursor, t) \in Views
      BY <1>3, EntryType, Names, WriterParts DEF ViewInv
    <2>2. SeesNext(cur', t - 1)
      BY <1>2, <1>3, <1>4, <2>1, StillSees
    <2> QED BY <1>5, <2>2 DEF Sees, SeesNext, Size, Val
  <1>8. ReaderInv' /\ FencedReadsAreWhole' /\ LossesAreLaps'
    <2>1. rd'.pc \in {"idle", "seq"} /\ (rd'.pc = "seq" => rd'.i < rd'.c)
      <3>1. CASE t - 1 = 0
        BY <1>5, <3>1
      <3>2. CASE t - 1 # 0
        <4>1. 0 < t - 1
          BY <1>4, <3>2
        <4> QED BY <1>5, <3>2, <4>1
      <3> QED BY <3>1, <3>2
    <2> QED BY <1>5, <1>7, <2>1 DEF ReaderInv, FencedReadsAreWhole, LossesAreLaps
  <1> QED BY <1>2, <1>6, <1>8, WriterKept DEF IInv

(* The publication that is wanted *)
LEMMA WantedSeen ==
    ASSUME IInv, NEW k \in Cells, k = WantCell(rd), rd.pc \notin {"idle", "cursor"}
    PROVE  \E u \in 2 .. Size(IndexOf(k)) :
              Val(IndexOf(k), u) = Want(rd) /\ cur[SeqOf(k)] >= 2 * u - 1
  <1>1. Sees(cur, rd.c)
    BY ReaderParts DEF ReaderInv
  <1>2. Want(rd) \in 0 .. rd.c - 1 /\ CellOf(Want(rd)) = k
    BY Wanted
  <1> QED BY <1>1, <1>2 DEF Sees

LEMMA LoadSeqInv == ASSUME IInv, LoadSeq PROVE IInv'
  <1>1. rd.pc = "seq" /\ rd.w = 1
    BY ReaderParts DEF LoadSeq, ReaderInv
  <1>2. PICK k \in Cells : k = WantCell(rd)
    BY <1>1, Wanted
  <1>3. PICK t \in Readable(SeqOf(k)) :
           /\ LoadAcquire(SeqOf(k), t) /\ Still
           /\ rd' = IF Val(SeqOf(k), t) = 0 THEN [rd EXCEPT !.pc = "idle", !.res = "retracted"]
                    ELSE IF Val(SeqOf(k), t) % 2 = 1 THEN Lost(rd)
                    ELSE [rd EXCEPT !.pc = "index", !.s1 = Val(SeqOf(k), t), !.res = "none"]
    BY <1>2 DEF LoadSeq, ReaderStep, Still, Val
  <1>4. /\ t \in 1 .. Size(SeqOf(k)) /\ t >= cur[SeqOf(k)]
        /\ Above(cur', cur) /\ Above(acq', acq) /\ Above(cur', Seen(SeqOf(k), t))
    BY <1>3, LoadGrows, Names
  <1>5. PICK u \in 2 .. Size(IndexOf(k)) :
           Val(IndexOf(k), u) = Want(rd) /\ cur[SeqOf(k)] >= 2 * u - 1
    BY <1>1, <1>2, WantedSeen
  <1>6. /\ Size(SeqOf(k)) \in Nat /\ Size(IndexOf(k)) \in Nat /\ cur[SeqOf(k)] \in Nat
        /\ Want(rd) \in Nat
    BY <1>1, SizeType, Names, ReaderParts, Wanted DEF Views
  <1>7. /\ Val(SeqOf(k), t) = t - 1 /\ t >= 2 * u - 1 /\ t - 1 \in Nat /\ t - 1 # 0
    BY <1>4, <1>5, <1>6, WriterParts DEF ValueInv
  <1>8. CASE (t - 1) % 2 = 1
    <2>1. rd' = Lost(rd)
      BY <1>3, <1>7, <1>8
    <2>2. /\ rd'.pc = IF rd.op = "Load" THEN "cursor" ELSE "idle"
          /\ rd'.res = "lost" /\ rd'.c = rd.c /\ rd'.i = rd.i /\ rd'.w = 1 /\ rd'.op = rd.op
      BY <1>1, <2>1, ReaderParts DEF Lost, TypeOK
    <2>3. TypeOK'
      BY <1>3, <1>4, <2>1, ReaderParts DEF TypeOK, Still, Above, Lost
    <2>4. 2 * u <= Size(SeqOf(k))
      BY <1>4, <1>5, <1>6, <1>7, <1>8
    <2>5. stores > Want(rd) + N
      BY <1>5, <2>4, LapBegun
    <2>6. LossesAreLaps' /\ FencedReadsAreWhole'
      BY <1>3, <2>2, <2>5 DEF LossesAreLaps, FencedReadsAreWhole, Still, Want
    <2>7. ReaderInv'
      BY <2>2, ReaderParts DEF ReaderInv, TypeOK
    <2> QED BY <1>3, <2>3, <2>6, <2>7, WriterKept DEF IInv
  <1>9. CASE (t - 1) % 2 # 1
    <2>1. rd' = [rd EXCEPT !.pc = "index", !.s1 = t - 1, !.res = "none"]
      BY <1>3, <1>7, <1>9
    <2>2. /\ rd'.pc = "index" /\ rd'.res = "none" /\ rd'.s1 = t - 1 /\ rd'.c = rd.c
          /\ rd'.i = rd.i /\ rd'.w = 1 /\ rd'.op = rd.op
      BY <1>1, <2>1, ReaderParts DEF TypeOK
    <2>3. TypeOK'
      BY <1>3, <1>4, <1>7, <2>1, ReaderParts DEF TypeOK, Still, Above
    <2>4. Want(rd)' = Want(rd) /\ WantCell(rd)' = k
      BY <1>2, <2>2 DEF Want, WantCell
    <2>5. SeqRead(k)'
      <3>1. t % 2 = 1 /\ (t - 1) % 2 = 0
        BY <1>4, <1>6, <1>9
      <3>2. /\ Seen(SeqOf(k), t)[SeqOf(k)] >= t
            /\ 2 * Seen(SeqOf(k), t)[IndexOf(k)] >= t + 1
            /\ \A w \in WordIds : 2 * Seen(SeqOf(k), t)[WordOf(k, w)] >= t + 1
        BY <1>4, <3>1, Names, WriterParts DEF ViewInv
      <3>3. /\ cur' \in Views /\ Seen(SeqOf(k), t) \in Views
            /\ \A a \in Atomics : /\ cur'[a] >= Seen(SeqOf(k), t)[a]
                                  /\ cur'[a] \in Nat /\ Seen(SeqOf(k), t)[a] \in Nat
        BY <1>4, EntryType, Names, WriterParts DEF Above, Views
      <3>4. cur'[SeqOf(k)] >= t /\ 2 * cur'[IndexOf(k)] >= t + 1
        BY <1>4, <1>6, <3>2, <3>3, Names
      <3>5. ASSUME NEW w \in WordIds PROVE 2 * cur'[WordOf(k, w)] >= t + 1
        BY <1>4, <1>6, <3>2, <3>3, Names
      <3>6. t - 1 >= 2 * u - 2 /\ cur'[SeqOf(k)] > t - 1 /\ t - 1 + 2 = t + 1
        BY <1>4, <1>6, <1>7, <3>3, <3>4, Names
      <3>7. u \in 2 .. Size(IndexOf(k))' /\ Val(IndexOf(k), u)' = Want(rd)
        BY <1>3, <1>5 DEF Still, Size, Val
      <3> QED BY <2>2, <2>4, <3>1, <3>4, <3>5, <3>6, <3>7 DEF SeqRead
    <2>6. Sees(cur, rd.c)'
      <3>1. SeesNext(cur', rd.c)
        BY <1>1, <1>3, <1>4, StillSees, ReaderParts DEF ReaderInv
      <3> QED BY <2>2, <3>1 DEF Sees, SeesNext, Size, Val
    <2>7. LossesAreLaps' /\ FencedReadsAreWhole'
      BY <2>2 DEF LossesAreLaps, FencedReadsAreWhole
    <2>8. ReaderInv'
      BY <1>1, <2>2, <2>4, <2>5, <2>6, ReaderParts DEF ReaderInv
    <2> QED BY <1>3, <2>3, <2>7, <2>8, WriterKept DEF IInv
  <1> QED BY <1>8, <1>9

(* A step with a copy under way: what was read of seq and index is kept. *)
LEMMA CopyKept ==
    ASSUME IInv, NEW k \in Cells, k = WantCell(rd), Still, Above(cur', cur),
           rd'.c = rd.c, rd'.i = rd.i, rd'.s1 = rd.s1,
           rd.pc \in {"index", "words", "fence", "validate"}
    PROVE  /\ Want(rd)' = Want(rd) /\ WantCell(rd)' = k /\ SeqRead(k)'
           /\ Sees(cur, rd.c)' /\ rd'.i < rd'.c
           /\ IndexRead(k) /\ rd'.idx = rd.idx => IndexRead(k)'
  <1>1. Want(rd)' = Want(rd) /\ WantCell(rd)' = k
    BY DEF Want, WantCell
  <1>2. rd.i < rd.c /\ SeqRead(k) /\ Sees(cur, rd.c)
    BY ReaderParts DEF ReaderInv
  <1>3. Sees(cur, rd.c)'
    <2>1. SeesNext(cur', rd.c)
      BY <1>2, StillSees, ReaderParts
    <2> QED BY <2>1 DEF Sees, SeesNext, Size, Val
  <1>4. /\ \A a : Size(a)' = Size(a)
        /\ \A a, t : Val(a, t)' = Val(a, t)
    BY DEF Still, Size, Val
  <1>5. SeqRead(k)'
    <2>1. \A a \in Atomics : cur'[a] \in Nat /\ cur[a] \in Nat /\ cur'[a] >= cur[a]
      BY ReaderParts DEF Above, Views
    <2>2. cur'[SeqOf(k)] > rd.s1 /\ 2 * cur'[IndexOf(k)] >= rd.s1 + 2
      BY <1>2, <2>1, Names, ReaderParts DEF SeqRead
    <2>3. ASSUME NEW w \in WordIds PROVE 2 * cur'[WordOf(k, w)] >= rd.s1 + 2
      BY <1>2, <2>1, Names, ReaderParts DEF SeqRead
    <2>4. PICK t \in 2 .. Size(IndexOf(k)) :
             Val(IndexOf(k), t) = Want(rd) /\ rd.s1 >= 2 * t - 2
      BY <1>2 DEF SeqRead
    <2>5. t \in 2 .. Size(IndexOf(k))' /\ Val(IndexOf(k), t)' = Want(rd)'
      BY <1>1, <1>4, <2>4
    <2>6. rd'.s1 % 2 = 0
      BY <1>2 DEF SeqRead
    <2> QED BY <2>2, <2>3, <2>4, <2>5, <2>6 DEF SeqRead
  <1>6. IndexRead(k) /\ rd'.idx = rd.idx => IndexRead(k)'
    BY DEF Still, IndexRead, Size, Val
  <1> QED BY <1>1, <1>2, <1>3, <1>5, <1>6

(* A word that was read is kept, too, under a larger view. *)
LEMMA WordKept ==
    ASSUME IInv, NEW k \in Cells, NEW w \in WordIds, NEW v \in Views, NEW u,
           Above(u, v), WordRead(k, w, v)
    PROVE  WordRead(k, w, u)
  <1>1. PICK t \in 2 .. Size(WordOf(k, w)) :
           /\ Val(WordOf(k, w), t) = rd.staged[w] /\ 2 * t >= rd.s1 + 2
           /\ v[SeqOf(k)] >= 2 * t - 2
    BY DEF WordRead
  <1>2. v[SeqOf(k)] \in Nat /\ u[SeqOf(k)] \in Nat /\ u[SeqOf(k)] >= v[SeqOf(k)]
    BY Names DEF Above, Views
  <1>3. Size(WordOf(k, w)) \in Nat
    BY SizeType, Names, WriterParts
  <1>4. u[SeqOf(k)] >= 2 * t - 2
    BY <1>1, <1>2, <1>3
  <1> QED BY <1>1, <1>4 DEF WordRead

LEMMA LoadIndexInv == ASSUME IInv, LoadIndex PROVE IInv'
  <1>1. rd.pc = "index" /\ rd.w = 1 /\ rd.res = "none"
    BY ReaderParts DEF LoadIndex, ReaderInv, TypeOK
  <1>2. PICK k \in Cells : k = WantCell(rd)
    BY <1>1, Wanted
  <1>3. PICK t \in Readable(IndexOf(k)) :
           /\ LoadRelaxed(IndexOf(k), t) /\ Still
           /\ rd' = [rd EXCEPT !.pc = "words", !.idx = Val(IndexOf(k), t)]
    BY <1>2 DEF LoadIndex, ReaderStep, Still, Val
  <1>4. /\ t \in 1 .. Size(IndexOf(k)) /\ t >= cur[IndexOf(k)]
        /\ Above(cur', cur) /\ Above(acq', acq)
    BY <1>3, LoadGrows, Names
  <1>5. Val(IndexOf(k), t) \in Nat
    BY <1>4, EntryType, Names, ReaderParts
  <1>6. /\ rd'.pc = "words" /\ rd'.idx = Val(IndexOf(k), t) /\ rd'.s1 = rd.s1
        /\ rd'.c = rd.c /\ rd'.i = rd.i /\ rd'.w = 1 /\ rd'.op = rd.op /\ rd'.res = "none"
    BY <1>1, <1>3, ReaderParts DEF TypeOK
  <1>7. TypeOK'
    BY <1>3, <1>4, <1>5, ReaderParts DEF TypeOK, Still, Above
  <1>8. /\ WantCell(rd)' = k /\ SeqRead(k)' /\ Sees(cur, rd.c)' /\ rd'.i < rd'.c
    BY <1>1, <1>2, <1>3, <1>4, <1>6, CopyKept
  <1>9. IndexRead(k)'
    <2>1. SeqRead(k)
      BY <1>1, <1>2, ReaderParts DEF ReaderInv
    <2>2. PICK u \in 2 .. Size(IndexOf(k)) : rd.s1 >= 2 * u - 2
      BY <2>1 DEF SeqRead
    <2>3. /\ 2 * cur[IndexOf(k)] >= rd.s1 + 2 /\ cur[IndexOf(k)] \in Nat
          /\ Size(IndexOf(k)) \in Nat /\ rd.s1 \in Nat
      BY <2>1, SizeType, Names, ReaderParts DEF SeqRead, Views
    <2>4. 2 * t >= rd.s1 + 2 /\ t \in 2 .. Size(IndexOf(k))
      BY <1>4, <2>2, <2>3
    <2> QED BY <1>3, <1>6, <2>4 DEF IndexRead, Still, Size, Val
  <1>10. LossesAreLaps' /\ FencedReadsAreWhole'
    BY <1>6 DEF LossesAreLaps, FencedReadsAreWhole
  <1>11. ReaderInv'
    <2>1. \A w \in WordIds : ~(w < 1)
      BY ReaderParts DEF WordIds
    <2>2. rd.op = "Load" => rd.i = 0
      BY ReaderParts DEF ReaderInv
    <2> QED BY <1>6, <1>8, <1>9, <2>1, <2>2 DEF ReaderInv
  <1> QED BY <1>3, <1>7, <1>10, <1>11, WriterKept DEF IInv

LEMMA LoadWordInv == ASSUME IInv, LoadWord PROVE IInv'
  <1>1. rd.pc = "words" /\ rd.res = "none"
    BY ReaderParts DEF LoadWord, ReaderInv, TypeOK
  <1>2. PICK k \in Cells : k = WantCell(rd)
    BY <1>1, Wanted
  <1>3. PICK x \in WordIds : x = rd.w
    BY ReaderParts
  <1>4. PICK t \in Readable(WordOf(k, x)) :
           /\ LoadRelaxed(WordOf(k, x), t) /\ Still
           /\ rd' = [rd EXCEPT !.staged = [rd.staged EXCEPT ![x] = Val(WordOf(k, x), t)],
                               !.pc = IF x = kWords THEN "fence" ELSE "words",
                               !.w = IF x = kWords THEN 1 ELSE x + 1]
    BY <1>2, <1>3 DEF LoadWord, ReaderStep, Still, Val
  <1>5. /\ t \in 1 .. Size(WordOf(k, x)) /\ t >= cur[WordOf(k, x)]
        /\ Above(cur', cur) /\ Above(acq', acq) /\ Above(acq', Seen(WordOf(k, x), t))
    BY <1>4, LoadGrows, Names
  <1>6. Val(WordOf(k, x), t) \in Nat /\ Seen(WordOf(k, x), t) \in Views
    BY <1>5, EntryType, Names, ReaderParts
  <1>7. PICK st \in [WordIds -> Nat] :
           st = [rd.staged EXCEPT ![x] = Val(WordOf(k, x), t)]
    BY <1>6, ReaderParts
  <1>8. PICK y \in WordIds : y = IF x = kWords THEN 1 ELSE x + 1
    BY ReaderParts DEF WordIds
  <1>9. /\ rd'.pc = (IF x = kWords THEN "fence" ELSE "words") /\ rd'.w = y
        /\ rd'.staged = st /\ rd'.idx = rd.idx /\ rd'.s1 = rd.s1
        /\ rd'.c = rd.c /\ rd'.i = rd.i /\ rd'.op = rd.op /\ rd'.res = "none"
    BY <1>1, <1>4, <1>7, <1>8, ReaderParts DEF TypeOK
  <1>10. TypeOK'
    <2>1. rd' = [rd EXCEPT !.staged = st, !.pc = IF x = kWords THEN "fence" ELSE "words",
                           !.w = y]
      BY <1>4, <1>7, <1>8
    <2> QED BY <1>4, <1>5, <2>1, ReaderParts DEF TypeOK, Still, Above
  <1>11. /\ WantCell(rd)' = k /\ SeqRead(k)' /\ Sees(cur, rd.c)' /\ rd'.i < rd'.c
         /\ IndexRead(k)'
    BY <1>1, <1>2, <1>4, <1>5, <1>9, CopyKept, ReaderParts DEF ReaderInv
  <1>12. ASSUME NEW w \in WordIds, w <= x PROVE WordRead(k, w, acq)'
    <2>1. CASE w = x
      <3>1. SeqRead(k)
        BY <1>1, <1>2, ReaderParts DEF ReaderInv
      <3>2. PICK u \in 2 .. Size(IndexOf(k)) : rd.s1 >= 2 * u - 2
        BY <3>1 DEF SeqRead
      <3>3. /\ 2 * cur[WordOf(k, x)] >= rd.s1 + 2 /\ cur[WordOf(k, x)] \in Nat
            /\ Size(IndexOf(k)) \in Nat /\ Size(WordOf(k, x)) \in Nat /\ rd.s1 \in Nat
        BY <3>1, SizeType, Names, ReaderParts DEF SeqRead, Views
      <3>4. 2 * t >= rd.s1 + 2 /\ t \in 2 .. Size(WordOf(k, x))
        BY <1>5, <3>2, <3>3
      <3>5. Seen(WordOf(k, x), t)[SeqOf(k)] >= 2 * t - 2
        BY <3>4, WriterParts DEF ViewInv
      <3>6. /\ acq'[SeqOf(k)] \in Nat /\ Seen(WordOf(k, x), t)[SeqOf(k)] \in Nat
            /\ acq'[SeqOf(k)] >= Seen(WordOf(k, x), t)[SeqOf(k)]
        BY <1>5, <1>6, Names DEF Above, Views
      <3>7. acq'[SeqOf(k)] >= 2 * t - 2
        BY <3>3, <3>4, <3>5, <3>6
      <3>8. st[x] = Val(WordOf(k, x), t)
        BY <1>7, ReaderParts
      <3> QED BY <1>4, <1>9, <2>1, <3>4, <3>7, <3>8 DEF WordRead, Still, Size, Val
    <2>2. CASE w # x
      <3>1. w < rd.w
        BY <1>3, <1>12, <2>2 DEF WordIds
      <3>2. WordRead(k, w, acq)
        BY <1>1, <1>2, <3>1, ReaderParts DEF ReaderInv
      <3>3. WordRead(k, w, acq')
        BY <1>5, <3>2, WordKept, ReaderParts
      <3>4. st[w] = rd.staged[w]
        BY <1>7, <2>2, ReaderParts
      <3> QED BY <1>4, <1>9, <3>3, <3>4 DEF WordRead, Still, Size, Val
    <2> QED BY <2>1, <2>2
  <1>13. LossesAreLaps' /\ FencedReadsAreWhole'
    BY <1>9 DEF LossesAreLaps, FencedReadsAreWhole
  <1>14. ReaderInv'
    <2>1. ASSUME NEW w \in WordIds, x = kWords \/ w < y PROVE w <= x
      BY <1>8, <2>1, ReaderParts DEF WordIds
    <2>2. rd.op = "Load" => rd.i = 0
      BY ReaderParts DEF ReaderInv
    <2>3. rd'.pc # "words" => rd'.w = 1
      BY <1>8, <1>9
    <2>4. ASSUME NEW w \in WordIds, (rd'.pc = "words" /\ w < rd'.w) \/ rd'.pc = "fence"
          PROVE  WordRead(k, w, acq)'
      BY <1>9, <1>12, <2>1, <2>4
    <2>5. rd'.pc \in {"words", "fence"}
      BY <1>9
    <2> QED BY <1>9, <1>11, <2>2, <2>3, <2>4, <2>5 DEF ReaderInv
  <1> QED BY <1>4, <1>10, <1>13, <1>14, WriterKept DEF IInv

LEMMA LoadFenceInv == ASSUME IInv, LoadFence PROVE IInv'
  <1>1. rd.pc = "fence" /\ rd.w = 1 /\ rd.res = "none"
    BY ReaderParts DEF LoadFence, ReaderInv, TypeOK
  <1>2. PICK k \in Cells : k = WantCell(rd)
    BY <1>1, Wanted
  <1>3. cur' = Join(cur, acq) /\ acq' = acq /\ Still /\ rd' = [rd EXCEPT !.pc = "validate"]
    BY DEF LoadFence, ReaderStep, Still
  <1>4. Above(cur', cur) /\ Above(cur', acq)
    BY <1>3, JoinAbove, ReaderParts
  <1>5. /\ rd'.pc = "validate" /\ rd'.idx = rd.idx /\ rd'.s1 = rd.s1 /\ rd'.staged = rd.staged
        /\ rd'.c = rd.c /\ rd'.i = rd.i /\ rd'.w = 1 /\ rd'.op = rd.op /\ rd'.res = "none"
    BY <1>1, <1>3, ReaderParts DEF TypeOK
  <1>6. TypeOK'
    BY <1>3, <1>4, ReaderParts DEF TypeOK, Still, Above
  <1>7. /\ WantCell(rd)' = k /\ SeqRead(k)' /\ Sees(cur, rd.c)' /\ rd'.i < rd'.c
        /\ IndexRead(k)'
    BY <1>1, <1>2, <1>3, <1>4, <1>5, CopyKept, ReaderParts DEF ReaderInv
  <1>8. ASSUME NEW w \in WordIds PROVE WordRead(k, w, cur)'
    <2>1. WordRead(k, w, acq)
      BY <1>1, <1>2, ReaderParts DEF ReaderInv
    <2>2. WordRead(k, w, cur')
      BY <1>4, <2>1, WordKept, ReaderParts
    <2> QED BY <1>3, <1>5, <2>2 DEF WordRead, Still, Size, Val
  <1>9. LossesAreLaps' /\ FencedReadsAreWhole'
    BY <1>5 DEF LossesAreLaps, FencedReadsAreWhole
  <1>10. ReaderInv'
    <2>1. rd.op = "Load" => rd.i = 0
      BY ReaderParts DEF ReaderInv
    <2> QED BY <1>5, <1>7, <1>8, <2>1 DEF ReaderInv
  <1> QED BY <1>3, <1>6, <1>9, <1>10, WriterKept DEF IInv

(* Validation settles which store the copy is of: the seq it read again    *)
(* leaves no room for a later word, nor the index for a later seq.         *)
LEMMA ValidCopy ==
    ASSUME IInv, NEW k \in Cells, k = WantCell(rd), rd.pc = "validate",
           NEW t \in 1 .. Size(SeqOf(k)), t >= cur[SeqOf(k)],
           t - 1 = rd.s1, rd.idx = Want(rd)
    PROVE  \A w \in WordIds : rd.staged[w] = rd.idx + 1
  <1>1. SeqRead(k) /\ IndexRead(k)
    BY ReaderParts DEF ReaderInv
  <1>2. PICK u \in 2 .. Size(IndexOf(k)) :
           Val(IndexOf(k), u) = Want(rd) /\ rd.s1 >= 2 * u - 2
    BY <1>1 DEF SeqRead
  <1>3. PICK v \in 2 .. Size(IndexOf(k)) :
           Val(IndexOf(k), v) = rd.idx /\ 2 * v >= rd.s1 + 2
    BY <1>1 DEF IndexRead
  <1>4. /\ Size(IndexOf(k)) \in Nat /\ Size(SeqOf(k)) \in Nat /\ cur[SeqOf(k)] \in Nat
        /\ rd.s1 \in Nat /\ rd.idx \in Nat /\ N \in Nat \ {0}
    BY SizeType, Names, ReaderParts DEF Views
  <1>5. u = v
    <2>1. ~(u < v)
      <3> SUFFICES ASSUME u < v PROVE FALSE
        OBVIOUS
      <3>1. Val(IndexOf(k), u) + N <= Val(IndexOf(k), v)
        BY WriterParts DEF ValueInv
      <3> QED BY <1>2, <1>3, <1>4, <3>1
    <2>2. ~(v < u)
      <3> SUFFICES ASSUME v < u PROVE FALSE
        OBVIOUS
      <3>1. Val(IndexOf(k), v) + N <= Val(IndexOf(k), u)
        BY WriterParts DEF ValueInv
      <3> QED BY <1>2, <1>3, <1>4, <3>1
    <2> QED BY <1>4, <2>1, <2>2
  <1>6. rd.s1 = 2 * u - 2
    BY <1>2, <1>3, <1>4, <1>5
  <1> SUFFICES ASSUME NEW w \in WordIds PROVE rd.staged[w] = rd.idx + 1
    OBVIOUS
  <1>7. PICK x \in 2 .. Size(WordOf(k, w)) :
           /\ Val(WordOf(k, w), x) = rd.staged[w] /\ 2 * x >= rd.s1 + 2
           /\ cur[SeqOf(k)] >= 2 * x - 2
    BY ReaderParts DEF ReaderInv, WordRead
  <1>8. Size(WordOf(k, w)) \in Nat
    BY SizeType, Names, ReaderParts
  <1>9. x = u
    BY <1>4, <1>6, <1>7, <1>8
  <1>10. Val(WordOf(k, w), x) = Val(IndexOf(k), x) + 1
    BY <1>7, WriterParts DEF ValueInv
  <1> QED BY <1>3, <1>5, <1>7, <1>9, <1>10

(* A copy that is not valid was overtaken. *)
LEMMA InvalidCopy ==
    ASSUME IInv, NEW k \in Cells, k = WantCell(rd), rd.pc = "validate",
           NEW t \in 1 .. Size(SeqOf(k)), t >= cur[SeqOf(k)],
           t - 1 # rd.s1 \/ rd.idx # Want(rd)
    PROVE  stores > Want(rd) + N
  <1>1. SeqRead(k) /\ IndexRead(k)
    BY ReaderParts DEF ReaderInv
  <1>2. PICK u \in 2 .. Size(IndexOf(k)) :
           Val(IndexOf(k), u) = Want(rd) /\ rd.s1 >= 2 * u - 2
    BY <1>1 DEF SeqRead
  <1>3. PICK v \in 2 .. Size(IndexOf(k)) :
           Val(IndexOf(k), v) = rd.idx /\ 2 * v >= rd.s1 + 2
    BY <1>1 DEF IndexRead
  <1>4. /\ Size(IndexOf(k)) \in Nat /\ Size(SeqOf(k)) \in Nat /\ cur[SeqOf(k)] \in Nat
        /\ rd.s1 \in Nat /\ rd.idx \in Nat /\ N \in Nat \ {0} /\ cur[SeqOf(k)] > rd.s1
        /\ rd.s1 % 2 = 0 /\ stores \in Nat /\ Want(rd) \in Nat
    BY <1>1, SizeType, Names, ReaderParts, WriterParts, Wanted DEF Views, SeqRead
  <1>5. CASE t - 1 # rd.s1
    <2>1. 2 * u <= Size(SeqOf(k))
      BY <1>2, <1>4, <1>5
    <2> QED BY <1>2, <2>1, LapBegun
  <1>6. CASE rd.idx # Want(rd)
    <2>1. u # v
      BY <1>2, <1>3, <1>6
    <2>2. u < v
      BY <1>2, <1>3, <1>4, <2>1
    <2>3. Val(IndexOf(k), u) + N <= Val(IndexOf(k), v) /\ Val(IndexOf(k), v) < stores
      BY <2>2, WriterParts DEF ValueInv
    <2> QED BY <1>2, <1>3, <1>4, <2>3
  <1> QED BY <1>5, <1>6

LEMMA ValidateInv == ASSUME IInv, Validate PROVE IInv'
  <1>1. rd.pc = "validate" /\ rd.w = 1 /\ (rd.op = "Load" => rd.i = 0)
    BY ReaderParts DEF Validate, ReaderInv
  <1>2. PICK k \in Cells : k = WantCell(rd)
    BY <1>1, Wanted
  <1>3. PICK t \in Readable(SeqOf(k)) :
           /\ LoadRelaxed(SeqOf(k), t) /\ Still
           /\ rd' = IF Val(SeqOf(k), t) = rd.s1 /\ rd.idx = Want(rd)
                      THEN Taken(rd) ELSE Lost(rd)
    BY <1>2 DEF Validate, ReaderStep, Still, Val
  <1>4. /\ t \in 1 .. Size(SeqOf(k)) /\ t >= cur[SeqOf(k)]
        /\ Above(cur', cur) /\ Above(acq', acq)
    BY <1>3, LoadGrows, Names
  <1>5. Val(SeqOf(k), t) = t - 1
    BY <1>4, WriterParts DEF ValueInv
  <1>6. CASE t - 1 = rd.s1 /\ rd.idx = Want(rd)
    <2>1. PICK more \in BOOLEAN : more = (rd.op = "Snapshot" /\ rd.i + 1 < Least(rd.c, N))
      OBVIOUS
    <2>2. rd' = [rd EXCEPT !.res = "taken", !.pos = rd.idx,
                           !.pc = IF more THEN "seq" ELSE "idle",
                           !.i = IF more THEN rd.i + 1 ELSE rd.i]
      BY <1>3, <1>5, <1>6, <2>1 DEF Taken
    <2>3. /\ rd'.pc = (IF more THEN "seq" ELSE "idle") /\ rd'.c = rd.c /\ rd'.w = 1
          /\ rd'.i = (IF more THEN rd.i + 1 ELSE rd.i) /\ rd'.op = rd.op
          /\ rd'.res = "taken" /\ rd'.pos = rd.idx /\ rd'.staged = rd.staged
      BY <1>1, <2>2, ReaderParts DEF TypeOK
    <2>4. TypeOK'
      <3>1. PICK pc \in {"seq", "idle"}, i \in Nat :
               /\ pc = (IF more THEN "seq" ELSE "idle")
               /\ i = (IF more THEN rd.i + 1 ELSE rd.i)
        BY ReaderParts
      <3>2. rd' = [rd EXCEPT !.res = "taken", !.pos = rd.idx, !.pc = pc, !.i = i]
        BY <2>2, <3>1
      <3> QED BY <1>3, <1>4, <3>2, ReaderParts DEF TypeOK, Still, Above
    <2>5. more => rd.i + 1 < rd.c /\ rd.op # "Load"
      <3>1. more => rd.op = "Snapshot" /\ rd.i + 1 < Least(rd.c, N)
        BY <2>1, Zenon
      <3>2. rd.i + 1 < Least(rd.c, N) => rd.i + 1 < rd.c
        BY ReaderParts DEF Least
      <3> QED BY <3>1, <3>2
    <2>6. FencedReadsAreWhole' /\ LossesAreLaps'
      BY <1>1, <1>2, <1>4, <1>6, <2>3, ValidCopy DEF FencedReadsAreWhole, LossesAreLaps
    <2>7. Sees(cur, rd.c)'
      <3>1. SeesNext(cur', rd.c)
        BY <1>1, <1>3, <1>4, StillSees, ReaderParts DEF ReaderInv
      <3> QED BY <2>3, <3>1 DEF Sees, SeesNext, Size, Val
    <2>8. ReaderInv'
      <3>1. CASE more
        BY <2>3, <2>5, <2>7, <3>1 DEF ReaderInv
      <3>2. CASE ~more
        BY <1>1, <2>3, <3>2 DEF ReaderInv
      <3> QED BY <3>1, <3>2
    <2> QED BY <1>3, <2>4, <2>6, <2>8, WriterKept DEF IInv
  <1>7. CASE t - 1 # rd.s1 \/ rd.idx # Want(rd)
    <2>1. rd' = Lost(rd)
      BY <1>3, <1>5, <1>7
    <2>2. /\ rd'.pc = IF rd.op = "Load" THEN "cursor" ELSE "idle"
          /\ rd'.res = "lost" /\ rd'.c = rd.c /\ rd'.i = rd.i /\ rd'.w = 1 /\ rd'.op = rd.op
      BY <1>1, <2>1, ReaderParts DEF Lost, TypeOK
    <2>3. TypeOK'
      BY <1>3, <1>4, <2>1, ReaderParts DEF TypeOK, Still, Above, Lost
    <2>4. stores > Want(rd) + N
      BY <1>1, <1>2, <1>4, <1>7, InvalidCopy
    <2>5. LossesAreLaps' /\ FencedReadsAreWhole'
      BY <1>3, <2>2, <2>4 DEF LossesAreLaps, FencedReadsAreWhole, Still, Want
    <2>6. ReaderInv'
      BY <1>1, <2>2 DEF ReaderInv
    <2> QED BY <1>3, <2>3, <2>5, <2>6, WriterKept DEF IInv
  <1> QED BY <1>6, <1>7

-----------------------------------------------------------------------------

LEMMA InitInv == Init => IInv
  <1> SUFFICES ASSUME Init PROVE IInv
    OBVIOUS
  <1>0. N \in Nat \ {0} /\ kWords \in Nat \ {0} /\ 1 \in WordIds
    BY FenceAssumption DEF WordIds
  <1>1. Oldest \in Views /\ \A a \in Atomics : Oldest[a] = 1
    BY DEF Oldest, Views
  <1>2. \A a \in Atomics : mem[a] = <<[val |-> 0, view |-> Oldest]>>
    BY DEF Init
  <1>3. \A a \in Atomics : Size(a) = 1 /\ Val(a, 1) = 0 /\ Seen(a, 1) = Oldest
    BY <1>2 DEF Size, Val, Seen
  <1>4. TypeOK
    <2>1. [val |-> 0, view |-> Oldest] \in Entry
      BY <1>1 DEF Entry
    <2>2. mem \in [Atomics -> Seq(Entry)]
      <3> HIDE DEF Entry
      <3> QED BY <2>1 DEF Init
    <2>3. rd \in [pc : {"idle", "cursor", "seq", "index", "words", "fence", "validate"},
                  op : {"Load", "Snapshot"}, c : Nat, i : Nat, s1 : Nat, idx : Nat,
                  w : WordIds, staged : [WordIds -> Nat], pos : Nat,
                  res : {"none", "taken", "lost", "retracted"}]
      <3>1. PICK z \in [WordIds -> Nat] : z = [w \in WordIds |-> 0]
        OBVIOUS
      <3>2. rd = [pc |-> "idle", op |-> "Load", c |-> 0, i |-> 0, s1 |-> 0, idx |-> 0,
                  w |-> 1, staged |-> z, pos |-> 0, res |-> "none"]
        BY <3>1 DEF Init, Idle
      <3> QED BY <1>0, <3>2
    <2>4. \A a \in Atomics : Len(mem[a]) > 0
      BY <1>3 DEF Size
    <2>5. mem \in [Atomics -> Seq([val : Nat, view : Views])]
      BY <2>2 DEF Entry
    <2> QED BY <1>0, <1>1, <2>3, <2>4, <2>5 DEF TypeOK, Init
  <1>5. CursorInv
    BY <1>3, Names DEF CursorInv, Init
  <1>6. wpc = "idle" /\ wWord = 1
    BY DEF Init
  <1>7. SizeInv
    BY <1>3, <1>6, Names DEF SizeInv
  <1>8. ValueInv
    BY <1>3, Names DEF ValueInv
  <1>9. WriterInv
    BY <1>6 DEF WriterInv
  <1>10. ViewInv
    <2>1. \A a \in Atomics : \A t \in 1 .. Size(a) : Seen(a, t)[a] >= t
      BY <1>1, <1>3
    <2>2. \A k \in Cells : \A t \in 1 .. Size(SeqOf(k)) :
            /\ 2 * Seen(SeqOf(k), t)[IndexOf(k)] >= t + 1
            /\ \A w \in WordIds : 2 * Seen(SeqOf(k), t)[WordOf(k, w)] >= t + 1
      BY <1>1, <1>3, Names
    <2>3. \A k \in Cells, w \in WordIds : \A t \in 2 .. Size(WordOf(k, w)) :
            Seen(WordOf(k, w), t)[SeqOf(k)] >= 2 * t - 2
      BY <1>3, Names
    <2>4. \A t \in 1 .. Size(Cursor) : Sees(Seen(Cursor, t), t - 1)
      BY <1>3, Names DEF Sees
    <2> QED BY <2>1, <2>2, <2>3, <2>4 DEF ViewInv
  <1>11. ReaderInv /\ FencedReadsAreWhole /\ LossesAreLaps
    BY DEF Init, Idle, ReaderInv, FencedReadsAreWhole, LossesAreLaps
  <1> QED BY <1>4, <1>5, <1>7, <1>8, <1>9, <1>10, <1>11 DEF IInv

LEMMA NextInv == IInv /\ [Next]_vars => IInv'
  <1> SUFFICES ASSUME IInv, [Next]_vars PROVE IInv'
    OBVIOUS
  <1>1. CASE UNCHANGED vars
    <2>1. Still /\ UNCHANGED <<rd, cur, acq>> /\ stores' = stores
      BY <1>1 DEF vars, Still
    <2>2. TypeOK'
      BY <2>1, WriterParts DEF TypeOK, Still
    <2>3. stores <= stores'
      BY <2>1, WriterParts
    <2> QED BY <2>1, <2>2, <2>3, WriterKept, ReaderKept DEF IInv
  <1>2. CASE Store
    BY <1>2, OddInv, FenceInv, IndexInv, WordInv, EvenInv, PublishInv DEF Store
  <1>3. CASE Read
    BY <1>3, LoadCursorInv, LoadSeqInv, LoadIndexInv, LoadWordInv, LoadFenceInv,
       ValidateInv DEF Read
  <1>4. CASE \E op \in {"Load", "Snapshot"} : Call(op)
    BY <1>4, CallInv
  <1> QED BY <1>1, <1>2, <1>3, <1>4 DEF Next

(* The views and values that the orders (W1) to (R2) keep apart. *)
THEOREM FencesHold == Spec => []IInv
  BY InitInv, NextInv, PTL DEF Spec

(* With the fences and orders the code has, on the memory of C++, and for  *)
(* any number of cells, words and stores: no torn read validates.          *)
THEOREM FencedReads == Spec => []FencedReadsAreWhole
  <1>1. IInv => FencedReadsAreWhole
    BY DEF IInv
  <1> QED BY <1>1, FencesHold, PTL

(* A reader that has the cursor loses a position below it only to the      *)
(* writer's next lap, and finds none of them unwritten.                    *)
THEOREM OnlyLapsLose == Spec => []LossesAreLaps
  <1>1. IInv => LossesAreLaps
    BY DEF IInv
  <1> QED BY <1>1, FencesHold, PTL
=============================================================================
