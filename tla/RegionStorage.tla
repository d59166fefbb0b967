---------------------------- MODULE RegionStorage ----------------------------
(***************************************************************************)
(* RegionStorage (concurrency/storage.hpp): a bump allocator over a region *)
(* the caller provides, and the layouts that SeqlockRing and SpscQueue     *)
(* carve out of it.  Every process that attaches computes the layout for   *)
(* itself, so all of them have to arrive at the same offsets.  Offsets are *)
(* bytes from the base of the region.                                      *)
(***************************************************************************)
EXTENDS Naturals

(* (x + a - 1) & ~(a - 1), for a power of two a *)
RoundUp(x, a) == a * ((x + a - 1) \div a)

kCacheLine == 64

(* Objects start on a cache line, or further apart if their type asks so. *)
CarveAlign(alignof) == IF alignof < kCacheLine THEN kCacheLine ELSE alignof

(* Where count objects of a type go, and the cursor after them. *)
Carve(cursor, alignof, sizeof, count) ==
    LET at == RoundUp(cursor, CarveAlign(alignof)) IN
    [at |-> at, cursor |-> at + sizeof * count]

-----------------------------------------------------------------------------
(* SeqlockRing: a cell is the sequence, the index and the words; the cells *)
(* are carved first, then the header with the cursor.                      *)

kWordBytes == 8
kWordAlign == 8
CellBytes(words) == kWordBytes * (2 + words)
HeaderBytes == kWordBytes

StorageBytes(depth, words) ==
    RoundUp(CellBytes(words) * depth, kCacheLine) + HeaderBytes

RingLayout(cursor, depth, words) ==
    LET cells == Carve(cursor, kWordAlign, CellBytes(words), depth)
        header == Carve(cells.cursor, kWordAlign, HeaderBytes, 1)
    IN [cells |-> cells.at, header |-> header.at, used |-> header.cursor]

-----------------------------------------------------------------------------
(* SpscQueue: the control block, three words on a cache line each, and     *)
(* then the records.  The depth is the caller's: a view that attaches      *)
(* passes the region's bound, not the depth the creator declared.          *)

ControlBytes == 3 * kCacheLine

QueueLayout(cursor, depth, sizeof, alignof) ==
    LET ctrl == Carve(cursor, kCacheLine, ControlBytes, 1)
        cells == Carve(ctrl.cursor, alignof, sizeof,
                       IF depth = 0 THEN 1 ELSE depth)
    IN [ctrl |-> ctrl.at, cells |-> cells.at, used |-> cells.cursor]

-----------------------------------------------------------------------------
(* RoundUp is the least multiple of a that is not below x: the mask does   *)
(* what its users take it for, up to a few lines and for the alignments of *)
(* ordinary and of over-aligned types.                                     *)
ASSUME RoundUpIsLeast ==
    \A a \in {64, 128} : \A x \in 0 .. 300 :
        /\ x <= RoundUp(x, a)
        /\ RoundUp(x, a) % a = 0
        /\ \A y \in x .. RoundUp(x, a) - 1 : y % a # 0

=============================================================================
