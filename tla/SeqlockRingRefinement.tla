------------------------ MODULE SeqlockRingRefinement ------------------------
(***************************************************************************)
(* The ring implements the history it stands for: publishing the cursor    *)
(* (W3) is the abstract Store, and the step in which a verb returns is its *)
(* abstract answer.  A repair that retracts a cell is Retract; everything  *)
(* else the ring does, a crash included, stutters.                         *)
(***************************************************************************)
EXTENDS SeqlockRing, RegionStorage

(* A region of StorageBytes() holds this ring. *)
ASSUME RingFits == RingLayout(0, N, kWords).used = StorageBytes(N, kWords)

(* A copy whose words belong to different values stands for no value: the  *)
(* number 0, which no call of Store stores.                                *)
Value(ws) == IF ws = Whole(ws[1]) THEN ws[1] ELSE 0

Entries(out) ==
    [j \in 1 .. Len(out) |-> [pos |-> out[j].pos, val |-> Value(out[j].words)]]

(* What a caller of the verbs can see of a reader's locals: nothing that a *)
(* running call has gathered so far.                                       *)
Visible(l, repaired) ==
    [busy |-> l.pc # "idle", op |-> l.op, k |-> l.k, floor |-> l.floor,
     res |-> l.res, void |-> repaired,
     out |-> IF l.pc = "idle" THEN Entries(l.out) ELSE <<>>]

History == INSTANCE OverwriteHistory WITH
    Depth <- N, Readers <- Readers, Values <- 1 .. MaxStores,
    Sizes <- SnapshotSizes \cup {0},
    history <- log,
    call <- [r \in Readers |-> Visible(rd[r], r \in straddled)]

(* The ring of two or more cells is an OverwriteHistory of depth N, dying  *)
(* writers included: reads are torn-free, consecutive and newest first,    *)
(* never older than what was published when they began, and "empty" is     *)
(* said only of an empty history.                                          *)
ImplementsHistory == History!Spec

=============================================================================
