---------------------------- MODULE RowPartition -----------------------------
(***************************************************************************)
(* One partition of src/gpu/row_partitioner.rs, from the tile table to the *)
(* counts the host reads back: count_tile_kernel and then                  *)
(* scatter_tile_kernel, a unit at a time.  GpuGrower takes a partition to  *)
(* be the stable partition of each segment; this module is about how the   *)
(* tiles arrive at it.                                                     *)
(*                                                                         *)
(* A cube owns a tile and its units exchange numbers through shared        *)
(* memory.  Between two barriers a unit does one thing, its interval; the  *)
(* intervals of different units happen in any order, and a unit goes on    *)
(* only when all of its cube have arrived.  The cubes of a launch run side *)
(* by side, each with a memory of its own, or one after another in the     *)
(* same memory, as runtimes do that run cubes sequentially.  Where a       *)
(* barrier is dear a tile is owned by one unit and there is none.          *)
(*                                                                         *)
(* A row is named by the position it is read from, and which rows go left  *)
(* is any choice.                                                          *)
(***************************************************************************)
EXTENDS Integers, FiniteSets, Sequences, SequencesExt, Subsequences

CONSTANT Launches   \* the launches considered, see RowPartitionAssumption

ASSUME RowPartitionAssumption ==
  Launches \subseteq [width : Nat \ {0},    \* units a cube may have, or rows of a tile that
                                          \* one unit walks
                      coop : BOOLEAN,       \* a cube owns a tile
                      one_memory : BOOLEAN, \* cubes run one after another
                      lens : Seq(Nat)]      \* lengths of the segments

VARIABLES
  launch,     \* the launch
  table,      \* its tile table
  goes_left,  \* position -> whether its row goes left
  pass,       \* the kernel that runs, or "done"
  at,         \* tile -> unit -> intervals it has done
  s_flag, s_base, s_total,  \* the shared arrays, memory -> unit -> number
  add, base, n_left,        \* registers, tile -> unit -> number
  tile_left,  \* tile -> rows that go left
  seg_left,   \* segment -> rows that go left
  out         \* position -> the row scattered to it

shared == <<s_flag, s_base, s_total>>
registers == <<add, base, n_left>>
vars == <<launch, table, goes_left, pass, at, shared, registers, tile_left, seg_left, out>>

-----------------------------------------------------------------------------
(* The tile table. *)

None == -1
Stale == 9   \* what a buffer kept from an earlier partition may hold
SumOf(f, S) == FoldSet(LAMBDA k, n : f[k] + n, 0, S)

Doubled[j \in Nat] == IF j = 0 THEN 1 ELSE 2 * Doubled[j - 1]   \* powers of two

(* scan_block_1d: the largest power of two that the units allow.           *)
ScanBlock(width) == CHOOSE b \in {Doubled[j] : j \in 0 .. width} : b <= width /\ 2 * b > width

TileCount(len, block) == IF len = 0 THEN 1 ELSE (len + block - 1) \div block

(* The tables uploaded for a launch: the block, the first row and the first *)
(* tile of each segment (and of the one after the last), and each tile's    *)
(* segment and offset in it.  Position 0 and the last belong to no segment. *)
TileTable(l) ==
  LET block == IF l.coop THEN ScanBlock(l.width) ELSE l.width
      segs == 1 .. Len(l.lens)
      nTiles == [s \in segs |-> TileCount(l.lens[s], block)]
      first == [s \in 1 .. Len(l.lens) + 1 |-> 1 + SumOf(nTiles, 1 .. s - 1)]
      tiles == 1 .. first[Len(first)] - 1
      seg == [k \in tiles |-> CHOOSE s \in segs : first[s] <= k /\ k < first[s + 1]]
  IN [block |-> block,
      begin |-> [s \in 1 .. Len(l.lens) + 1 |-> 1 + SumOf(l.lens, 1 .. s - 1)],
      first |-> first,
      seg |-> seg,
      off |-> [k \in tiles |-> (k - first[seg[k]]) * block]]

Block == table.block
Units == IF launch.coop THEN 0 .. Block - 1 ELSE {0}
Segs == DOMAIN launch.lens
Tiles == DOMAIN table.seg
Begin(s) == table.begin[s]
LastPosition == Begin(Len(table.begin))
Positions == 0 .. LastPosition
FirstTile(s) == table.first[s]
TilesOf(s) == FirstTile(s) .. FirstTile(s + 1) - 1
SegOf(k) == table.seg[k]
Off(k, u) == table.off[k] + u
Live(k, u) == Off(k, u) < launch.lens[SegOf(k)]
RowOf(k, u) == Begin(SegOf(k)) + Off(k, u)
Flag(k, u) == IF Live(k, u) /\ goes_left[RowOf(k, u)] THEN 1 ELSE 0

Memory(k) == IF launch.one_memory THEN 1 ELSE k

-----------------------------------------------------------------------------
(* The intervals of a unit. *)

(* Strides: scan_flags doubles from 1 while below the block, the reduction  *)
(* halves from half the block while above 0.                                *)
Ups == Cardinality({j \in 0 .. Block : Doubled[j] < Block})
Downs == Cardinality({j \in 1 .. Block : Block \div Doubled[j] > 0})

(* How many intervals of each kernel come before the flags are written, and *)
(* how many there are.                                                      *)
Lead == IF pass = "count" THEN 0 ELSE 1 + Downs
LastInterval == Lead + 1 + 2 * Ups + 1

(* A mutated form: no barrier between the read and the add of a stride.    *)
Arrived_NoScanSync(k, u) ==
  IF at[k][u] > Lead /\ (at[k][u] - Lead) % 2 = 0 THEN TRUE
  ELSE IF at[k][u] > 0 THEN \A v \in Units : at[k][v] >= at[k][u]
  ELSE launch.one_memory /\ k > 1 => \A v \in Units : at[k - 1][v] = LastInterval

(* A barrier lets a unit through when all of its cube have arrived; with   *)
(* one memory the last barrier of a tile holds for the next tile.          *)
Arrived(k, u) ==
  IF at[k][u] > 0 THEN \A v \in Units : at[k][v] >= at[k][u]
  ELSE launch.one_memory /\ k > 1 => \A v \in Units : at[k - 1][v] = LastInterval

Init ==
  /\ launch \in Launches
  /\ table = TileTable(launch)
  /\ goes_left \in [Positions -> BOOLEAN]
  /\ ~goes_left[0] /\ ~goes_left[LastPosition]
  /\ pass = "count"
  /\ at = [k \in Tiles |-> [u \in Units |-> 0]]
  /\ s_flag = [m \in {Memory(k) : k \in Tiles} |-> [u \in Units |-> Stale]]
  /\ s_base = s_flag /\ s_total = s_flag
  /\ add = [k \in Tiles |-> [u \in Units |-> 0]]
  /\ base = add /\ n_left = add
  /\ tile_left = [k \in Tiles |-> Stale]
  /\ seg_left = [s \in Segs |-> Stale]
  /\ out = [i \in Positions |-> None]

Advance(k, u) == at' = [at EXCEPT ![k][u] = @ + 1]

(* A unit of a cooperative cube about to do its i-th interval.             *)
Step(k, u, i) == launch.coop /\ pass # "done" /\ at[k][u] = i - 1 /\ Arrived(k, u) /\ Advance(k, u)

(* scatter_tile_kernel: each unit adds up a strided share of the counts of  *)
(* its segment's tiles.                                                     *)
SumCounts ==
  /\ pass = "scatter"
  /\ \E k \in Tiles, u \in Units :
       LET share == {t \in TilesOf(SegOf(k)) : (t - FirstTile(SegOf(k))) % Block = u}
       IN /\ Step(k, u, 1)
          /\ s_base' = [s_base EXCEPT ![Memory(k)][u] = SumOf(tile_left, {t \in share : t < k})]
          /\ s_total' = [s_total EXCEPT ![Memory(k)][u] = SumOf(tile_left, share)]
  /\ UNCHANGED <<launch, table, goes_left, pass, s_flag, registers, tile_left, seg_left, out>>

(* One halving of the tree that joins the shares.                          *)
Reduce ==
  /\ pass = "scatter"
  /\ \E k \in Tiles, u \in Units, j \in 1 .. Downs :
       LET m == Memory(k)
           d == Block \div Doubled[j]
       IN /\ Step(k, u, 1 + j)
          /\ IF u < d
             THEN /\ s_base' = [s_base EXCEPT ![m][u] = @ + s_base[m][u + d]]
                  /\ s_total' = [s_total EXCEPT ![m][u] = @ + s_total[m][u + d]]
             ELSE UNCHANGED <<s_base, s_total>>
  /\ UNCHANGED <<launch, table, goes_left, pass, s_flag, registers, tile_left, seg_left, out>>

(* The unit's flag; in the scatter it first takes the joined sums, and the  *)
(* first unit of the segment's first tile reports the total.                *)
WriteFlag ==
  /\ \E k \in Tiles, u \in Units :
       /\ Step(k, u, Lead + 1)
       /\ s_flag' = [s_flag EXCEPT ![Memory(k)][u] = Flag(k, u)]
       /\ IF pass = "count"
          THEN UNCHANGED <<base, n_left, seg_left>>
          ELSE /\ base' = [base EXCEPT ![k][u] = s_base[Memory(k)][0]]
               /\ n_left' = [n_left EXCEPT ![k][u] = s_total[Memory(k)][0]]
               /\ seg_left' = IF k = FirstTile(SegOf(k)) /\ u = 0
                              THEN [seg_left EXCEPT ![SegOf(k)] = s_total[Memory(k)][0]]
                              ELSE seg_left
  /\ UNCHANGED <<launch, table, goes_left, pass, s_base, s_total, add, tile_left, out>>

(* scan_flags: a stride is read by all before any adds it.                 *)
ScanRead ==
  /\ \E k \in Tiles, u \in Units, j \in 1 .. Ups :
       LET d == Doubled[j - 1]
       IN /\ Step(k, u, Lead + 2 * j)
          /\ add' = [add EXCEPT ![k][u] = IF u >= d THEN s_flag[Memory(k)][u - d] ELSE 0]
  /\ UNCHANGED <<launch, table, goes_left, pass, shared, base, n_left, tile_left, seg_left,
                 out>>

ScanAdd ==
  /\ \E k \in Tiles, u \in Units, j \in 1 .. Ups :
       /\ Step(k, u, Lead + 2 * j + 1)
       /\ s_flag' = [s_flag EXCEPT ![Memory(k)][u] = @ + add[k][u]]
  /\ UNCHANGED <<launch, table, goes_left, pass, s_base, s_total, registers, tile_left, seg_left,
                 out>>

(* count_tile_kernel: the last unit holds the tile's total.                *)
WriteCount ==
  /\ pass = "count"
  /\ \E k \in Tiles, u \in Units :
       /\ Step(k, u, LastInterval)
       /\ tile_left' = IF u = Block - 1 THEN [tile_left EXCEPT ![k] = s_flag[Memory(k)][u]]
                                        ELSE tile_left
  /\ UNCHANGED <<launch, table, goes_left, pass, shared, registers, seg_left, out>>

(* scatter_slot: left rows after the left rows before them, right rows      *)
(* after all the left ones and the right rows before them.                  *)
ScatterSlot(k, u, tile_base, total, rank) ==
  IF Flag(k, u) = 1 THEN Begin(SegOf(k)) + tile_base + rank
  ELSE Begin(SegOf(k)) + total + (Off(k, u) - tile_base) - rank

(* A unit's row goes to its slot.                                          *)
Scatter ==
  /\ pass = "scatter"
  /\ \E k \in Tiles, u \in Units :
       /\ Step(k, u, LastInterval)
       /\ LET rank == s_flag[Memory(k)][u] - Flag(k, u)
          IN out' = IF Live(k, u)
                    THEN [out EXCEPT ![ScatterSlot(k, u, base[k][u], n_left[k][u], rank)] =
                            RowOf(k, u)]
                    ELSE out
  /\ UNCHANGED <<launch, table, goes_left, pass, shared, registers, tile_left, seg_left>>

-----------------------------------------------------------------------------
(* The shape without barriers: one unit walks a tile. *)

TileOffsets(k) == {u \in 0 .. Block - 1 : Live(k, u)}
LeftBefore(k, u) == Cardinality({v \in TileOffsets(k) : v < u /\ Flag(k, v) = 1})

CountSerial ==
  /\ pass = "count"
  /\ ~launch.coop
  /\ \E k \in Tiles :
       /\ at[k][0] = 0
       /\ Advance(k, 0)
       /\ tile_left' = [tile_left EXCEPT ![k] = LeftBefore(k, Block)]
  /\ UNCHANGED <<launch, table, goes_left, pass, shared, registers, seg_left, out>>

(* The base and the total first, then a row at a time.                     *)
ScatterSerial ==
  /\ pass = "scatter"
  /\ ~launch.coop
  /\ \E k \in Tiles :
       LET s == SegOf(k)
           total == SumOf(tile_left, TilesOf(s))
           tile_base == SumOf(tile_left, {t \in TilesOf(s) : t < k})
           u == at[k][0] - 1
       IN /\ u < Cardinality(TileOffsets(k))
          /\ Advance(k, 0)
          /\ IF u < 0
             THEN /\ seg_left' = IF k = FirstTile(s) THEN [seg_left EXCEPT ![s] = total]
                                 ELSE seg_left
                  /\ UNCHANGED out
             ELSE /\ out' = [out EXCEPT ![ScatterSlot(k, u, tile_base, total, LeftBefore(k, u))] =
                               RowOf(k, u)]
                  /\ UNCHANGED seg_left
  /\ UNCHANGED <<launch, table, goes_left, pass, shared, registers, tile_left>>

-----------------------------------------------------------------------------
(* The launches of a device run in order. *)

Finished(k, u) ==
  IF launch.coop THEN at[k][u] = LastInterval
  ELSE at[k][u] = 1 + (IF pass = "scatter" THEN Cardinality(TileOffsets(k)) ELSE 0)

EndLaunch ==
  /\ pass # "done"
  /\ \A k \in Tiles, u \in Units : Finished(k, u)
  /\ pass' = IF pass = "count" THEN "scatter" ELSE "done"
  /\ at' = [k \in Tiles |-> [u \in Units |-> 0]]
  /\ UNCHANGED <<launch, table, goes_left, shared, registers, tile_left, seg_left, out>>

Done == pass = "done" /\ UNCHANGED vars

Run == \/ SumCounts \/ Reduce \/ WriteFlag \/ ScanRead \/ ScanAdd \/ WriteCount \/ Scatter
       \/ CountSerial \/ ScatterSerial \/ EndLaunch
Next == Run \/ Done

Spec == Init /\ [][Next]_vars

-----------------------------------------------------------------------------
(* Properties. *)

(* In a segment the rows that go left in their order, then the others in    *)
(* theirs, and the left ones counted.                                       *)
Stably(s, order, count) ==
  LET rows == [j \in 1 .. launch.lens[s] |-> Begin(s) + j - 1]
      left == Chosen(rows, {r \in Positions : goes_left[r]})
      right == Chosen(rows, {r \in Positions : ~goes_left[r]})
  IN /\ [j \in 1 .. launch.lens[s] |-> order[Begin(s) + j - 1]] = left \o right
     /\ count = Len(left)

(* What GpuGrower takes a partition to be: each segment stably partitioned, *)
(* and nothing written elsewhere.                                           *)
StablePartition ==
  pass = "done" =>
    /\ \A s \in Segs : Stably(s, out, seg_left[s])
    /\ out[0] = None /\ out[LastPosition] = None

=============================================================================
