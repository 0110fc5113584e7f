--------------------------- MODULE BlockPartition ----------------------------
(***************************************************************************)
(* Partitioner::split_all of src/tree/hist.rs: the same partition on the   *)
(* host, which TreeGrower takes as one step a node.  The device's ends     *)
(* first, and then the host partitions the same segments.                  *)
(*                                                                         *)
(* The nodes of a batch are parallel tasks on slices of one row index.  A  *)
(* large node has parallel tasks of its own: blocks of its rows count and  *)
(* remember which go left, the counts cut its slice of the scratch array   *)
(* into two slices for each block, and the blocks write their rows there,  *)
(* by what they remember and without a check of bounds.  A small node is   *)
(* one task, and writes its right rows from the back.                      *)
(***************************************************************************)
EXTENDS RowPartition

CONSTANTS
  BlockRows,    \* rows of a block
  ParallelMin   \* rows from which a node is partitioned by blocks

ASSUME BlockPartitionAssumption == BlockRows \in Nat \ {0} /\ ParallelMin \in Nat

VARIABLES
  row_indices, scratch,  \* position -> row
  decisions,    \* position -> whether the row that was there goes left
  left_counts,  \* segment -> block -> rows that go left
  block_at,     \* segment -> block -> 0, or 1 once counted and 1 more for each row scattered
  left_of       \* segment -> rows that go left once its task has ended, None before

host == <<row_indices, scratch, decisions, left_counts, block_at, left_of>>

Blocks(s) == 0 .. (launch.lens[s] + BlockRows - 1) \div BlockRows - 1
Low(s, b) == Begin(s) + b * BlockRows
BlockOf(s, b) == {p \in Low(s, b) .. Low(s, b) + BlockRows - 1 : p < Begin(s + 1)}
Slice(s) == Begin(s) .. Begin(s + 1) - 1

HostInit ==
  /\ Init
  /\ row_indices = [p \in Positions |-> p]
  /\ scratch = [p \in Positions |-> Stale]
  /\ decisions = [p \in Positions |-> FALSE]
  /\ left_counts = [s \in Segs |-> [b \in Blocks(s) |-> Stale]]
  /\ block_at = [s \in Segs |-> [b \in Blocks(s) |-> 0]]
  /\ left_of = [s \in Segs |-> None]

(* The tasks of the batch that have not ended.                             *)
Tasks(large) ==
  {s \in Segs : pass = "done" /\ left_of[s] = None /\ (launch.lens[s] >= ParallelMin <=> large)}

(* A block counts its left rows and remembers them.                        *)
CountBlock ==
  /\ \E s \in Tasks(TRUE) : \E b \in Blocks(s) :
       LET left == {p \in BlockOf(s, b) : goes_left[row_indices[p]]}
       IN /\ block_at[s][b] = 0
          /\ block_at' = [block_at EXCEPT ![s][b] = 1]
          /\ decisions' = [p \in Positions |-> IF p \in BlockOf(s, b) THEN p \in left
                                                                      ELSE decisions[p]]
          /\ left_counts' = [left_counts EXCEPT ![s][b] = Cardinality(left)]
  /\ UNCHANGED <<vars, row_indices, scratch, left_of>>

LeftBeforeBlock(s, b) == SumOf(left_counts[s], 0 .. b - 1)
LeftRows(s) == SumOf(left_counts[s], Blocks(s))

(* A mutated form: the right slices start as if blocks before had no left rows. *)
RightSlice_Uncut(s, b) == Begin(s) + LeftRows(s) + b * BlockRows

(* Where a block's slices of scratch start: those of the left part, one     *)
(* block after another, then those of the right part.                      *)
LeftSlice(s, b) == Begin(s) + LeftBeforeBlock(s, b)
RightSlice(s, b) == Begin(s) + LeftRows(s) + b * BlockRows - LeftBeforeBlock(s, b)

(* When all blocks of the node are counted, each scatters its rows in order. *)
ScatterRow ==
  /\ \E s \in Tasks(TRUE) : \E b \in Blocks(s) :
       LET p == Low(s, b) + block_at[s][b] - 1
           li == Cardinality({q \in Low(s, b) .. p - 1 : decisions[q]})
           ri == p - Low(s, b) - li
       IN /\ \A c \in Blocks(s) : block_at[s][c] > 0
          /\ p \in BlockOf(s, b)
          /\ block_at' = [block_at EXCEPT ![s][b] = @ + 1]
          /\ scratch' = [scratch EXCEPT ![IF decisions[p] THEN LeftSlice(s, b) + li
                                          ELSE RightSlice(s, b) + ri] = row_indices[p]]
  /\ UNCHANGED <<vars, row_indices, decisions, left_counts, left_of>>

(* The node's slice is copied back when its blocks have ended.             *)
CopyBack ==
  /\ \E s \in Tasks(TRUE) :
       /\ \A b \in Blocks(s) : block_at[s][b] = 1 + Cardinality(BlockOf(s, b))
       /\ row_indices' = [p \in Positions |-> IF p \in Slice(s) THEN scratch[p] ELSE row_indices[p]]
       /\ left_of' = [left_of EXCEPT ![s] = LeftRows(s)]
  /\ UNCHANGED <<vars, scratch, decisions, left_counts, block_at>>

(* partition_block: the left rows from the front, the others from the back, *)
(* and these turned round in the end.                                      *)
Put(sides, row) ==
  IF goes_left[row] THEN [sides EXCEPT !.front = Append(@, row)]
                    ELSE [sides EXCEPT !.back = <<row>> \o @]
PartitionBlock(rows) ==
  LET sides == FoldLeft(Put, [front |-> <<>>, back |-> <<>>], rows)
  IN [order |-> sides.front \o Reverse(sides.back), n_left |-> Len(sides.front)]

(* A small node is one task.                                               *)
PartitionSmall ==
  /\ \E s \in Tasks(FALSE) :
       LET done == PartitionBlock([j \in 1 .. launch.lens[s] |-> row_indices[Begin(s) + j - 1]])
           Dealt(order) == [p \in Positions |-> IF p \in Slice(s) THEN done.order[p - Begin(s) + 1]
                                                                  ELSE order[p]]
       IN /\ scratch' = Dealt(scratch)
          /\ row_indices' = Dealt(row_indices)
          /\ left_of' = [left_of EXCEPT ![s] = done.n_left]
  /\ UNCHANGED <<vars, decisions, left_counts, block_at>>

HostDone == pass = "done" /\ \A s \in Segs : left_of[s] # None

HostNext ==
  \/ Run /\ UNCHANGED host
  \/ CountBlock \/ ScatterRow \/ CopyBack \/ PartitionSmall
  \/ HostDone /\ UNCHANGED <<vars, host>>

HostSpec == HostInit /\ [][HostNext]_<<vars, host>>

-----------------------------------------------------------------------------
(* Properties. *)

(* "the result is identical to the serial partition": in whatever order the *)
(* nodes and blocks run, each node's rows end stably partitioned, as on the *)
(* device, and no row outside the batch is moved.                           *)
BlocksStable ==
  HostDone =>
    /\ \A s \in Segs : Stably(s, row_indices, left_of[s])
    /\ row_indices[0] = 0 /\ row_indices[LastPosition] = LastPosition

=============================================================================
