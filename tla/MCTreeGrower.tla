---------------------------- MODULE MCTreeGrower -----------------------------
(* Instances of TreeGrower for TLC. *)
EXTENDS TreeGrower, TLC

CONSTANTS r1, r2, r3, r4, r5

FourRows == {r1, r2, r3, r4}
FiveRows == {r1, r2, r3, r4, r5}
RowSymmetry == Permutations(Rows)

Setting(policy, depth, maxLeaves, loss, size) ==
  [grow_policy |-> policy, max_depth |-> depth, max_leaves |-> maxLeaves,
   min_split_loss |-> loss, batch_size |-> size]

(* Both policies, with each limit off and biting; batches that take a whole *)
(* level and batches that do not.                                           *)
AllSettings ==
  { Setting("DepthWise", 4, 0, 2, 2), Setting("DepthWise", 2, 0, 0, 2),
    Setting("DepthWise", 0, 3, 0, 1), Setting("DepthWise", 4, 0, 0, 1),
    Setting("DepthWise", 3, 0, 2, 1),
    Setting("LossGuide", 4, 0, 2, 1), Setting("LossGuide", 2, 3, 0, 1) }
=============================================================================
