---------------------------- MODULE MCGpuGrower ------------------------------
(* Instances of GpuGrower for TLC. *)
EXTENDS GpuGrower

Setting(policy, depth, maxLeaves, loss, rounds) ==
  [grow_policy |-> policy, max_depth |-> depth, max_leaves |-> maxLeaves,
   min_split_loss |-> loss, rounds |-> rounds]

(* Both policies, with each limit off and biting.                          *)
OneTree ==
  { Setting("DepthWise", 4, 0, 2, 1), Setting("DepthWise", 2, 0, 0, 1),
    Setting("LossGuide", 4, 0, 2, 1), Setting("LossGuide", 4, 0, 0, 1),
    Setting("LossGuide", 2, 3, 0, 1) }

(* A second tree over what the first leaves in the pool.                   *)
TwoTrees == OneTree \cup { Setting("DepthWise", 0, 3, 0, 2) }
=============================================================================
