--------------------------- MODULE MCRowPartition ----------------------------
(* Instances of BlockPartition, and with it of RowPartition, for TLC. *)
EXTENDS BlockPartition

Launch(width, coop, oneMemory, lens) ==
  [width |-> width, coop |-> coop, one_memory |-> oneMemory, lens |-> lens]

MCLaunches ==
  \* cubes side by side
  { Launch(2, TRUE, FALSE, <<3, 1>>),
  \* cubes in one memory; a number of units that is not a power of two
    Launch(4, TRUE, TRUE, <<3>>), Launch(4, TRUE, TRUE, <<5, 1>>), Launch(3, TRUE, TRUE, <<7>>),
  \* a unit for a tile; an empty segment
    Launch(2, FALSE, FALSE, <<3, 0, 3>>) }
=============================================================================
