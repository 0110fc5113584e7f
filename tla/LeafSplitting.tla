---------------------------- MODULE LeafSplitting ----------------------------
(***************************************************************************)
(* What growing a decision tree promises, whatever the driver does: the    *)
(* rows start in one leaf; a step replaces one leaf by two that share its  *)
(* rows out between them, neither empty; growth of a tree ends; another    *)
(* tree starts again from one leaf that holds every row.                   *)
(***************************************************************************)
EXTENDS Naturals

CONSTANTS Rows,      \* the rows of the training matrix
          MaxTrees   \* bound on the trees grown one after another

VARIABLES leaves,    \* the row sets of the leaves of the current tree
          grown,     \* growth of the current tree has ended
          round      \* how many trees were started

vars == <<leaves, grown, round>>

TypeOK ==
  /\ leaves \subseteq SUBSET Rows
  /\ grown \in BOOLEAN
  /\ round \in 1 .. MaxTrees

Init ==
  /\ leaves = {Rows}
  /\ grown = FALSE
  /\ round = 1

Split ==
  /\ ~grown
  /\ \E leaf \in leaves : \E left \in (SUBSET leaf) \ {{}, leaf} :
       leaves' = (leaves \ {leaf}) \cup {left, leaf \ left}
  /\ UNCHANGED <<grown, round>>

Stop ==
  /\ ~grown
  /\ grown' = TRUE
  /\ UNCHANGED <<leaves, round>>

NextTree ==
  /\ grown
  /\ round < MaxTrees
  /\ round' = round + 1
  /\ leaves' = {Rows}
  /\ grown' = FALSE

Next == Split \/ Stop \/ NextTree

Spec == Init /\ [][Next]_vars /\ WF_vars(Stop) /\ WF_vars(NextTree)

(* Every row is in exactly one leaf, so a tree gives every row one value.   *)
Partition ==
  /\ UNION leaves = Rows
  /\ {} \notin leaves
  /\ \A a, b \in leaves : a # b => a \cap b = {}
=============================================================================
