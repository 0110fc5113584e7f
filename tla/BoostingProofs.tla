---------------------------- MODULE BoostingProofs ---------------------------
(***************************************************************************)
(* Proofs about Boosting, for every fit, base, set of matrices and scores. *)
(*                                                                         *)
(* The properties follow from one inductive invariant.  Its parts build on *)
(* one another: types and the control state first; then the shape of the   *)
(* model, which says at which place a round puts the tree of a group and   *)
(* thereby which tree of the base an update revisits; from the shape, that *)
(* no two trees are alike; and from that, that the margins, which are      *)
(* updated in place by adding and taking away contributions, hold each     *)
(* tree of the model once.                                                 *)
(***************************************************************************)
EXTENDS Boosting, CommonLemmas, SequenceTheorems

(* Trees a round of the fit adds.                                          *)
PerRound == cfg.parallel * cfg.groups
(* One tree of vector leaves for all the groups.                           *)
VectorFit == cfg.multi /\ cfg.groups > 1
(* The values of pc.                                                       *)
Phases == {"round", "drop", "device", "gradient", "boost", "grow", "update", "rescale",
           "score", "finish", "done"}
(* The factors a weight is made of.                                        *)
Weights == Seq({"new", "drop"})

(* Place t belongs to the trees of round r for output group g.             *)
InBlock(t, r, g) ==
  /\ r > 0 /\ g < cfg.groups
  /\ (r - 1) * PerRound + g * cfg.parallel < t
  /\ t <= (r - 1) * PerRound + (g + 1) * cfg.parallel

(* The base was left by a fit of the same shape: as many parallel trees,   *)
(* and every tree in the place of its round and of its group. (A base      *)
(* without trees has any shape.)                                           *)
Continues ==
  /\ base.parallel = cfg.parallel
  /\ Len(base.trees) = base.rounds * PerRound
  /\ \A t \in DOMAIN base.trees : InBlock(t, base.trees[t].round, base.tree_info[t])

(* No leaf of the ensemble is a vector.                                    *)
ScalarTrees == ~VectorFit /\ \A t \in DOMAIN base.trees : ~base.trees[t].vector
(* The rounds that follow the fit are asked for its own matrix.            *)
OneMatrix == \A m, n \in Matrices : m = n

(* The fits whose margins the updates in place keep right: with dropout or *)
(* a modifying stage the matrix is the one that was binned, and a dropped  *)
(* or an updated tree has scalar leaves and a place of its own.            *)
Ordinary ==
  /\ cfg.dart \/ cfg.modifiers => OneMatrix \/ updates = 0
  /\ cfg.dart \/ cfg.update => ScalarTrees
  /\ cfg.update => Continues

(* Types; the three sequences of the model are of one length.              *)
TypeInv ==
  /\ pc \in Phases
  /\ \E f \in Fits : cfg = f.cfg /\ base = f.base
  /\ dtrain \in Matrices /\ binned \in Matrices
  /\ trees \in Seq(TreeType) /\ tree_info \in Seq(Nat) /\ tree_weight \in Seq(Weights)
  /\ Len(tree_info) = Len(trees) /\ Len(tree_weight) = Len(trees)
  /\ trees_to_update \in Seq(TreeType)
  /\ dropped \subseteq AllTrees
  /\ configured \in BOOLEAN
  /\ device = [preds |-> device.preds, host_stale |-> device.host_stale]
  /\ device.host_stale \in BOOLEAN
  /\ first \in Nat /\ at \in Nat \ {0} /\ fresh \in Nat /\ iter \in Nat /\ updates \in Nat

(* What the phase of a round says of the other variables.                  *)
ControlInv ==
  /\ ~configured => /\ pc = "round" /\ iter = 0 /\ updates = 0 /\ ~device.host_stale
                    /\ trees = base.trees /\ tree_info = base.tree_info
                    /\ trees_to_update = <<>> /\ fresh = Len(trees) + 1
  /\ pc \notin {"gradient", "boost", "grow", "update", "rescale"} => dropped = {}
  /\ dropped # {} => cfg.dart
  /\ device.host_stale => cfg.plain
  /\ pc = "device" => cfg.plain
  /\ pc \in {"gradient", "boost", "grow", "update", "rescale"} => ~cfg.plain
  /\ pc = "grow" => ~cfg.update
  /\ pc = "update" => cfg.update
  /\ pc \in {"grow", "update"} => at <= Turns
  /\ pc \in {"score", "finish"} => updates = 0
  /\ updates = 0 => dtrain = binned
  /\ cfg.update /\ configured => DOMAIN trees_to_update = DOMAIN base.trees

(* EarlyStopping: the best score is the first of the largest ones, and the *)
(* count of the rounds since is the distance to the end of the history.    *)
StopInv ==
  /\ stopper \in [best_score : Nat \cup {NaN}, best_iteration : Nat,
                  since_improvement : Nat, started : BOOLEAN]
  /\ history \in Seq(Nat \cup {NaN})
  /\ cfg.stop > 0 => Len(history) = iter /\ stopper.started = (history # <<>>)
  /\ cfg.stop > 0 /\ history # <<>> =>
       LET b == stopper.best_iteration + 1
       IN /\ b \in DOMAIN history /\ stopper.best_score = history[b]
          /\ IF history[1] = NaN THEN b = 1
             ELSE /\ history[b] # NaN
                  /\ \A i \in DOMAIN history : history[i] <= history[b]
                  /\ \A i \in 1 .. b - 1 : history[i] < history[b]
          /\ stopper.since_improvement = Len(history) - b
          /\ pc = "finish" => Len(history) - b = cfg.stop \/ Len(history) = cfg.rounds
          /\ pc \notin {"finish", "done"} /\ updates = 0 => Len(history) - b < cfg.stop

(* Rounds that have all their trees.                                       *)
Ran == iter + (IF updates > 0 THEN IF pc = "done" THEN updates ELSE updates - 1
               ELSE IF pc = "score" THEN 1 ELSE 0)
(* Rounds the model has after n of them have run.                          *)
Kept(n) == IF cfg.update THEN Smaller(base.rounds, n) ELSE base.rounds + n

(* Where the base is continued in its own shape, the model is the trees of *)
(* the rounds so far and of the turns of this one, each in the place of    *)
(* its round and group; an updated tree is the base's, and those not yet   *)
(* revisited are still set aside.                                          *)
ShapeInv ==
  Continues /\ ~VectorFit /\ configured =>
    /\ Len(trees) = CASE pc \in {"grow", "update"} -> Kept(Ran) * PerRound + at - 1
                      [] pc = "rescale"            -> Kept(Ran + 1) * PerRound
                      [] OTHER                     -> Kept(Ran) * PerRound
    /\ \A t \in AllTrees : InBlock(t, trees[t].round, tree_info[t])
    /\ pc = "update" => first = Kept(Ran) * PerRound
    /\ cfg.update =>
         /\ Len(trees) <= Len(base.trees)
         /\ \A t \in AllTrees : /\ trees[t].id = t
                                /\ trees[t].round = base.trees[t].round
                                /\ trees[t].vector = base.trees[t].vector
                                /\ tree_info[t] = base.tree_info[t]
         /\ \A t \in DOMAIN base.trees : t > Len(trees) => trees_to_update[t] = base.trees[t]

(* A tree is known by its place, so no two are alike.                      *)
IdentityInv ==
  (cfg.update => Continues) =>
    /\ \A t \in AllTrees : trees[t].id = t
    /\ ~cfg.update => fresh = Len(trees) + 1
    /\ ScalarTrees => \A t \in AllTrees : ~trees[t].vector

(* A margin that holds each contribution of S once.                        *)
Ones(S) == [x \in S |-> 1]
(* What tree t adds to the margins of the binned matrix.                   *)
Of(t) == Leaf(trees[t], tree_info[t], tree_weight[t], binned)
(* What the trees at the places P add.                                     *)
Contributions(P) == UNION {Of(t) : t \in P}
(* The margins that are up to date.                                        *)
Current == IF device.host_stale THEN device.preds ELSE train_cache

(* The margins hold the trees that are not dropped, each once, in its form *)
(* and at its weight: during the round and after it.                       *)
MarginInv ==
  Ordinary /\ configured => Current = Ones(Contributions(AllTrees \ dropped))

(* The bins of an approx tree were sketched by the hessians of its own     *)
(* round and group.                                                        *)
CutsInv ==
  cfg.approx =>
    /\ cfg.constant => cuts \in {<<>>, <<[group |-> 0, margins |-> Nothing]>>}
    /\ pc \in {"grow", "rescale"} /\ at > 1 => cuts = <<Hessians((at - 2) \div cfg.parallel)>>

(* The gradients were taken from the margins the round started with, and   *)
(* the score is that of the model.                                         *)
FitInv ==
  /\ Ordinary /\ pc = "boost" =>
       gpair = [margins |-> Ones(Contributions(AllTrees \ dropped)), labels |-> dtrain]
  /\ Ordinary /\ pc = "score" /\ cfg.plain =>
       gpair = [margins |-> Ones(Contributions(AllTrees \ {Len(trees)})), labels |-> binned]
  /\ Ordinary => ScoresCurrentModel

(* The inductive invariant.                                                *)
IInv == /\ TypeInv /\ ControlInv /\ StopInv /\ ShapeInv /\ IdentityInv /\ MarginInv
        /\ CutsInv /\ FitInv

(* The model a fit leaves is one that a later fit of the same shape can    *)
(* continue: each tree in the place of its round and group.                *)
LeavesBase ==
  pc = "done" /\ ~VectorFit =>
    /\ Len(trees) = RoundsRun * PerRound
    /\ \A t \in AllTrees : trees[t].id = t /\ InBlock(t, trees[t].round, tree_info[t])

-----------------------------------------------------------------------------
(* Types and phases.                                                       *)

(* A quotient of natural numbers is one.                                   *)
LEMMA DivType ==
  ASSUME NEW n \in Nat, NEW d \in Nat \ {0}
  PROVE  n \div d \in Nat
OBVIOUS

(* The weight of a new tree.                                               *)
LEMMA NewWeightType == NewWeight \in Weights
<1>1. <<>> \in Seq({"new", "drop"})
  OBVIOUS
<1>2. <<"new">> \in Seq({"new", "drop"})
  <2>1. "new" \in {"new", "drop"}
    OBVIOUS
  <2> QED BY <2>1
<1> QED BY <1>1, <1>2, Zenon DEF NewWeight, Weights

(* What the assumption says of the fit and its base.                       *)
LEMMA FitFacts ==
  ASSUME TypeInv
  PROVE  /\ cfg \in ConfigType /\ Supported(cfg) /\ Ensemble(base)
         /\ cfg.update => base.trees # <<>>
         /\ cfg.groups \in Nat \ {0} /\ cfg.parallel \in Nat \ {0}
         /\ PerRound \in Nat \ {0}
<1>1. PICK f \in Fits : cfg = f.cfg /\ base = f.base
  BY DEF TypeInv
<1>2. /\ cfg \in ConfigType /\ Supported(cfg) /\ Ensemble(base)
      /\ cfg.update => base.trees # <<>>
  BY <1>1, BoostingAssumption
<1>3. cfg.groups \in Nat \ {0} /\ cfg.parallel \in Nat \ {0}
  BY <1>2 DEF ConfigType
<1>4. PerRound \in Nat \ {0}
  BY <1>3 DEF PerRound
<1> QED BY <1>2, <1>3, <1>4

(* The ensemble an update revisits was set aside before, so do_boost finds *)
(* nothing to set aside.                                                   *)
LEMMA DoBoostKeeps ==
  ASSUME TypeInv, ControlInv, DoBoost
  PROVE  UNCHANGED <<trees, tree_info, tree_weight, trees_to_update>>
<1>1. configured /\ pc = "boost"
  BY DEF ControlInv, DoBoost
<1>2. cfg.update => trees_to_update # <<>>
  <2> SUFFICES ASSUME cfg.update PROVE trees_to_update # <<>>
    OBVIOUS
  <2>1. DOMAIN trees_to_update = DOMAIN base.trees /\ base.trees # <<>>
    BY <1>1, FitFacts DEF ControlInv
  <2>2. base.trees \in Seq(TreeType)
    BY FitFacts DEF Ensemble
  <2> QED BY <2>1, <2>2
<1> QED BY <1>2 DEF DoBoost, SetAside, model

(* A pushed tree is the last one, and the others stay what they were.      *)
LEMMA PushType ==
  ASSUME TypeInv, NEW tree \in TreeType, NEW group \in Nat, NEW w \in Weights,
         PushTree(tree, group, w)
  PROVE  /\ trees' \in Seq(TreeType) /\ tree_info' \in Seq(Nat) /\ tree_weight' \in Seq(Weights)
         /\ Len(trees') = Len(trees) + 1 /\ Len(tree_info') = Len(trees')
         /\ Len(tree_weight') = Len(trees')
         /\ trees'[Len(trees')] = tree /\ tree_info'[Len(trees')] = group
         /\ tree_weight'[Len(trees')] = w
         /\ \A t \in AllTrees : /\ trees'[t] = trees[t] /\ tree_info'[t] = tree_info[t]
                                /\ tree_weight'[t] = tree_weight[t]
BY DEF TypeInv, PushTree, AllTrees

(* A tree that is grown.                                                   *)
LEMMA GrownType ==
  ASSUME TypeInv, NEW v \in BOOLEAN
  PROVE  Grown(v, ThisRound) \in TreeType
<1>1. base.rounds \in Nat
  BY FitFacts DEF Ensemble
<1>2. ThisRound \in Nat
  <2>1. iter \in Nat /\ updates \in Nat
    BY DEF TypeInv
  <2> QED BY <1>1, <2>1 DEF ThisRound
<1> QED BY <1>2 DEF Grown, TreeType, TypeInv

(* Init: types and phase.                                                  *)
LEMMA InitInv == Init => TypeInv /\ ControlInv
<1> SUFFICES ASSUME Init PROVE TypeInv /\ ControlInv
  OBVIOUS
<1>1. PICK f \in Fits : cfg = f.cfg /\ base = f.base
  BY DEF Init
<1>2. Ensemble(base)
  BY <1>1, BoostingAssumption
<1>3. tree_weight \in Seq(Weights) /\ Len(tree_weight) = Len(trees)
  <2>1. <<>> \in Weights
    BY DEF Weights
  <2>2. base.trees \in Seq(TreeType)
    BY <1>2 DEF Ensemble
  <2>3. tree_weight = [i \in 1 .. Len(base.trees) |-> <<>>] /\ trees = base.trees
    BY <2>2 DEF Init
  <2>4. Len(base.trees) \in Nat
    BY <2>2
  <2> QED BY <2>1, <2>3, <2>4
<1>4. TypeInv
  <2>1. \E fit \in Fits : cfg = fit.cfg /\ base = fit.base
    BY <1>1
  <2>2. /\ trees \in Seq(TreeType) /\ tree_info \in Seq(Nat)
        /\ Len(tree_info) = Len(trees) /\ Len(trees) \in Nat
    BY <1>2 DEF Init, Ensemble
  <2>3. <<>> \in Seq(TreeType)
    OBVIOUS
  <2>4. device = [preds |-> device.preds, host_stale |-> device.host_stale]
    BY DEF Init
  <2>5. /\ device.host_stale \in BOOLEAN /\ configured \in BOOLEAN /\ pc \in Phases
        /\ dropped \subseteq AllTrees /\ dtrain \in Matrices /\ binned \in Matrices
        /\ trees_to_update \in Seq(TreeType)
    BY <2>3 DEF Init, Phases
  <2>6. first \in Nat /\ at \in Nat \ {0} /\ fresh \in Nat /\ iter \in Nat /\ updates \in Nat
    BY <2>2 DEF Init
  <2> QED BY <1>3, <2>1, <2>2, <2>4, <2>5, <2>6 DEF TypeInv
<1>5. ControlInv
  BY DEF Init, ControlInv
<1> QED BY <1>4, <1>5

(* A step keeps the types.                                                 *)
LEMMA TypeNext == TypeInv /\ ControlInv /\ [Next]_vars => TypeInv'
<1> SUFFICES ASSUME TypeInv, ControlInv, [Next]_vars PROVE TypeInv'
  OBVIOUS
<1> USE DEF AllTrees, Phases
<1>1. CASE Configure
  <2>1. dropped = {} /\ pc = "round" /\ pc' = "drop"
    BY <1>1 DEF Configure, ControlInv
  <2>2. CASE configured \/ ~(cfg.update /\ trees_to_update = <<>>)
    BY <1>1, <2>1, <2>2 DEF Configure, SetAside, TypeInv, model, evaluation
  <2>3. CASE ~configured /\ cfg.update /\ trees_to_update = <<>>
    BY <1>1, <2>1, <2>3 DEF Configure, SetAside, TypeInv, model, evaluation
  <2> QED BY <2>2, <2>3
<1>2. CASE PreBoost
  BY <1>2 DEF PreBoost, TypeInv, model, evaluation
<1>3. CASE DeviceRound
  <2>1. <<>> \in Weights
    BY DEF Weights
  <2>2. PushTree(Grown(FALSE, ThisRound), 0, <<>>)
    BY <1>3 DEF DeviceRound
  <2>3. /\ device' = [preds |-> device'.preds, host_stale |-> device'.host_stale]
        /\ device'.host_stale \in BOOLEAN
        /\ fresh' = fresh + 1
    BY <1>3 DEF DeviceRound
  <2>4. pc' \in Phases /\ dropped' = dropped
    BY <1>3 DEF DeviceRound, EndOfRound
  <2>5. UNCHANGED <<cfg, base, dtrain, iter, updates, trees_to_update, configured, binned,
                    first, at>>
    BY <1>3 DEF DeviceRound
  <2>6. /\ trees' \in Seq(TreeType) /\ tree_info' \in Seq(Nat) /\ tree_weight' \in Seq(Weights)
        /\ Len(trees') = Len(trees) + 1 /\ Len(tree_info') = Len(trees')
        /\ Len(tree_weight') = Len(trees')
    BY <2>1, <2>2, PushType, GrownType
  <2> QED BY <2>3, <2>4, <2>5, <2>6 DEF TypeInv
<1>4. CASE GetGradient
  BY <1>4 DEF GetGradient, Sync, TypeInv, model, evaluation
<1>5. CASE DoBoost
  <2>1. cfg.groups \in Nat \ {0} /\ cfg.parallel \in Nat \ {0}
    BY FitFacts
  <2>2. first' \in Nat /\ at' = 1
    <3> DEFINE N == cfg.parallel * cfg.groups
    <3>1. N \in Nat \ {0} /\ Len(trees) \in Nat
      <4>1. N \in Nat \ {0}
        BY <2>1
      <4>2. Len(trees) \in Nat
        BY DEF TypeInv
      <4> QED BY <4>1, <4>2
    <3>2. first' = (Len(trees) \div N) * N
      BY <1>5 DEF DoBoost
    <3> HIDE DEF N
    <3>3. Len(trees) \div N \in Nat
      BY <3>1
    <3> QED BY <1>5, <3>1, <3>2, <3>3 DEF DoBoost
  <2>3. pc' \in Phases
    BY <1>5 DEF DoBoost
  <2> QED BY <1>5, <2>2, <2>3, DoBoostKeeps DEF DoBoost, TypeInv, evaluation
<1>6. CASE GrowTree
  <2> DEFINE gid == (at - 1) \div cfg.parallel
             tree == Grown(FALSE, ThisRound)
             rewritten == [tree EXCEPT !.form = "modified"]
  <2>1. PushTree(tree, gid, NewWeight) \/ PushTree(rewritten, gid, NewWeight)
    BY <1>6 DEF GrowTree
  <2>2. gid \in Nat
    <3>1. at - 1 \in Nat
      BY DEF TypeInv
    <3> QED BY <3>1, FitFacts, DivType
  <2>3. tree \in TreeType
    BY GrownType
  <2>4. rewritten \in TreeType
    BY <2>3 DEF TreeType
  <2>5. NewWeight \in Weights
    BY NewWeightType
  <2>6. pc' \in Phases /\ fresh' = fresh + 1 /\ at' = at + 1
    BY <1>6 DEF GrowTree, NextTurn
  <2>7. UNCHANGED <<cfg, base, dtrain, iter, updates, trees_to_update, dropped, configured,
                    binned, device, first>>
    BY <1>6 DEF GrowTree
  <2> HIDE DEF gid, tree, rewritten
  <2>8. /\ trees' \in Seq(TreeType) /\ tree_info' \in Seq(Nat) /\ tree_weight' \in Seq(Weights)
        /\ Len(trees') = Len(trees) + 1 /\ Len(tree_info') = Len(trees')
        /\ Len(tree_weight') = Len(trees')
    BY <2>1, <2>2, <2>3, <2>4, <2>5, PushType
  <2> QED BY <2>6, <2>7, <2>8 DEF TypeInv
<1>7. CASE GrowVectorTree
  <2>1. PushTree(Grown(TRUE, ThisRound), 0, NewWeight)
    BY <1>7 DEF GrowVectorTree
  <2>2. NewWeight \in Weights
    BY NewWeightType
  <2>3. pc' \in Phases /\ fresh' = fresh + 1 /\ at' = at + 1
    BY <1>7 DEF GrowVectorTree, NextTurn
  <2>4. UNCHANGED <<cfg, base, dtrain, iter, updates, trees_to_update, dropped, configured,
                    binned, device, first>>
    BY <1>7 DEF GrowVectorTree
  <2>5. /\ trees' \in Seq(TreeType) /\ tree_info' \in Seq(Nat) /\ tree_weight' \in Seq(Weights)
        /\ Len(trees') = Len(trees) + 1 /\ Len(tree_info') = Len(trees')
        /\ Len(tree_weight') = Len(trees')
    BY <2>1, <2>2, PushType, GrownType
  <2> QED BY <2>3, <2>4, <2>5 DEF TypeInv
<1>8. CASE UpdateTree
  <2> DEFINE gid == (at - 1) \div cfg.parallel
  <2>1. PICK form \in {trees_to_update[Slot].form, "modified"} :
          PushTree([trees_to_update[Slot] EXCEPT !.form = form], gid, <<>>)
    BY <1>8 DEF UpdateTree
  <2>2. trees_to_update[Slot] \in TreeType
    BY <1>8 DEF UpdateTree, TypeInv
  <2> DEFINE tree == [trees_to_update[Slot] EXCEPT !.form = form]
  <2>3. tree \in TreeType
    BY <2>2 DEF TreeType
  <2>4. gid \in Nat
    <3>1. at - 1 \in Nat
      BY DEF TypeInv
    <3> QED BY <3>1, FitFacts, DivType
  <2>5. trees_to_update' \in Seq(TreeType)
    <3>1. trees_to_update' = [trees_to_update EXCEPT ![Slot].id = 0, ![Slot].form = "taken"]
      BY <1>8 DEF UpdateTree
    <3>2. trees_to_update \in Seq(TreeType) /\ Slot \in DOMAIN trees_to_update
      BY <1>8 DEF UpdateTree, TypeInv
    <3>3. [[trees_to_update[Slot] EXCEPT !.id = 0] EXCEPT !.form = "taken"] \in TreeType
      BY <2>2 DEF TreeType
    <3>4. trees_to_update' = [trees_to_update EXCEPT ![Slot] =
                                [[trees_to_update[Slot] EXCEPT !.id = 0] EXCEPT !.form = "taken"]]
      BY <3>1, <3>2
    <3> QED BY <3>2, <3>3, <3>4
  <2>6. <<>> \in Weights
    BY DEF Weights
  <2>7. pc' \in Phases /\ at' = at + 1
    BY <1>8 DEF UpdateTree, NextTurn
  <2>8. UNCHANGED <<cfg, base, dtrain, iter, updates, dropped, configured, fresh,
                    binned, device, first>>
    BY <1>8 DEF UpdateTree
  <2> HIDE DEF gid, tree
  <2>9. PushTree(tree, gid, <<>>)
    BY <2>1 DEF tree
  <2>10. /\ trees' \in Seq(TreeType) /\ tree_info' \in Seq(Nat) /\ tree_weight' \in Seq(Weights)
         /\ Len(trees') = Len(trees) + 1 /\ Len(tree_info') = Len(trees')
         /\ Len(tree_weight') = Len(trees')
    BY <2>3, <2>4, <2>6, <2>9, PushType
  <2> QED BY <2>5, <2>7, <2>8, <2>10 DEF TypeInv
<1>9. CASE UpdateNothing
  BY <1>9 DEF UpdateNothing, TypeInv, model, evaluation
<1>10. CASE RescaleDropped
  <2>1. tree_weight' \in Seq(Weights) /\ Len(tree_weight') = Len(trees)
    <3>1. \A t \in AllTrees : /\ Append(tree_weight[t], "drop") \in Weights
                              /\ tree_weight[t] \in Weights
      BY DEF TypeInv, Weights
    <3>2. tree_weight' = [t \in 1 .. Len(trees) |->
                            IF t \in dropped THEN Append(tree_weight[t], "drop")
                                             ELSE tree_weight[t]]
      BY <1>10 DEF RescaleDropped
    <3>3. Len(trees) \in Nat
      BY DEF TypeInv
    <3> HIDE DEF Weights
    <3> QED BY <3>1, <3>2, <3>3
  <2>2. pc' \in Phases /\ dropped' = {}
    BY <1>10 DEF RescaleDropped, EndOfRound
  <2>3. UNCHANGED <<cfg, base, dtrain, iter, updates, trees, tree_info, trees_to_update,
                 configured, binned, device, first, at, fresh>>
    BY <1>10 DEF RescaleDropped
  <2> QED BY <2>1, <2>2, <2>3 DEF TypeInv
<1>11. CASE Score
  <2>1. /\ device' = [preds |-> device'.preds, host_stale |-> device'.host_stale]
        /\ device'.host_stale \in BOOLEAN
    BY <1>11 DEF Score, EvalTrain, Sync, TypeInv
  <2>2. pc' \in Phases /\ iter' = iter + 1
    BY <1>11 DEF Score
  <2>3. UNCHANGED <<cfg, base, dtrain, updates, trees, tree_info, tree_weight, trees_to_update,
                    dropped, configured, binned, first, at, fresh>>
    BY <1>11 DEF Score, model
  <2> QED BY <2>1, <2>2, <2>3 DEF TypeInv
<1>12. CASE Finish
  BY <1>12 DEF Finish, Sync, TypeInv, model, evaluation
<1>13. CASE Update
  BY <1>13 DEF Update, TypeInv, model, evaluation
<1>14. CASE UNCHANGED vars
  BY <1>14 DEF vars, TypeInv, model, control, evaluation
<1> QED BY <1>1, <1>2, <1>3, <1>4, <1>5, <1>6, <1>7, <1>8, <1>9, <1>10, <1>11, <1>12, <1>13,
           <1>14 DEF Next, Finished

(* The turns of a round.                                                   *)
LEMMA TurnsType ==
  ASSUME TypeInv
  PROVE  Turns \in Nat \ {0} /\ (~VectorFit => Turns = PerRound)
<1>1. cfg.groups \in Nat \ {0} /\ cfg.parallel \in Nat \ {0}
  BY FitFacts
<1> QED BY <1>1 DEF Turns, VectorFit, PerRound

(* A step keeps what the phase says.                                       *)
LEMMA ControlNext == TypeInv /\ ControlInv /\ [Next]_vars => ControlInv'
<1> SUFFICES ASSUME TypeInv, ControlInv, [Next]_vars PROVE ControlInv'
  OBVIOUS
<1>1. CASE Configure
  <2>1. /\ pc = "round" /\ pc' = "drop"
        /\ UNCHANGED <<cfg, base, dtrain, iter, updates, dropped, device, first, at, fresh>>
    BY <1>1 DEF Configure
  <2>2. CASE configured
    <3>1. UNCHANGED <<trees_to_update, configured, binned>>
      BY <1>1, <2>2 DEF Configure
    <3> QED BY <2>1, <2>2, <3>1 DEF ControlInv
  <2>3. CASE ~configured
    <3>1. configured' = TRUE /\ binned' = dtrain
      BY <1>1, <2>3 DEF Configure
    <3>2. trees = base.trees /\ trees_to_update = <<>>
      BY <2>3 DEF ControlInv
    <3>3. cfg.update => trees_to_update' = trees
      BY <1>1, <2>3, <3>2 DEF Configure, SetAside
    <3> QED BY <2>1, <3>1, <3>2, <3>3 DEF ControlInv
  <2> QED BY <2>2, <2>3 DEF TypeInv
<1>2. CASE PreBoost
  <2>1. /\ pc = "drop" /\ pc' = IF cfg.plain THEN "device" ELSE "gradient"
        /\ UNCHANGED <<cfg, base, dtrain, iter, updates, trees, trees_to_update, configured,
                       binned, device, at, fresh>>
    BY <1>2 DEF PreBoost, model
  <2>2. dropped' # {} => cfg.dart
    BY <1>2 DEF PreBoost
  <2>3. cfg.plain => ~cfg.dart
    BY FitFacts DEF Supported
  <2> QED BY <2>1, <2>2, <2>3 DEF ControlInv
<1>3. CASE DeviceRound
  <2>1. /\ pc = "device" /\ pc' = EndOfRound
        /\ UNCHANGED <<cfg, base, dtrain, iter, updates, trees_to_update, dropped, configured,
                       binned>>
    BY <1>3 DEF DeviceRound
  <2> QED BY <2>1 DEF ControlInv, EndOfRound
<1>4. CASE GetGradient
  <2>1. /\ pc = "gradient" /\ pc' = "boost"
        /\ UNCHANGED <<cfg, base, dtrain, iter, updates, trees, trees_to_update, dropped,
                       configured, binned, at, fresh>>
    BY <1>4 DEF GetGradient, model
  <2>2. device' = device
    BY <1>4, <2>1 DEF GetGradient, Sync, ControlInv
  <2> QED BY <2>1, <2>2 DEF ControlInv
<1>5. CASE DoBoost
  <2>1. /\ pc = "boost" /\ pc' = IF cfg.update THEN "update" ELSE "grow"
        /\ at' = 1
        /\ UNCHANGED <<cfg, base, dtrain, iter, updates, dropped, configured, binned, device,
                       fresh>>
    BY <1>5 DEF DoBoost
  <2>2. UNCHANGED <<trees, trees_to_update>>
    BY <1>5, DoBoostKeeps
  <2>3. Turns' = Turns /\ 1 <= Turns
    BY <2>1, TurnsType DEF Turns
  <2> QED BY <2>1, <2>2, <2>3 DEF ControlInv
<1>6. CASE GrowTree \/ GrowVectorTree
  <2>1. /\ pc = "grow" /\ at' = at + 1 /\ pc' = IF at = Turns THEN "rescale" ELSE "grow"
        /\ UNCHANGED <<cfg, base, dtrain, iter, updates, trees_to_update, dropped, configured,
                       binned, device>>
    BY <1>6 DEF GrowTree, GrowVectorTree, NextTurn
  <2>2. Turns' = Turns /\ at <= Turns /\ Turns \in Nat /\ at \in Nat
    BY <2>1, TurnsType DEF Turns, ControlInv, TypeInv
  <2> QED BY <2>1, <2>2 DEF ControlInv
<1>7. CASE UpdateTree
  <2>1. /\ pc = "update" /\ at' = at + 1 /\ pc' = IF at = Turns THEN "rescale" ELSE "update"
        /\ UNCHANGED <<cfg, base, dtrain, iter, updates, dropped, configured, binned, device>>
        /\ trees_to_update' = [trees_to_update EXCEPT ![Slot].id = 0, ![Slot].form = "taken"]
    BY <1>7 DEF UpdateTree, NextTurn
  <2>2. Turns' = Turns /\ at <= Turns /\ Turns \in Nat /\ at \in Nat
    BY <2>1, TurnsType DEF Turns, ControlInv, TypeInv
  <2>3. DOMAIN trees_to_update' = DOMAIN trees_to_update
    BY <2>1
  <2> QED BY <2>1, <2>2, <2>3 DEF ControlInv
<1>8. CASE UpdateNothing
  <2>1. /\ pc = "update" /\ pc' = "rescale"
        /\ UNCHANGED <<cfg, base, dtrain, iter, updates, trees, trees_to_update, dropped,
                       configured, binned, device, at, fresh>>
    BY <1>8 DEF UpdateNothing, model
  <2> QED BY <2>1 DEF ControlInv
<1>9. CASE RescaleDropped
  <2>1. /\ pc = "rescale" /\ pc' = EndOfRound /\ dropped' = {}
        /\ UNCHANGED <<cfg, base, dtrain, iter, updates, trees, trees_to_update,
                       configured, binned, device, at, fresh>>
    BY <1>9 DEF RescaleDropped
  <2> QED BY <2>1 DEF ControlInv, EndOfRound
<1>10. CASE Score
  <2>1. /\ pc = "score" /\ pc' \in {"finish", "round"} /\ iter' = iter + 1
        /\ UNCHANGED <<cfg, base, dtrain, updates, trees, trees_to_update, dropped, configured,
                       binned, at, fresh>>
    BY <1>10 DEF Score, model
  <2>2. device'.host_stale => device.host_stale
    BY <1>10 DEF Score, EvalTrain, Sync, TypeInv
  <2> QED BY <2>1, <2>2 DEF ControlInv
<1>11. CASE Finish
  <2>1. /\ pc = "finish" /\ pc' = "done"
        /\ UNCHANGED <<cfg, base, dtrain, iter, updates, trees, trees_to_update, dropped,
                       configured, binned, at, fresh>>
    BY <1>11 DEF Finish, model
  <2>2. device'.host_stale => device.host_stale
    BY <1>11 DEF Finish, Sync, TypeInv
  <2> QED BY <2>1, <2>2 DEF ControlInv
<1>12. CASE Update
  <2>1. /\ pc = "done" /\ pc' = "round" /\ updates' = updates + 1 /\ updates \in Nat
        /\ UNCHANGED <<cfg, base, iter, trees, trees_to_update, dropped, configured, binned,
                       device, at, fresh>>
    BY <1>12 DEF Update, model, TypeInv
  <2> QED BY <2>1 DEF ControlInv
<1>13. CASE UNCHANGED vars
  BY <1>13 DEF vars, ControlInv, model, control, Turns
<1> QED BY <1>1, <1>2, <1>3, <1>4, <1>5, <1>6, <1>7, <1>8, <1>9, <1>10, <1>11, <1>12, <1>13
        DEF Next, Finished

-----------------------------------------------------------------------------
(* Early stopping.                                                         *)

(* Init: early stopping.                                                   *)
LEMMA InitStop == Init => StopInv
<1> SUFFICES ASSUME Init PROVE StopInv
  OBVIOUS
<1>1. history = <<>> /\ stopper = NoStopper /\ iter = 0
  BY DEF Init
<1>2. history \in Seq(Nat \cup {NaN}) /\ Len(history) = 0
  BY <1>1
<1>3. stopper \in [best_score : Nat \cup {NaN}, best_iteration : Nat,
                  since_improvement : Nat, started : BOOLEAN] /\ stopper.started = FALSE
  BY <1>1 DEF NoStopper
<1> QED BY <1>1, <1>2, <1>3 DEF StopInv

(* A step keeps the state of early stopping: only Score touches it.        *)
LEMMA StopNext == TypeInv /\ ControlInv /\ StopInv /\ [Next]_vars => StopInv'
<1> SUFFICES ASSUME TypeInv, ControlInv, StopInv, [Next]_vars PROVE StopInv'
  OBVIOUS
<1>1. CASE Score
  <2>1. /\ pc = "score" /\ updates = 0 /\ iter \in Nat /\ iter' = iter + 1
        /\ UNCHANGED <<cfg, updates>>
        /\ pc' = IF \/ cfg.stop > 0 /\ stopper'.since_improvement >= cfg.stop
                    \/ iter' = cfg.rounds
                 THEN "finish" ELSE "round"
    BY <1>1 DEF Score, ControlInv, TypeInv
  <2>2. cfg.stop \in Nat
    BY FitFacts DEF ConfigType
  <2>3. CASE cfg.stop = 0
    <3>1. UNCHANGED <<history, stopper>>
      BY <1>1, <2>3 DEF Score
    <3> QED BY <2>1, <2>3, <3>1 DEF StopInv
  <2>4. CASE cfg.stop > 0
    <3>1. PICK score \in Scores : history' = Append(history, score) /\ stopper' = Stopper(score)
      BY <1>1, <2>4 DEF Score
    <3>2. score \in Nat \cup {NaN}
      BY BoostingAssumption
    <3> DEFINE n == Len(history)
               S == Nat \cup {NaN}
    <3>3. /\ history \in Seq(S) /\ n \in Nat /\ n = iter
          /\ history' \in Seq(S) /\ Len(history') = n + 1 /\ DOMAIN history' = 1 .. n + 1
          /\ history'[n + 1] = score /\ \A i \in 1 .. n : history'[i] = history[i]
          /\ DOMAIN history = 1 .. n
      BY <2>4, <3>1, <3>2 DEF StopInv
    <3>4. /\ stopper \in [best_score : S, best_iteration : Nat,
                          since_improvement : Nat, started : BOOLEAN]
          /\ stopper.started = (history # <<>>)
      BY <2>4 DEF StopInv
    <3>5. stopper' \in [best_score : S, best_iteration : Nat,
                        since_improvement : Nat, started : BOOLEAN]
      <4>1. CASE Improves(score)
        BY <2>1, <3>1, <3>2, <4>1 DEF Stopper
      <4>2. CASE ~Improves(score)
        BY <3>1, <3>4, <4>2 DEF Stopper
      <4> QED BY <4>1, <4>2
    <3>6. stopper'.started = TRUE
      BY <3>1, <3>4 DEF Stopper, Improves
    <3>7. history' # <<>>
      BY <3>3
    <3> DEFINE b == stopper.best_iteration + 1
               c == stopper'.best_iteration + 1
    <3>8. /\ c \in 1 .. n + 1 /\ stopper'.best_score = history'[c]
          /\ IF history'[1] = NaN THEN c = 1
             ELSE /\ history'[c] # NaN
                  /\ \A i \in 1 .. n + 1 : history'[i] <= history'[c]
                  /\ \A i \in 1 .. c - 1 : history'[i] < history'[c]
          /\ stopper'.since_improvement = n + 1 - c
          /\ n + 1 - c <= cfg.stop
      <4>1. CASE history = <<>>
        <5>1. n = 0 /\ Improves(score)
          BY <3>3, <3>4, <4>1 DEF Improves
        <5>2. stopper' = [best_score |-> score, best_iteration |-> 0, since_improvement |-> 0,
                          started |-> TRUE]
          BY <3>1, <3>3, <5>1 DEF Stopper
        <5> QED BY <2>2, <2>4, <3>2, <3>3, <5>1, <5>2 DEF NaN
      <4>2. CASE history # <<>>
        <5>1. /\ b \in 1 .. n /\ stopper.best_score = history[b]
              /\ IF history[1] = NaN THEN b = 1
                 ELSE /\ history[b] # NaN
                      /\ \A i \in 1 .. n : history[i] <= history[b]
                      /\ \A i \in 1 .. b - 1 : history[i] < history[b]
              /\ stopper.since_improvement = n - b
              /\ n - b < cfg.stop
          BY <2>1, <2>4, <3>3, <4>2 DEF StopInv
        <5>2. stopper.started = TRUE /\ 1 \in 1 .. n /\ history'[1] = history[1]
          BY <3>3, <3>4, <4>2, <5>1
        <5>3. \A i \in 1 .. n : history[i] \in S
          BY <3>3
        <5>4. CASE Improves(score)
          <6>1. /\ stopper' = [best_score |-> score, best_iteration |-> n, since_improvement |-> 0,
                               started |-> TRUE]
                /\ score # NaN /\ history[b] # NaN /\ score > history[b]
            BY <3>1, <3>3, <5>1, <5>2, <5>4 DEF Stopper, Improves
          <6>2. c = n + 1 /\ stopper'.best_score = score /\ stopper'.since_improvement = 0
            BY <3>3, <6>1
          <6>3. history[1] # NaN /\ \A i \in 1 .. n : history[i] < score
            BY <3>2, <5>1, <5>3, <6>1 DEF NaN
          <6> HIDE DEF c, b, n
          <6> QED BY <2>2, <3>2, <3>3, <5>2, <6>1, <6>2, <6>3 DEF NaN
        <5>5. CASE ~Improves(score)
          <6>1. stopper' = [stopper EXCEPT !.since_improvement = @ + 1]
            BY <3>1, <5>5 DEF Stopper
          <6>2. /\ c = b /\ stopper'.best_score = history[b]
                /\ stopper'.since_improvement = n - b + 1
            BY <3>4, <5>1, <6>1
          <6>3. history[1] # NaN => score <= history[b]
            BY <3>2, <5>1, <5>2, <5>3, <5>5 DEF Improves, NaN
          <6> HIDE DEF c, b, n
          <6> QED BY <2>2, <3>2, <3>3, <5>1, <5>2, <5>3, <6>2, <6>3 DEF NaN
        <5> QED BY <5>4, <5>5
      <4> QED BY <4>1, <4>2
    <3>9. /\ pc' = "finish" => n + 1 - c = cfg.stop \/ n + 1 = cfg.rounds
          /\ pc' # "finish" => n + 1 - c < cfg.stop
      <4>1. c \in Int
        BY <3>8
      <4> HIDE DEF c, n
      <4> QED BY <2>1, <2>2, <2>4, <3>3, <3>8, <4>1
    <3>10. cfg.stop' > 0 => Len(history') = iter' /\ stopper'.started = (history' # <<>>)
      BY <2>1, <3>3, <3>6, <3>7
    <3>11. /\ c \in DOMAIN history' /\ stopper'.best_score = history'[c]
           /\ IF history'[1] = NaN THEN c = 1
              ELSE /\ history'[c] # NaN
                   /\ \A i \in DOMAIN history' : history'[i] <= history'[c]
                   /\ \A i \in 1 .. c - 1 : history'[i] < history'[c]
           /\ stopper'.since_improvement = Len(history') - c
           /\ pc' = "finish" => Len(history') - c = cfg'.stop \/ Len(history') = cfg'.rounds
           /\ pc' # "finish" => Len(history') - c < cfg'.stop
      <4> HIDE DEF c, n
      <4> QED BY <2>1, <3>3, <3>8, <3>9
    <3> HIDE DEF n, b
    <3> QED BY <2>1, <3>3, <3>5, <3>10, <3>11 DEF StopInv
  <2> QED BY <2>2, <2>3, <2>4
<1>2. ASSUME UNCHANGED <<cfg, iter, history, stopper>>, pc' # "finish",
             updates' = 0 /\ pc' # "done" => updates = 0 /\ pc \notin {"finish", "done"}
      PROVE  StopInv'
  BY <1>2 DEF StopInv
<1>3. CASE UNCHANGED vars
  BY <1>3 DEF vars, control, evaluation, StopInv
<1>4. CASE \/ Configure \/ PreBoost \/ DeviceRound \/ GetGradient \/ DoBoost \/ GrowTree
           \/ GrowVectorTree \/ UpdateTree \/ UpdateNothing \/ RescaleDropped \/ Finish
  <2>1. UNCHANGED <<cfg, iter, updates, history, stopper>>
    BY <1>4 DEF Configure, PreBoost, DeviceRound, GetGradient, DoBoost, GrowTree,
                GrowVectorTree, UpdateTree, UpdateNothing, RescaleDropped, Finish, evaluation
  <2>2. pc' # "finish" /\ (pc' # "done" => pc \notin {"finish", "done"})
    BY <1>4 DEF Configure, PreBoost, DeviceRound, GetGradient, DoBoost, GrowTree, NextTurn,
                EndOfRound, GrowVectorTree, UpdateTree, UpdateNothing, RescaleDropped, Finish
  <2> QED BY <1>2, <2>1, <2>2
<1>5. CASE Update
  <2>1. UNCHANGED <<cfg, iter, history, stopper>> /\ pc' = "round" /\ updates' = updates + 1
        /\ updates \in Nat
    BY <1>5 DEF Update, evaluation, TypeInv
  <2> QED BY <1>2, <2>1
<1> QED BY <1>1, <1>3, <1>4, <1>5 DEF Next, Finished

-----------------------------------------------------------------------------
(* The shape of the model.                                                 *)

(* A place among the trees of a round and a group is among those of the    *)
(* round.                                                                  *)
LEMMA InRound ==
  ASSUME TypeInv, NEW t \in Int, NEW r \in Int, NEW g \in Nat, InBlock(t, r, g)
  PROVE  (r - 1) * PerRound < t /\ t <= r * PerRound
<1> DEFINE P == cfg.parallel
           G == cfg.groups
<1>1. P \in Nat \ {0} /\ G \in Nat \ {0} /\ PerRound = P * G /\ PerRound \in Nat
  BY FitFacts DEF PerRound
<1>2. /\ g \in 0 .. G - 1
      /\ (r - 1) * PerRound + g * P < t /\ t <= (r - 1) * PerRound + (g + 1) * P
  BY <1>1 DEF InBlock
<1> HIDE DEF P, G
<1>3. g * P \in Nat /\ (g + 1) * P <= G * P /\ (g + 1) * P \in Int /\ G * P = PerRound
  BY <1>1, <1>2, Monotone
<1>4. r * PerRound = (r - 1) * PerRound + PerRound /\ (r - 1) * PerRound \in Int
  BY <1>1
<1> QED BY <1>1, <1>2, <1>3, <1>4

(* Rounds are counted once, and the next one is the model's next.          *)
LEMMA RanFacts ==
  ASSUME TypeInv, ControlInv
  PROVE  /\ Ran \in Nat /\ base.rounds \in Nat /\ Kept(Ran) \in Nat
         /\ Kept(Ran + 1) \in {Kept(Ran), Kept(Ran) + 1}
         /\ ~cfg.update => Kept(Ran + 1) = Kept(Ran) + 1
         /\ cfg.update => Kept(Ran) <= base.rounds
         /\ cfg.update => Kept(Ran + 1) = IF Kept(Ran) < base.rounds THEN Kept(Ran) + 1
                                          ELSE base.rounds
         /\ pc \in {"grow", "device"} => ThisRound = Kept(Ran) + 1
<1>1. base.rounds \in Nat /\ iter \in Nat /\ updates \in Nat
  BY FitFacts DEF Ensemble, TypeInv
<1>2. Ran \in Nat
  BY <1>1 DEF Ran
<1>3. pc \in {"grow", "device"} => ~cfg.update
  BY FitFacts DEF ControlInv, Supported
<1>4. pc \in {"grow", "device"} => ThisRound = base.rounds + Ran + 1
  BY <1>1 DEF ThisRound, Ran
<1> QED BY <1>1, <1>2, <1>3, <1>4 DEF Kept, Smaller

(* A step within a round, or between rounds, leaves the count as it is.    *)
LEMMA RanSame ==
  ASSUME TypeInv, UNCHANGED <<iter, updates>>, pc # "score", pc' # "score",
         updates = 0 \/ (pc # "done" /\ pc' # "done")
  PROVE  Ran' = Ran
BY DEF Ran, TypeInv

(* The place a turn of the round gives its tree.                           *)
LEMMA PlaceInBlock ==
  ASSUME TypeInv, ControlInv, ~VectorFit, NEW k \in Nat, NEW t \in Int, at \in 1 .. Turns,
         t = k * PerRound + at
  PROVE  /\ InBlock(t, k + 1, (at - 1) \div cfg.parallel)
         /\ \A r \in Int, g \in Nat : InBlock(t, r, g) =>
              r = k + 1 /\ g = (at - 1) \div cfg.parallel
         /\ ((at - 1) \div cfg.parallel) * cfg.parallel + ((at - 1) % cfg.parallel) + 1 = at
<1> DEFINE P == cfg.parallel
           G == cfg.groups
<1>1. P \in Nat \ {0} /\ G \in Nat \ {0} /\ Turns = P * G /\ PerRound = P * G
  BY FitFacts, TurnsType DEF PerRound
<1> HIDE DEF P, G
<1>0. at \in 1 .. P * G /\ k \in Int
  BY <1>1
<1> DEFINE h == (at - 1) \div P
<1>2. /\ h \in 0 .. G - 1
      /\ k * (P * G) + h * P < t /\ t <= k * (P * G) + (h + 1) * P
      /\ h * P + ((at - 1) % P) + 1 = at
  <2>1. t = k * (P * G) + at
    BY <1>1
  <2> QED BY <1>0, <1>1, <2>1, TurnInBlock
<1> HIDE DEF h
<1>3. InBlock(t, k + 1, h)
  BY <1>1, <1>2 DEF InBlock, P, G
<1>4. ASSUME NEW r \in Int, NEW g \in Nat, InBlock(t, r, g)
      PROVE  r = k + 1 /\ g = h
  <2>1. /\ g \in 0 .. G - 1
        /\ (r - 1) * (P * G) + g * P < t /\ t <= (r - 1) * (P * G) + (g + 1) * P
    BY <1>1, <1>4 DEF InBlock, P, G
  <2>2. r - 1 = k /\ g = h
    BY <1>1, <1>2, <2>1, BlockUnique
  <2> QED BY <2>2
<1> QED BY <1>2, <1>3, <1>4 DEF P, G, h

(* A step keeps the shape of the model.                                    *)
LEMMA ShapeNext == TypeInv /\ ControlInv /\ ShapeInv /\ [Next]_vars => ShapeInv'
<1> SUFFICES ASSUME TypeInv, ControlInv, ShapeInv, [Next]_vars,
                    Continues', ~VectorFit', configured'
             PROVE  ShapeInv'
  BY DEF ShapeInv
<1>0. /\ Ran \in Nat /\ base.rounds \in Nat /\ Kept(Ran) \in Nat
      /\ PerRound \in Nat \ {0} /\ Kept(Ran) * PerRound \in Nat
      /\ Ensemble(base)
  BY RanFacts, FitFacts
<1>1. Continues /\ ~VectorFit /\ UNCHANGED <<cfg, base>> /\ PerRound' = PerRound
  <2>1. UNCHANGED <<cfg, base>>
    BY DEF Next, vars, Configure, PreBoost, DeviceRound, GetGradient, DoBoost, GrowTree,
           GrowVectorTree, UpdateTree, UpdateNothing, RescaleDropped, Score, Finish, Update,
           Finished
  <2>2. PerRound' = PerRound /\ (VectorFit <=> VectorFit') /\ (Continues <=> Continues')
    BY <2>1 DEF PerRound, VectorFit, Continues, InBlock
  <2> QED BY <2>1, <2>2
<1>2. \A n : Kept(n)' = Kept(n)
  BY <1>1 DEF Kept
<1>3. ASSUME configured, UNCHANGED <<trees, tree_info, trees_to_update>>,
             Len(trees) = CASE pc' \in {"grow", "update"} -> Kept(Ran') * PerRound + at' - 1
                            [] pc' = "rescale"            -> Kept(Ran' + 1) * PerRound
                            [] OTHER                      -> Kept(Ran') * PerRound,
             pc' = "update" => first' = Kept(Ran') * PerRound
      PROVE  ShapeInv'
  BY <1>1, <1>2, <1>3 DEF ShapeInv, AllTrees, InBlock
<1>4. CASE Configure
  <2>1. /\ pc = "round" /\ pc' = "drop" /\ UNCHANGED <<iter, updates>>
    BY <1>4 DEF Configure
  <2>2. CASE configured
    <3>1. UNCHANGED <<trees, tree_info, trees_to_update>>
      BY <1>4, <2>2 DEF Configure, model
    <3>2. Ran' = Ran
      BY <2>1, RanSame
    <3> QED BY <1>1, <1>3, <2>1, <2>2, <3>1, <3>2 DEF ShapeInv
  <2>3. CASE ~configured
    <3>1. /\ iter = 0 /\ updates = 0 /\ trees = base.trees /\ tree_info = base.tree_info
          /\ trees_to_update = <<>>
      BY <2>3 DEF ControlInv
    <3>2. Ran' = 0
      BY <2>1, <3>1 DEF Ran
    <3>3. SetAside
      BY <1>4, <2>3 DEF Configure
    <3>4. CASE cfg.update
      <4>1. trees' = <<>> /\ tree_info' = <<>> /\ trees_to_update' = base.trees
        BY <3>1, <3>3, <3>4 DEF SetAside
      <4>2. Kept(0) = 0
        BY <1>0, <3>4 DEF Kept, Smaller
      <4>3. 0 * PerRound = 0 /\ Len(base.trees) \in Nat /\ AllTrees' = {}
        BY <1>0, <4>1 DEF Ensemble, AllTrees
      <4> QED BY <1>1, <1>2, <2>1, <3>2, <3>4, <4>1, <4>2, <4>3 DEF ShapeInv
    <3>5. CASE ~cfg.update
      <4>1. trees' = base.trees /\ tree_info' = base.tree_info
        BY <3>1, <3>3, <3>5 DEF SetAside, model
      <4>2. Kept(0) = base.rounds
        BY <1>0, <3>5 DEF Kept
      <4>3. AllTrees' = DOMAIN base.trees
        BY <1>0, <4>1 DEF Ensemble, AllTrees
      <4> QED BY <1>1, <1>2, <2>1, <3>2, <3>5, <4>1, <4>2, <4>3 DEF ShapeInv, Continues, InBlock
    <3> QED BY <3>4, <3>5
  <2> QED BY <2>2, <2>3 DEF TypeInv
<1>5. CASE PreBoost \/ GetGradient
  <2>1. /\ configured /\ UNCHANGED <<trees, tree_info, trees_to_update, iter, updates>>
        /\ pc \in {"drop", "gradient"} /\ pc' \in {"device", "gradient", "boost"}
    BY <1>5 DEF PreBoost, GetGradient, model, ControlInv
  <2>2. Ran' = Ran
    BY <2>1, RanSame
  <2> QED BY <1>1, <1>3, <2>1, <2>2 DEF ShapeInv
<1>6. CASE Finish
  <2>1. /\ configured /\ UNCHANGED <<trees, tree_info, trees_to_update, iter, updates>>
        /\ pc = "finish" /\ pc' = "done" /\ updates = 0
    BY <1>6 DEF Finish, model, ControlInv
  <2>2. Ran' = Ran
    BY <2>1, RanSame
  <2> QED BY <1>1, <1>3, <2>1, <2>2 DEF ShapeInv
<1>7. CASE Update
  <2>1. /\ configured /\ UNCHANGED <<trees, tree_info, trees_to_update, iter>>
        /\ updates' = updates + 1 /\ pc = "done" /\ pc' = "round"
    BY <1>7 DEF Update, model, ControlInv
  <2>2. Ran' = Ran
    <3>1. Ran = iter + updates /\ updates \in Nat
      BY <2>1 DEF Ran, TypeInv
    <3>2. updates' > 0 /\ updates' - 1 = updates /\ pc' # "done" /\ iter' = iter
      BY <2>1, <3>1
    <3>3. Ran' = iter + updates
      BY <3>2 DEF Ran
    <3> QED BY <3>1, <3>3
  <2> QED BY <1>1, <1>3, <2>1, <2>2 DEF ShapeInv
<1>8. CASE Score
  <2>1. /\ configured /\ UNCHANGED <<trees, tree_info, trees_to_update, updates>>
        /\ pc = "score" /\ pc' \in {"finish", "round"} /\ iter' = iter + 1 /\ updates = 0
    BY <1>8 DEF Score, model, ControlInv
  <2>2. Ran' = Ran
    <3>1. Ran = iter + 1 /\ Ran' = iter + 1
      BY <2>1 DEF Ran, TypeInv
    <3> QED BY <3>1
  <2> QED BY <1>1, <1>3, <2>1, <2>2 DEF ShapeInv
<1>9. CASE DoBoost
  <2>1. /\ configured /\ UNCHANGED <<trees, tree_info, trees_to_update, iter, updates>>
        /\ pc = "boost" /\ pc' \in {"grow", "update"} /\ at' = 1
        /\ first' = (Len(trees) \div PerRound) * PerRound
    BY <1>9, DoBoostKeeps DEF DoBoost, ControlInv, PerRound
  <2>2. Ran' = Ran
    BY <2>1, RanSame
  <2>3. Len(trees) = Kept(Ran) * PerRound
    BY <1>1, <2>1 DEF ShapeInv
  <2>4. 0 \in 0 .. PerRound - 1 /\ Kept(Ran) * PerRound + 0 = Kept(Ran) * PerRound
    BY <1>0
  <2>5. Len(trees) \div PerRound = Kept(Ran)
    BY <1>0, <2>3, <2>4, DivOf
  <2>6. Len(trees) = Kept(Ran) * PerRound + 1 - 1
    BY <1>0, <2>3
  <2> QED BY <1>3, <2>1, <2>2, <2>5, <2>6
<1>10. ASSUME configured, ~cfg.update, pc \in {"grow", "device"},
              NEW tree \in TreeType, NEW group \in Nat, NEW w \in Weights,
              tree.round = ThisRound, PushTree(tree, group, w), UNCHANGED trees_to_update,
              InBlock(Len(trees) + 1, ThisRound, group), pc' # "update",
              Len(trees) + 1 =
                CASE pc' = "grow"    -> Kept(Ran') * PerRound + at' - 1
                  [] pc' = "rescale" -> Kept(Ran' + 1) * PerRound
                  [] OTHER           -> Kept(Ran') * PerRound
       PROVE  ShapeInv'
  <2>1. /\ Len(trees') = Len(trees) + 1 /\ Len(trees) \in Nat
        /\ trees'[Len(trees) + 1] = tree /\ tree_info'[Len(trees) + 1] = group
        /\ \A t \in AllTrees : trees'[t] = trees[t] /\ tree_info'[t] = tree_info[t]
    <3>1. Len(trees) \in Nat
      BY DEF TypeInv
    <3> QED BY <1>10, <3>1, PushType
  <2>2. \A t \in AllTrees : InBlock(t, trees[t].round, tree_info[t])
    BY <1>1, <1>10 DEF ShapeInv
  <2>3. \A t \in AllTrees' : t \in AllTrees \/ t = Len(trees) + 1
    BY <2>1 DEF AllTrees
  <2>4. \A t \in AllTrees' : InBlock(t, trees'[t].round, tree_info'[t])
    BY <1>10, <2>1, <2>2, <2>3
  <2>5. \A t, r, g : InBlock(t, r, g)' <=> InBlock(t, r, g)
    BY <1>1 DEF InBlock
  <2> QED BY <1>1, <1>2, <1>10, <2>1, <2>4, <2>5 DEF ShapeInv, InBlock
<1>11. CASE DeviceRound
  <2>0. /\ configured /\ pc = "device" /\ pc' = EndOfRound /\ cfg.plain
        /\ UNCHANGED <<trees_to_update, iter, updates>>
        /\ PushTree(Grown(FALSE, ThisRound), 0, <<>>)
    BY <1>11 DEF DeviceRound, ControlInv
  <2>1. ~cfg.update /\ cfg.groups = 1 /\ cfg.parallel = 1 /\ PerRound = 1
    BY <2>0, FitFacts DEF Supported, PerRound
  <2>2. <<>> \in Weights
    BY DEF Weights
  <2>3. Grown(FALSE, ThisRound) \in TreeType /\ Grown(FALSE, ThisRound).round = ThisRound
    BY GrownType DEF Grown
  <2>4. Ran' = Ran + 1 /\ pc' \in {"score", "done"}
    BY <2>0 DEF Ran, EndOfRound, TypeInv
  <2>5. Len(trees) = Kept(Ran) /\ ThisRound = Kept(Ran) + 1 /\ Kept(Ran + 1) = Kept(Ran) + 1
    BY <1>0, <1>1, <2>0, <2>1, RanFacts DEF ShapeInv
  <2>6. InBlock(Len(trees) + 1, ThisRound, 0)
    BY <1>0, <2>1, <2>5 DEF InBlock
  <2>7. Len(trees) + 1 = Kept(Ran') * PerRound
    BY <1>0, <2>1, <2>4, <2>5
  <2> HIDE DEF Grown
  <2> QED BY <1>10, <2>0, <2>1, <2>2, <2>3, <2>4, <2>6, <2>7
<1>12. CASE GrowTree
  <2>1. /\ configured /\ pc = "grow" /\ ~cfg.update /\ at' = at + 1
        /\ pc' = IF at = Turns THEN "rescale" ELSE "grow"
        /\ UNCHANGED <<trees_to_update, iter, updates>>
        /\ at \in 1 .. Turns /\ Turns = PerRound
    BY <1>1, <1>12, TurnsType DEF GrowTree, NextTurn, ControlInv, TypeInv
  <2>2. Ran' = Ran
    BY <2>1, RanSame
  <2>3. /\ Len(trees) = Kept(Ran) * PerRound + at - 1 /\ ThisRound = Kept(Ran) + 1
        /\ Kept(Ran + 1) = Kept(Ran) + 1
    BY <1>1, <2>1, RanFacts DEF ShapeInv
  <2>4. Len(trees) + 1 = Kept(Ran) * PerRound + at
    BY <1>0, <2>1, <2>3
  <2> DEFINE gid == (at - 1) \div cfg.parallel
             plain == Grown(FALSE, ThisRound)
             rewritten == [plain EXCEPT !.form = "modified"]
  <2>5. InBlock(Len(trees) + 1, ThisRound, gid)
    <3>1. Len(trees) + 1 \in Int
      BY DEF TypeInv
    <3> QED BY <1>0, <1>1, <2>1, <2>3, <2>4, <3>1, PlaceInBlock
  <2>6. gid \in Nat
    BY <2>1, DivType, FitFacts
  <2>7. PushTree(plain, gid, NewWeight) \/ PushTree(rewritten, gid, NewWeight)
    BY <1>12 DEF GrowTree
  <2>8. /\ plain \in TreeType /\ plain.round = ThisRound
        /\ rewritten \in TreeType /\ rewritten.round = ThisRound
    BY GrownType DEF Grown, TreeType
  <2>9. Len(trees) + 1 = IF at = Turns THEN Kept(Ran + 1) * PerRound
                         ELSE Kept(Ran) * PerRound + at' - 1
    <3>1. (Kept(Ran) + 1) * PerRound = Kept(Ran) * PerRound + PerRound
      BY <1>0
    <3> QED BY <1>0, <2>1, <2>3, <2>4, <3>1
  <2> HIDE DEF gid, plain, rewritten
  <2> QED BY <1>10, <2>1, <2>2, <2>5, <2>6, <2>7, <2>8, <2>9, NewWeightType
<1>13. CASE GrowVectorTree
  BY <1>1, <1>13 DEF GrowVectorTree, VectorFit
<1>14. CASE UpdateTree \/ UpdateNothing
  <2>1. /\ configured /\ pc = "update" /\ cfg.update /\ UNCHANGED <<iter, updates, first>>
        /\ at \in 1 .. Turns /\ Turns = PerRound /\ pc' \in {"update", "rescale"}
    <3>1. pc = "update" /\ UNCHANGED <<iter, updates, first>> /\ pc' \in {"update", "rescale"}
      BY <1>14 DEF UpdateTree, UpdateNothing, NextTurn
    <3>2. configured /\ cfg.update /\ at <= Turns
      BY <3>1 DEF ControlInv
    <3>3. at \in Nat \ {0}
      BY DEF TypeInv
    <3> QED BY <1>1, <3>1, <3>2, <3>3, TurnsType
  <2>2. Ran' = Ran
    BY <2>1, RanSame
  <2>3. /\ Len(trees) = Kept(Ran) * PerRound + at - 1 /\ first = Kept(Ran) * PerRound
        /\ Kept(Ran) <= base.rounds
        /\ Kept(Ran + 1) = IF Kept(Ran) < base.rounds THEN Kept(Ran) + 1 ELSE base.rounds
    BY <1>1, <2>1, RanFacts DEF ShapeInv
  <2> DEFINE gid == (at - 1) \div cfg.parallel
             t0 == Len(trees) + 1
  <2>4. /\ t0 = Kept(Ran) * PerRound + at /\ Len(trees) \in Nat /\ t0 \in Nat
    <3>1. Len(trees) \in Nat
      BY DEF TypeInv
    <3> DEFINE K == Kept(Ran) * PerRound
    <3>2. K \in Nat /\ at \in Nat /\ Len(trees) = K + at - 1
      BY <1>0, <2>1, <2>3
    <3> HIDE DEF K
    <3>3. Len(trees) + 1 = K + at
      BY <3>1, <3>2
    <3> QED BY <3>1, <3>3 DEF K
  <2>5. gid \in Nat
    BY <2>1, DivType, FitFacts
  <2>6. /\ InBlock(t0, Kept(Ran) + 1, gid)
        /\ \A r \in Int, g \in Nat : InBlock(t0, r, g) => r = Kept(Ran) + 1 /\ g = gid
        /\ gid * cfg.parallel + ((at - 1) % cfg.parallel) + 1 = at
    <3>1. t0 \in Int /\ t0 = Kept(Ran) * PerRound + at
      BY <2>4
    <3> HIDE DEF t0
    <3> QED BY <1>0, <1>1, <2>1, <3>1, PlaceInBlock
  <2>7. Slot = t0
    <3>1. gid * cfg.parallel \in Nat /\ (at - 1) % cfg.parallel \in Nat
      <4>1. cfg.parallel \in Nat \ {0} /\ at - 1 \in Nat
        BY <2>1, FitFacts
      <4>2. (at - 1) % cfg.parallel \in Nat
        BY <4>1, DivBounds
      <4> HIDE DEF gid
      <4> QED BY <2>5, <4>1, <4>2
    <3>2. Slot = first + gid * cfg.parallel + ((at - 1) % cfg.parallel) + 1
      BY DEF Slot
    <3> DEFINE K == Kept(Ran) * PerRound
               G == gid * cfg.parallel
               M == (at - 1) % cfg.parallel
    <3>3. /\ K \in Nat /\ at \in Nat /\ first = K /\ t0 = K + at /\ G \in Nat /\ M \in Nat
          /\ Slot = first + G + M + 1 /\ G + M + 1 = at
      BY <1>0, <2>1, <2>3, <2>4, <2>6, <3>1, <3>2
    <3> HIDE DEF K, G, M, t0
    <3> QED BY <3>3
  <2> HIDE DEF gid
  <2>8. /\ DOMAIN trees_to_update = DOMAIN base.trees
        /\ DOMAIN base.trees = 1 .. Len(base.trees) /\ Len(base.trees) \in Nat
        /\ Len(base.trees) = base.rounds * PerRound
        /\ Len(trees) <= Len(base.trees)
    <3>1. base.trees \in Seq(TreeType)
      BY <1>0 DEF Ensemble
    <3>2. Len(base.trees) = base.rounds * PerRound
      BY <1>1 DEF Continues
    <3>3. DOMAIN trees_to_update = DOMAIN base.trees
      BY <2>1 DEF ControlInv
    <3>4. Len(trees) <= Len(base.trees)
      BY <1>1, <2>1 DEF ShapeInv
    <3> QED BY <3>1, <3>2, <3>3, <3>4
  <2>9. (Kept(Ran) + 1) * PerRound = Kept(Ran) * PerRound + PerRound
    BY <1>0
  <2>10. CASE UpdateTree
    <3>1. /\ t0 \in DOMAIN base.trees
          /\ trees_to_update' = [trees_to_update EXCEPT ![t0].id = 0, ![t0].form = "taken"]
          /\ at' = at + 1 /\ pc' = IF at = Turns THEN "rescale" ELSE "update"
      BY <2>7, <2>8, <2>10 DEF UpdateTree, NextTurn
    <3>2. trees_to_update[t0] = base.trees[t0]
      BY <1>1, <2>1, <2>4, <3>1 DEF ShapeInv
    <3>3. PICK form \in {trees_to_update[t0].form, "modified"} :
            PushTree([trees_to_update[t0] EXCEPT !.form = form], gid, <<>>)
      BY <2>7, <2>10 DEF UpdateTree, gid
    <3> DEFINE tree == [base.trees[t0] EXCEPT !.form = form]
    <3>4. base.trees[t0] \in TreeType /\ base.trees[t0].id = t0 /\ base.tree_info[t0] \in Nat
      <4>1. /\ base.trees \in Seq(TreeType) /\ base.tree_info \in Seq(Nat)
            /\ Len(base.tree_info) = Len(base.trees)
            /\ \A t \in DOMAIN base.trees : base.trees[t].id = t
        BY <1>0 DEF Ensemble
      <4> HIDE DEF t0
      <4> QED BY <3>1, <4>1
    <3>5. form \in {"grown", "modified", "taken"}
      BY <3>2, <3>3, <3>4 DEF TreeType
    <3>6. /\ tree \in TreeType /\ tree.id = t0 /\ tree.round = base.trees[t0].round
          /\ tree.vector = base.trees[t0].vector /\ tree.round \in Int
      BY <3>4, <3>5 DEF TreeType
    <3>7. base.trees[t0].round = Kept(Ran) + 1 /\ base.tree_info[t0] = gid
      <4>1. InBlock(t0, base.trees[t0].round, base.tree_info[t0])
        BY <1>1, <3>1 DEF Continues
      <4> QED BY <2>6, <3>4, <3>6, <4>1
    <3>8. PushTree(tree, gid, <<>>)
      BY <3>2, <3>3
    <3> HIDE DEF tree
    <3>9. /\ Len(trees') = t0
          /\ trees'[t0] = tree /\ tree_info'[t0] = gid
          /\ \A t \in AllTrees : trees'[t] = trees[t] /\ tree_info'[t] = tree_info[t]
      <4>1. <<>> \in Weights
        BY DEF Weights
      <4> QED BY <2>5, <3>6, <3>8, <4>1, PushType
    <3>10. \A t \in AllTrees' : t \in AllTrees \/ t = t0
      BY <2>4, <3>9 DEF AllTrees
    <3>11. \A t \in AllTrees' : InBlock(t, trees'[t].round, tree_info'[t])
      BY <1>1, <2>1, <2>6, <3>6, <3>7, <3>9, <3>10 DEF ShapeInv
    <3>12. \A t \in AllTrees' : /\ trees'[t].id = t
                                /\ trees'[t].round = base.trees[t].round
                                /\ trees'[t].vector = base.trees[t].vector
                                /\ tree_info'[t] = base.tree_info[t]
      BY <1>1, <2>1, <3>6, <3>7, <3>9, <3>10 DEF ShapeInv
    <3>13. \A t \in DOMAIN base.trees : t > Len(trees') => trees_to_update'[t] = base.trees[t]
      <4> SUFFICES ASSUME NEW t \in DOMAIN base.trees, t > t0
                   PROVE  trees_to_update'[t] = base.trees[t]
        BY <3>9
      <4>1. trees_to_update[t] = base.trees[t]
        BY <1>1, <2>1, <2>4, <2>8 DEF ShapeInv
      <4>2. t # t0 /\ t \in DOMAIN trees_to_update
        BY <2>4, <2>8
      <4> QED BY <3>1, <4>1, <4>2
    <3>14. Kept(Ran) < base.rounds
      <4> SUFFICES ASSUME Kept(Ran) = base.rounds PROVE FALSE
        BY <1>0, <2>3
      <4> QED BY <1>0, <2>1, <2>4, <2>8, <3>1
    <3>15. Len(trees') = CASE pc' \in {"grow", "update"} -> Kept(Ran) * PerRound + at' - 1
                           [] pc' = "rescale"            -> Kept(Ran + 1) * PerRound
                           [] OTHER                      -> Kept(Ran) * PerRound
      <4>1. Kept(Ran + 1) = Kept(Ran) + 1
        BY <2>3, <3>14
      <4>2. Len(trees') = Kept(Ran) * PerRound + at
        BY <2>4, <3>9
      <4>3. CASE at = Turns
        BY <1>0, <2>1, <2>9, <3>1, <4>1, <4>2, <4>3
      <4>4. CASE at # Turns
        <5>1. at' - 1 = at
          BY <2>1, <3>1
        <5> QED BY <1>0, <2>1, <3>1, <4>2, <4>4, <5>1
      <4> QED BY <4>3, <4>4
    <3>16. Len(trees') <= Len(base.trees)
      BY <2>8, <3>1, <3>9
    <3>17. \A t, r, g : InBlock(t, r, g)' <=> InBlock(t, r, g)
      BY <1>1 DEF InBlock
    <3> HIDE DEF t0
    <3> QED BY <1>1, <1>2, <2>1, <2>2, <2>3, <3>11, <3>12, <3>13, <3>15, <3>16, <3>17
            DEF ShapeInv, InBlock
  <2>11. CASE UpdateNothing
    <3>1. /\ t0 \notin 1 .. Len(base.trees) /\ UNCHANGED <<trees, tree_info, trees_to_update>>
          /\ pc' = "rescale"
      BY <2>7, <2>8, <2>11 DEF UpdateNothing, model
    <3>2. Len(trees) = base.rounds * PerRound
      BY <2>4, <2>8, <3>1
    <3>3. Kept(Ran) = base.rounds
      <4>1. at - 1 \in 0 .. PerRound - 1 /\ 0 \in 0 .. PerRound - 1
        BY <1>0, <2>1
      <4>2. /\ Len(trees) = Kept(Ran) * PerRound + (at - 1)
            /\ Len(trees) = base.rounds * PerRound + 0
        <5> DEFINE k == Kept(Ran) * PerRound
                   m == base.rounds * PerRound
        <5>1. k \in Int /\ m \in Int /\ at \in Int
          BY <1>0, <2>1, <2>3
        <5>2. Len(trees) = k + at - 1 /\ Len(trees) = m
          BY <2>3, <2>4, <2>8, <3>2
        <5> HIDE DEF k, m
        <5>3. Len(trees) = k + (at - 1) /\ Len(trees) = m + 0
          BY <5>1, <5>2
        <5> QED BY <5>3 DEF k, m
      <4>3. (Kept(Ran) * PerRound + (at - 1)) \div PerRound = Kept(Ran)
        BY <1>0, <4>1, DivOf
      <4>4. (base.rounds * PerRound + 0) \div PerRound = base.rounds
        BY <1>0, <4>1, DivOf
      <4> QED BY <4>2, <4>3, <4>4
    <3>4. Kept(Ran + 1) = base.rounds
      BY <1>0, <2>3, <3>3
    <3> QED BY <1>3, <2>1, <2>2, <3>1, <3>2, <3>4
  <2> QED BY <1>14, <2>10, <2>11
<1>15. CASE RescaleDropped
  <2>1. /\ configured /\ UNCHANGED <<trees, tree_info, trees_to_update, iter, updates>>
        /\ pc = "rescale" /\ pc' = EndOfRound
    BY <1>15 DEF RescaleDropped, ControlInv
  <2>2. Ran' = Ran + 1 /\ pc' \in {"score", "done"}
    BY <2>1 DEF Ran, EndOfRound, TypeInv
  <2> QED BY <1>1, <1>3, <2>1, <2>2 DEF ShapeInv
<1>16. CASE UNCHANGED vars
  <2>1. UNCHANGED <<trees, tree_info, trees_to_update, iter, updates, pc, configured, at, first>>
    BY <1>16 DEF vars, model, control
  <2>2. Ran' = Ran
    BY <2>1 DEF Ran
  <2> QED BY <1>1, <1>3, <2>1, <2>2 DEF ShapeInv
<1> QED BY <1>4, <1>5, <1>6, <1>7, <1>8, <1>9, <1>11, <1>12, <1>13, <1>14, <1>15, <1>16
        DEF Next, Finished

(* Under an update the shape gives every tree its identity.                *)
LEMMA IdentityUpdate ==
  TypeInv /\ ControlInv /\ ShapeInv /\ cfg.update => IdentityInv
<1> SUFFICES ASSUME TypeInv, ControlInv, ShapeInv, cfg.update, Continues PROVE IdentityInv
  BY DEF IdentityInv
<1>1. /\ ~VectorFit /\ \A t \in DOMAIN base.trees : base.trees[t].id = t
      /\ DOMAIN base.trees = 1 .. Len(base.trees) /\ Len(base.trees) \in Nat
  BY FitFacts DEF Supported, VectorFit, Ensemble
<1>2. CASE configured
  <2>1. /\ Len(trees) <= Len(base.trees) /\ Len(trees) \in Nat
        /\ \A t \in AllTrees : trees[t].id = t /\ trees[t].vector = base.trees[t].vector
    BY <1>1, <1>2 DEF ShapeInv, TypeInv
  <2>2. AllTrees \subseteq DOMAIN base.trees
    BY <1>1, <2>1 DEF AllTrees
  <2> QED BY <2>1, <2>2 DEF IdentityInv, ScalarTrees
<1>3. CASE ~configured
  <2>1. trees = base.trees
    BY <1>3 DEF ControlInv
  <2> QED BY <1>1, <2>1 DEF IdentityInv, ScalarTrees, AllTrees
<1> QED BY <1>2, <1>3

(* A step keeps the identities apart.                                      *)
LEMMA IdentityNext ==
  TypeInv /\ ControlInv /\ IdentityInv /\ [Next]_vars
  /\ TypeInv' /\ ControlInv' /\ ShapeInv' => IdentityInv'
<1> SUFFICES ASSUME TypeInv, ControlInv, IdentityInv, [Next]_vars,
                    TypeInv', ControlInv', ShapeInv'
             PROVE  IdentityInv'
  OBVIOUS
<1>0. UNCHANGED <<cfg, base>>
  BY DEF Next, vars, Configure, PreBoost, DeviceRound, GetGradient, DoBoost, GrowTree,
         GrowVectorTree, UpdateTree, UpdateNothing, RescaleDropped, Score, Finish, Update,
         Finished
<1>1. CASE cfg.update
  <2>1. cfg'.update
    BY <1>0, <1>1
  <2>2. (TypeInv /\ ControlInv /\ ShapeInv /\ cfg.update => IdentityInv)'
    BY IdentityUpdate, PTL
  <2> QED BY <2>1, <2>2
<1>2. CASE ~cfg.update
  <2>1. ~cfg'.update /\ (ScalarTrees <=> ScalarTrees') /\ (VectorFit <=> VectorFit')
    BY <1>0, <1>2 DEF ScalarTrees, VectorFit
  <2>2. /\ fresh = Len(trees) + 1 /\ Len(trees) \in Nat
        /\ \A t \in AllTrees : trees[t].id = t
        /\ ScalarTrees => \A t \in AllTrees : ~trees[t].vector
    <3>1. Len(trees) \in Nat
      BY DEF TypeInv
    <3> QED BY <1>2, <3>1 DEF IdentityInv
  <2>3. ASSUME UNCHANGED <<trees, fresh>> PROVE IdentityInv'
    BY <2>1, <2>2, <2>3 DEF IdentityInv, AllTrees
  <2>4. ASSUME NEW tree \in TreeType, NEW group \in Nat, NEW w \in Weights,
               PushTree(tree, group, w), tree.id = fresh, fresh' = fresh + 1,
               ScalarTrees => ~tree.vector
        PROVE  IdentityInv'
    <3>1. /\ Len(trees') = Len(trees) + 1 /\ trees'[Len(trees) + 1] = tree
          /\ \A t \in AllTrees : trees'[t] = trees[t]
      BY <2>2, <2>4, PushType
    <3>2. \A t \in AllTrees' : t \in AllTrees \/ t = Len(trees) + 1
      BY <2>2, <3>1 DEF AllTrees
    <3> QED BY <2>1, <2>2, <2>4, <3>1, <3>2 DEF IdentityInv
  <2>5. CASE Configure
    <3>1. trees' = trees /\ fresh' = fresh
      BY <1>2, <2>5 DEF Configure, SetAside, model
    <3> QED BY <2>3, <3>1
  <2>6. CASE DoBoost
    <3>1. trees' = trees /\ fresh' = fresh
      BY <2>6, DoBoostKeeps DEF DoBoost
    <3> QED BY <2>3, <3>1
  <2>7. CASE DeviceRound
    <3>1. <<>> \in Weights
      BY DEF Weights
    <3>2. /\ PushTree(Grown(FALSE, ThisRound), 0, <<>>) /\ fresh' = fresh + 1
      BY <2>7 DEF DeviceRound
    <3>3. /\ Grown(FALSE, ThisRound) \in TreeType /\ Grown(FALSE, ThisRound).id = fresh
          /\ ~Grown(FALSE, ThisRound).vector
      BY GrownType DEF Grown
    <3> HIDE DEF Grown
    <3> QED BY <2>4, <3>1, <3>2, <3>3
  <2>8. CASE GrowTree
    <3> DEFINE gid == (at - 1) \div cfg.parallel
               plain == Grown(FALSE, ThisRound)
               rewritten == [plain EXCEPT !.form = "modified"]
    <3>1. gid \in Nat
      <4>1. at - 1 \in Nat /\ cfg.parallel \in Nat \ {0}
        <5>1. at \in Nat \ {0}
          BY DEF TypeInv
        <5> QED BY <5>1, FitFacts
      <4> QED BY <4>1, DivType
    <3>2. PushTree(plain, gid, NewWeight) \/ PushTree(rewritten, gid, NewWeight)
      BY <2>8 DEF GrowTree
    <3>3. /\ plain \in TreeType /\ plain.id = fresh /\ ~plain.vector
          /\ rewritten \in TreeType /\ rewritten.id = fresh /\ ~rewritten.vector
      BY GrownType DEF Grown, TreeType
    <3>4. fresh' = fresh + 1
      BY <2>8 DEF GrowTree
    <3> HIDE DEF gid, plain, rewritten
    <3> QED BY <2>4, <3>1, <3>2, <3>3, <3>4, NewWeightType
  <2>9. CASE GrowVectorTree
    <3>1. ~ScalarTrees
      BY <2>9 DEF GrowVectorTree, ScalarTrees, VectorFit
    <3>2. /\ PushTree(Grown(TRUE, ThisRound), 0, NewWeight) /\ fresh' = fresh + 1
      BY <2>9 DEF GrowVectorTree
    <3>3. Grown(TRUE, ThisRound) \in TreeType /\ Grown(TRUE, ThisRound).id = fresh
      BY GrownType DEF Grown
    <3> HIDE DEF Grown
    <3> QED BY <2>4, <3>1, <3>2, <3>3, NewWeightType
  <2>10. CASE UpdateTree \/ UpdateNothing
    BY <1>2, <2>10 DEF UpdateTree, UpdateNothing, ControlInv
  <2>11. CASE PreBoost \/ GetGradient \/ RescaleDropped \/ Score \/ Finish \/ Update
              \/ UNCHANGED vars
    <3>1. trees' = trees /\ fresh' = fresh
      BY <2>11 DEF PreBoost, GetGradient, RescaleDropped, Score, Finish, Update, vars, model
    <3> QED BY <2>3, <3>1
  <2> QED BY <2>5, <2>6, <2>7, <2>8, <2>9, <2>10, <2>11 DEF Next, Finished
<1> QED BY <1>1, <1>2 DEF TypeInv

-----------------------------------------------------------------------------
(* Margins.                                                                *)

(* Adding contributions that are not there.                                *)
LEMMA PlusNew ==
  ASSUME NEW S, NEW C, S \cap C = {}
  PROVE  Plus(Ones(S), C, 1) = Ones(S \cup C)
BY DEF Plus, Count, Ones

(* Taking away contributions that are there.                               *)
LEMMA PlusGone ==
  ASSUME NEW S, NEW C, C \subseteq S
  PROVE  Plus(Ones(S), C, -1) = Ones(S \ C)
BY DEF Plus, Count, Ones

(* Adding none.                                                            *)
LEMMA PlusNothing ==
  ASSUME NEW S, NEW k \in Int
  PROVE  Plus(Ones(S), {}, k) = Ones(S)
BY DEF Plus, Count, Ones

(* predict_margin counts each contribution once.                           *)
LEMMA PredictIsOnes ==
  ASSUME NEW P, NEW m
  PROVE  PredictMargin(P, m)
           = Ones(UNION {Leaf(trees[t], tree_info[t], tree_weight[t], m) : t \in P})
BY DEF PredictMargin, Ones

(* No two trees add the same thing.                                        *)
LEMMA OwnContributions ==
  ASSUME IdentityInv, cfg.update => Continues
  PROVE  \A t, u \in AllTrees : t # u => Of(t) \cap Of(u) = {}
<1> SUFFICES ASSUME NEW t \in AllTrees, NEW u \in AllTrees, NEW x \in Of(t), x \in Of(u)
             PROVE  t = u
  OBVIOUS
<1>1. x.tree = trees[t] /\ x.tree = trees[u]
  BY DEF Of, Leaf, Into
<1> QED BY <1>1 DEF IdentityInv

(* Reading the value of a scalar leaf is reading the leaf.                 *)
LEMMA ScalarOf ==
  ASSUME NEW tree, ~tree.vector, NEW group, NEW w, NEW m, NEW n, m = n
  PROVE  Scalar(tree, group, w, m) = Leaf(tree, group, w, n)
BY DEF Scalar, Leaf

(* Where a matrix is traversed, it is the one that was binned.             *)
LEMMA SameMatrix ==
  ASSUME TypeInv, ControlInv, Ordinary, cfg.dart \/ cfg.modifiers
  PROVE  dtrain = binned
BY DEF TypeInv, ControlInv, Ordinary, OneMatrix

(* What a pushed tree adds is new.                                         *)
LEMMA PushMargin ==
  ASSUME TypeInv, IdentityInv', Ordinary, UNCHANGED <<cfg, base, binned, dropped>>,
         NEW tree \in TreeType, NEW group \in Nat, NEW w \in Weights,
         PushTree(tree, group, w)
  PROVE  /\ Contributions(AllTrees \ dropped)'
              = Contributions(AllTrees \ dropped) \cup Leaf(tree, group, w, binned)
         /\ Contributions(AllTrees \ dropped) \cap Leaf(tree, group, w, binned) = {}
         /\ Contributions(AllTrees \ {Len(trees)})' = Contributions(AllTrees)
<1> DEFINE goal == /\ Contributions(AllTrees \ dropped)'
                        = Contributions(AllTrees \ dropped) \cup Leaf(tree, group, w, binned)
                   /\ Contributions(AllTrees \ dropped) \cap Leaf(tree, group, w, binned) = {}
                   /\ Contributions(AllTrees \ {Len(trees)})' = Contributions(AllTrees)
<1> SUFFICES ASSUME NEW n, n = Len(trees) + 1 PROVE goal
  BY DEF goal
<1> HIDE DEF goal
<1>1. /\ Len(trees') = n /\ Len(trees) \in Nat
      /\ trees'[n] = tree /\ tree_info'[n] = group /\ tree_weight'[n] = w
      /\ \A t \in AllTrees : /\ trees'[t] = trees[t] /\ tree_info'[t] = tree_info[t]
                             /\ tree_weight'[t] = tree_weight[t]
  <2>1. Len(trees) \in Nat
    BY DEF TypeInv
  <2> QED BY <2>1, PushType
<1>2. /\ AllTrees' = AllTrees \cup {n} /\ n \notin AllTrees
      /\ dropped \subseteq AllTrees
      /\ AllTrees' \ {Len(trees')} = AllTrees
  <2>1. dropped \subseteq AllTrees
    BY DEF TypeInv
  <2>2. AllTrees = 1 .. n - 1 /\ AllTrees' = 1 .. n /\ n \in Nat \ {0}
    BY <1>1 DEF AllTrees
  <2> QED BY <1>1, <2>1, <2>2
<1>3. \A x, g, v, m : Leaf(x, g, v, m)' = Leaf(x, g, v, m)
  BY DEF Leaf, AllGroups
<1>4. /\ \A t \in AllTrees : Of(t)' = Of(t)
      /\ Of(n)' = Leaf(tree, group, w, binned)
  BY <1>1, <1>3 DEF Of, Leaf, AllGroups
<1>5. \A t \in AllTrees : Of(t) \cap Leaf(tree, group, w, binned) = {}
  <2>1. cfg'.update => Continues'
    BY DEF Ordinary, Continues, InBlock, PerRound
  <2>2. \A t, u \in AllTrees' : t # u => trees'[t].id # trees'[u].id
    BY <2>1 DEF IdentityInv
  <2> SUFFICES ASSUME NEW t \in AllTrees, NEW x \in Of(t), x \in Leaf(tree, group, w, binned)
               PROVE  FALSE
    OBVIOUS
  <2>3. x.tree = trees[t] /\ x.tree = tree
    BY DEF Of, Leaf, Into
  <2>4. trees'[t] = trees'[n] /\ t \in AllTrees' /\ n \in AllTrees' /\ t # n
    BY <1>1, <1>2, <2>3
  <2> QED BY <2>2, <2>4
<1>6. AllTrees' \ dropped' = (AllTrees \ dropped) \cup {n}
  BY <1>2
<1>7. Contributions(AllTrees \ dropped)' = UNION {Of(t)' : t \in AllTrees' \ dropped'}
  BY DEF Contributions
<1>8. UNION {Of(t)' : t \in AllTrees' \ dropped'}
        = Contributions(AllTrees \ dropped) \cup Leaf(tree, group, w, binned)
  <2>1. \A x : (\E t \in (AllTrees \ dropped) \cup {n} : x \in Of(t)')
                 <=> \/ \E t \in AllTrees \ dropped : x \in Of(t)
                     \/ x \in Leaf(tree, group, w, binned)
    BY <1>4
  <2> HIDE DEF Of
  <2> QED BY <1>6, <2>1 DEF Contributions
<1>9. Contributions(AllTrees \ {Len(trees)})' = UNION {Of(t)' : t \in AllTrees}
  BY <1>2 DEF Contributions
<1>10. UNION {Of(t)' : t \in AllTrees} = Contributions(AllTrees)
  BY <1>4 DEF Contributions
<1>11. Contributions(AllTrees \ dropped) \cap Leaf(tree, group, w, binned) = {}
  BY <1>5 DEF Contributions
<1> QED BY <1>7, <1>8, <1>9, <1>10, <1>11 DEF goal

(* An ordinary fit was one before the step.                                *)
LEMMA OrdinaryBefore ==
  ASSUME TypeInv, [Next]_vars, Ordinary'
  PROVE  Ordinary
<1>1. UNCHANGED <<cfg, base>> /\ (updates' = updates \/ updates' = updates + 1)
  BY DEF Next, vars, Configure, PreBoost, DeviceRound, GetGradient, DoBoost, GrowTree,
         GrowVectorTree, UpdateTree, UpdateNothing, RescaleDropped, Score, Finish, Update,
         Finished, control
<1>2. updates' = 0 => updates = 0
  BY <1>1 DEF TypeInv
<1>3. (ScalarTrees' <=> ScalarTrees) /\ (Continues' <=> Continues)
  BY <1>1 DEF ScalarTrees, Continues, VectorFit, InBlock, PerRound
<1> QED BY <1>1, <1>2, <1>3 DEF Ordinary

(* A step that leaves the trees and the current margins alone.             *)
LEMMA MarginSame ==
  ASSUME UNCHANGED <<cfg, trees, tree_info, tree_weight, binned, dropped>>, Current' = Current,
         Current = Ones(Contributions(AllTrees \ dropped))
  PROVE  MarginInv'
<1>1. \A t : Of(t)' = Of(t)
  BY DEF Of, Leaf, AllGroups
<1>2. Contributions(AllTrees \ dropped)' = Contributions(AllTrees \ dropped)
  BY <1>1 DEF Contributions, AllTrees
<1> QED BY <1>2 DEF MarginInv, Ones

(* Downloading the margins does not change which are current.              *)
LEMMA SyncKeeps ==
  ASSUME TypeInv, Sync
  PROVE  Current' = Current /\ train_cache' = Current
BY DEF TypeInv, Sync, Current

(* A step keeps the margins right: each action that changes the trees, the *)
(* weights or what is dropped changes the margins by the same              *)
(* contributions.                                                          *)
LEMMA MarginNext ==
  TypeInv /\ ControlInv /\ IdentityInv /\ MarginInv /\ [Next]_vars
  /\ ShapeInv' /\ IdentityInv' => MarginInv'
<1> SUFFICES ASSUME TypeInv, ControlInv, IdentityInv, MarginInv, [Next]_vars,
                    ShapeInv', IdentityInv', Ordinary', configured'
             PROVE  MarginInv'
  BY DEF MarginInv
<1>0. Ordinary /\ (cfg.update => Continues) /\ UNCHANGED <<cfg, base>>
  <2>1. UNCHANGED <<cfg, base>>
    BY DEF Next, vars, Configure, PreBoost, DeviceRound, GetGradient, DoBoost, GrowTree,
           GrowVectorTree, UpdateTree, UpdateNothing, RescaleDropped, Score, Finish, Update,
           Finished
  <2> QED BY <2>1, OrdinaryBefore DEF Ordinary
<1>1. configured => Current = Ones(Contributions(AllTrees \ dropped))
  BY <1>0 DEF MarginInv
<1>2. ASSUME configured,
             UNCHANGED <<trees, tree_info, tree_weight, binned, dropped>>, Current' = Current
      PROVE  MarginInv'
  BY <1>0, <1>1, <1>2, MarginSame
<1>3. ASSUME NEW C, Current' = Ones(C), Contributions(AllTrees \ dropped)' = C
      PROVE  MarginInv'
  BY <1>3 DEF MarginInv, Ones
<1>4. cfg.dart => /\ ~device.host_stale /\ dtrain = binned
                  /\ \A t \in AllTrees : ~trees[t].vector
  BY <1>0, FitFacts, SameMatrix DEF ControlInv, Supported, Ordinary, IdentityInv
<1>5. CASE Configure
  <2>1. /\ dropped' = dropped /\ dropped = {} /\ device' = device
    BY <1>5 DEF Configure, ControlInv
  <2>2. CASE configured
    BY <1>2, <1>5, <2>1, <2>2 DEF Configure, Current, model
  <2>3. CASE ~configured
    <3>1. /\ ~device.host_stale /\ trees_to_update = <<>> /\ binned' = dtrain /\ SetAside
          /\ train_cache' = IF cfg.update THEN Nothing ELSE PredictMargin(AllTrees, dtrain)
      BY <1>5, <2>3 DEF Configure, ControlInv
    <3>2. Current' = train_cache'
      BY <2>1, <3>1 DEF Current
    <3>3. CASE cfg.update
      <4>1. trees' = <<>>
        BY <3>1, <3>3 DEF SetAside
      <4>2. AllTrees' \ dropped' = {}
        BY <4>1 DEF AllTrees
      <4>3. Contributions(AllTrees \ dropped)' = {}
        BY <4>2 DEF Contributions
      <4>4. Nothing = Ones({})
        BY DEF Nothing, Ones
      <4> QED BY <1>3, <3>1, <3>2, <3>3, <4>3, <4>4
    <3>4. CASE ~cfg.update
      <4>1. UNCHANGED <<trees, tree_info, tree_weight>>
        BY <3>1, <3>4 DEF SetAside, model
      <4>2. \A t : Of(t)' = Leaf(trees[t], tree_info[t], tree_weight[t], dtrain)
        BY <1>0, <3>1, <4>1 DEF Of, Leaf, AllGroups
      <4>3. Contributions(AllTrees \ dropped)'
              = UNION {Leaf(trees[t], tree_info[t], tree_weight[t], dtrain) : t \in AllTrees}
        BY <2>1, <4>1, <4>2 DEF Contributions, AllTrees
      <4> QED BY <1>3, <3>1, <3>2, <3>4, <4>3, PredictIsOnes
    <3> QED BY <3>3, <3>4
  <2> QED BY <2>2, <2>3 DEF TypeInv
<1>6. CASE PreBoost
  <2>0. /\ configured /\ dropped = {} /\ UNCHANGED <<trees, tree_info, tree_weight, binned, device>>
    BY <1>6 DEF PreBoost, ControlInv, model
  <2>1. PICK positions \in IF cfg.dart THEN SUBSET AllTrees ELSE {{}} :
               dropped' = positions /\ RemoveTrees(positions)
    BY <1>6 DEF PreBoost
  <2>2. CASE ~cfg.dart
    <3>1. positions = {} /\ dropped' = dropped
      BY <2>0, <2>1, <2>2
    <3>2. train_cache' = Plus(train_cache, {}, -1)
      BY <2>1, <3>1 DEF RemoveTrees
    <3>3. Current' = Current
      <4>1. CASE device.host_stale
        BY <2>0, <4>1 DEF Current
      <4>2. CASE ~device.host_stale
        BY <1>1, <2>0, <3>2, <4>2, PlusNothing DEF Current
      <4> QED BY <4>1, <4>2
    <3> QED BY <1>2, <2>0, <3>1, <3>3
  <2>3. CASE cfg.dart
    <3>1. positions \subseteq AllTrees
      BY <2>1, <2>3
    <3>2. \A t \in positions : Scalar(trees[t], tree_info[t], tree_weight[t], dtrain) = Of(t)
      BY <1>4, <2>3, <3>1, ScalarOf DEF Of
    <3>3. train_cache' = Plus(train_cache, Contributions(positions), -1)
      BY <2>1, <3>2 DEF RemoveTrees, Contributions
    <3>4. train_cache = Ones(Contributions(AllTrees)) /\ Current' = train_cache'
      BY <1>1, <1>4, <2>0, <2>3 DEF Current
    <3>5. Contributions(positions) \subseteq Contributions(AllTrees)
      BY <3>1 DEF Contributions
    <3>6. Contributions(AllTrees) \ Contributions(positions) = Contributions(AllTrees \ positions)
      BY <1>0, <3>1, OwnContributions DEF Contributions
    <3>7. Current' = Ones(Contributions(AllTrees \ positions))
      BY <3>3, <3>4, <3>5, <3>6, PlusGone
    <3>8. \A t : Of(t)' = Of(t)
      BY <1>0, <2>0 DEF Of, Leaf, AllGroups
    <3>9. Contributions(AllTrees \ dropped)' = Contributions(AllTrees \ positions)
      BY <2>0, <2>1, <3>8 DEF Contributions, AllTrees
    <3> QED BY <1>3, <3>7, <3>9
  <2> QED BY <2>2, <2>3
<1>7. CASE DeviceRound
  <2> DEFINE tree == Grown(FALSE, ThisRound)
  <2>0. <<>> \in Weights
    BY DEF Weights
  <2>1. tree \in TreeType
    BY GrownType
  <2>2. /\ configured /\ UNCHANGED <<binned, dropped>>
        /\ device' = [preds |-> Plus(Current, Leaf(tree, 0, <<>>, binned), 1),
                      host_stale |-> TRUE]
        /\ PushTree(tree, 0, <<>>)
    BY <1>7 DEF DeviceRound, ControlInv, Current
  <2> HIDE DEF tree
  <2>3. Current' = Plus(Current, Leaf(tree, 0, <<>>, binned), 1)
    BY <2>2 DEF Current
  <2>4. /\ Contributions(AllTrees \ dropped)'
             = Contributions(AllTrees \ dropped) \cup Leaf(tree, 0, <<>>, binned)
        /\ Contributions(AllTrees \ dropped) \cap Leaf(tree, 0, <<>>, binned) = {}
    BY <1>0, <2>0, <2>1, <2>2, PushMargin
  <2>5. Current' = Ones(Contributions(AllTrees \ dropped) \cup Leaf(tree, 0, <<>>, binned))
    BY <1>1, <2>2, <2>3, <2>4, PlusNew
  <2> QED BY <1>3, <2>4, <2>5
<1>8. CASE GetGradient
  <2>1. configured /\ Sync /\ UNCHANGED <<trees, tree_info, tree_weight, binned, dropped>>
    BY <1>8 DEF GetGradient, ControlInv, model
  <2> QED BY <1>2, <2>1, SyncKeeps
<1>9. CASE DoBoost
  <2>1. /\ configured /\ UNCHANGED <<binned, dropped, train_cache, device>>
    BY <1>9 DEF DoBoost, ControlInv
  <2>2. UNCHANGED <<trees, tree_info, tree_weight>>
    BY <1>9, DoBoostKeeps
  <2> QED BY <1>2, <2>1, <2>2 DEF Current
<1>10. ASSUME configured, ~device.host_stale, UNCHANGED <<binned, dropped, device>>,
              NEW tree \in TreeType, NEW group \in Nat, NEW w \in Weights,
              PushTree(tree, group, w),
              train_cache' = Plus(train_cache, Leaf(tree, group, w, binned), 1)
       PROVE  MarginInv'
  <2>1. Current' = train_cache' /\ Current = train_cache
    BY <1>10 DEF Current
  <2>2. /\ Contributions(AllTrees \ dropped)'
             = Contributions(AllTrees \ dropped) \cup Leaf(tree, group, w, binned)
        /\ Contributions(AllTrees \ dropped) \cap Leaf(tree, group, w, binned) = {}
    BY <1>0, <1>10, PushMargin
  <2>3. Current' = Ones(Contributions(AllTrees \ dropped) \cup Leaf(tree, group, w, binned))
    BY <1>1, <1>10, <2>1, <2>2, PlusNew
  <2> QED BY <1>3, <2>2, <2>3
<1>11. CASE GrowTree
  <2> DEFINE gid == (at - 1) \div cfg.parallel
             plain == Grown(FALSE, ThisRound)
             rewritten == [plain EXCEPT !.form = "modified"]
  <2>1. gid \in Nat
    <3>1. at - 1 \in Nat
      BY DEF TypeInv
    <3> QED BY <3>1, DivType, FitFacts
  <2>2. /\ configured /\ ~device.host_stale /\ UNCHANGED <<binned, dropped, device>>
    BY <1>11, FitFacts DEF GrowTree, ControlInv
  <2>3. plain \in TreeType /\ rewritten \in TreeType /\ ~rewritten.vector
    BY GrownType DEF Grown, TreeType
  <2>4. \/ /\ train_cache' = Plus(train_cache, Leaf(plain, gid, NewWeight, binned), 1)
           /\ PushTree(plain, gid, NewWeight)
        \/ /\ cfg.modifiers
           /\ train_cache' = Plus(train_cache, Scalar(rewritten, gid, NewWeight, dtrain), 1)
           /\ PushTree(rewritten, gid, NewWeight)
    BY <1>11 DEF GrowTree
  <2> HIDE DEF gid, plain, rewritten
  <2>5. cfg.modifiers =>
          Scalar(rewritten, gid, NewWeight, dtrain) = Leaf(rewritten, gid, NewWeight, binned)
    BY <1>0, <2>3, SameMatrix, ScalarOf
  <2> QED BY <1>10, <2>1, <2>2, <2>3, <2>4, <2>5, NewWeightType
<1>12. CASE GrowVectorTree
  <2> DEFINE tree == Grown(TRUE, ThisRound)
  <2>1. tree \in TreeType
    BY GrownType
  <2>2. /\ configured /\ ~device.host_stale /\ UNCHANGED <<binned, dropped, device>>
        /\ train_cache' = Plus(train_cache, Leaf(tree, 0, NewWeight, binned), 1)
        /\ PushTree(tree, 0, NewWeight)
    BY <1>12, FitFacts DEF GrowVectorTree, ControlInv
  <2> HIDE DEF tree
  <2> QED BY <1>10, <2>1, <2>2, NewWeightType
<1>13. CASE UpdateTree
  <2>1. /\ configured /\ cfg.update /\ ~device.host_stale /\ UNCHANGED <<binned, dropped, device>>
        /\ Slot \in DOMAIN trees_to_update /\ configured' = configured
    BY <1>13 DEF UpdateTree, ControlInv
  <2> DEFINE gid == (at - 1) \div cfg.parallel
  <2>2. PICK form \in {trees_to_update[Slot].form, "modified"} :
          /\ train_cache' = Plus(train_cache,
                 Scalar([trees_to_update[Slot] EXCEPT !.form = form], gid, <<>>, dtrain), 1)
          /\ PushTree([trees_to_update[Slot] EXCEPT !.form = form], gid, <<>>)
    BY <1>13 DEF UpdateTree
  <2>3. gid \in Nat
    <3>1. at - 1 \in Nat
      BY DEF TypeInv
    <3> QED BY <3>1, DivType, FitFacts
  <2> DEFINE tree == [trees_to_update[Slot] EXCEPT !.form = form]
  <2>4. tree \in TreeType
    <3>1. trees_to_update[Slot] \in TreeType
      BY <2>1 DEF TypeInv
    <3> QED BY <2>2, <3>1 DEF TreeType
  <2> HIDE DEF gid, tree
  <2>5. PushTree(tree, gid, <<>>) /\ <<>> \in Weights
    BY <2>2 DEF tree, Weights
  <2>6. ~tree.vector
    <3>1. /\ Len(trees') = Len(trees) + 1 /\ Len(trees) \in Nat /\ trees'[Len(trees')] = tree
      <4>1. Len(trees) \in Nat
        BY DEF TypeInv
      <4> QED BY <2>3, <2>4, <2>5, <4>1, PushType
    <3>2. \A t \in AllTrees' : ~trees'[t].vector
      BY <1>0, <2>1 DEF IdentityInv, Ordinary
    <3>3. Len(trees') \in AllTrees'
      BY <3>1 DEF AllTrees
    <3> QED BY <3>1, <3>2, <3>3
  <2>7. dtrain = binned
    BY <1>0, <2>1, SameMatrix, FitFacts DEF Supported
  <2>8. Scalar(tree, gid, <<>>, dtrain) = Leaf(tree, gid, <<>>, binned)
    BY <2>6, <2>7, ScalarOf
  <2>9. train_cache' = Plus(train_cache, Leaf(tree, gid, <<>>, binned), 1)
    BY <2>2, <2>8 DEF tree
  <2> QED BY <1>10, <2>1, <2>3, <2>4, <2>5, <2>9
<1>14. CASE UpdateNothing
  BY <1>2, <1>14 DEF UpdateNothing, ControlInv, Current, model
<1>15. CASE RescaleDropped
  <2>1. /\ configured /\ dropped' = {} /\ ~device.host_stale
        /\ UNCHANGED <<trees, tree_info, binned, device>>
        /\ tree_weight' = [t \in AllTrees |-> IF t \in dropped THEN Append(tree_weight[t], "drop")
                                                               ELSE tree_weight[t]]
        /\ train_cache' = Plus(train_cache,
             UNION {Scalar(trees[t], tree_info[t], Rescaled(t), dtrain) : t \in dropped}, 1)
    BY <1>15, FitFacts DEF RescaleDropped, ControlInv
  <2>2. dropped \subseteq AllTrees
    BY DEF TypeInv
  <2>3. /\ \A t \in AllTrees \ dropped : Of(t)' = Of(t)
        /\ \A t \in dropped : Of(t)' = Leaf(trees[t], tree_info[t], Rescaled(t), binned)
    BY <1>0, <2>1, <2>2 DEF Of, Leaf, AllGroups, Rescaled
  <2>4. \A t \in dropped : Scalar(trees[t], tree_info[t], Rescaled(t), dtrain) = Of(t)'
    <3> SUFFICES ASSUME NEW t \in dropped
                 PROVE  Scalar(trees[t], tree_info[t], Rescaled(t), dtrain) = Of(t)'
      OBVIOUS
    <3>1. cfg.dart
      BY DEF ControlInv
    <3>2. ~trees[t].vector /\ dtrain = binned
      BY <1>4, <2>2, <3>1
    <3> QED BY <2>3, <3>2, ScalarOf
  <2> DEFINE old == Contributions(AllTrees \ dropped)
             new == UNION {Of(t)' : t \in dropped}
  <2>5. /\ Current = train_cache /\ Current' = train_cache'
        /\ train_cache' = Plus(train_cache, new, 1)
    BY <2>1, <2>4 DEF Current
  <2>6. old = UNION {Of(t)' : t \in AllTrees \ dropped}
    BY <2>3 DEF Contributions
  <2>7. Contributions(AllTrees \ dropped)' = UNION {Of(t)' : t \in AllTrees}
    BY <2>1 DEF Contributions, AllTrees
  <2>8. UNION {Of(t)' : t \in AllTrees} = old \cup new
    <3>1. AllTrees = (AllTrees \ dropped) \cup dropped
      BY <2>2
    <3> QED BY <2>6, <3>1
  <2>9. old \cap new = {}
    <3>1. \A t, u \in AllTrees : t # u => Of(t)' \cap Of(u)' = {}
      <4> SUFFICES ASSUME NEW t \in AllTrees, NEW u \in AllTrees, NEW x \in Of(t)', x \in Of(u)'
                   PROVE  t = u
        OBVIOUS
      <4>1. x.tree = trees'[t] /\ x.tree = trees'[u]
        BY DEF Of, Leaf, Into
      <4>2. trees[t] = trees[u]
        BY <2>1, <4>1
      <4> QED BY <1>0, <4>2 DEF IdentityInv
    <3> SUFFICES ASSUME NEW x \in old, x \in new PROVE FALSE
      OBVIOUS
    <3>2. x \in UNION {Of(t)' : t \in AllTrees \ dropped}
      BY <2>6
    <3>3. PICK t \in AllTrees \ dropped : x \in Of(t)'
      BY <3>2
    <3>4. PICK u \in dropped : x \in Of(u)'
      OBVIOUS
    <3> QED BY <2>2, <3>1, <3>3, <3>4
  <2> HIDE DEF old, new
  <2>10. Current' = Ones(old \cup new)
    BY <1>1, <2>1, <2>5, <2>9, PlusNew DEF old
  <2> QED BY <1>3, <2>7, <2>8, <2>10
<1>16. CASE Score
  <2>1. configured /\ UNCHANGED <<trees, tree_info, tree_weight, binned, dropped>>
    BY <1>16 DEF Score, ControlInv, model
  <2>2. Sync \/ UNCHANGED <<train_cache, device>>
    BY <1>16 DEF Score, EvalTrain
  <2> QED BY <1>2, <2>1, <2>2, SyncKeeps DEF Current
<1>17. CASE Finish
  <2>1. configured /\ Sync /\ UNCHANGED <<trees, tree_info, tree_weight, binned, dropped>>
    BY <1>17 DEF Finish, ControlInv, model
  <2> QED BY <1>2, <2>1, SyncKeeps
<1>18. CASE Update \/ UNCHANGED vars
  BY <1>2, <1>18 DEF Update, vars, ControlInv, Current, model
<1> QED BY <1>5, <1>6, <1>7, <1>8, <1>9, <1>11, <1>12, <1>13, <1>14, <1>15, <1>16, <1>17, <1>18
        DEF Next, Finished

-----------------------------------------------------------------------------
(* Gradients, cuts and scores.                                             *)

(* A step keeps the cuts of the group.                                     *)
LEMMA CutsNext ==
  TypeInv /\ ControlInv /\ CutsInv /\ [Next]_vars => CutsInv'
<1> SUFFICES ASSUME TypeInv, ControlInv, CutsInv, [Next]_vars, cfg'.approx
             PROVE  CutsInv'
  BY DEF CutsInv
<1> DEFINE flat == [group |-> 0, margins |-> Nothing]
<1>1. CASE GrowTree
  <2> DEFINE gid == (at - 1) \div cfg.parallel
             anew == /\ (at - 1) % cfg.parallel = 0
                     /\ ~(cfg.constant /\ cuts # <<>>)
  <2>1. /\ UNCHANGED <<cfg, gpair>> /\ cfg.approx /\ pc = "grow" /\ at' = at + 1
        /\ cuts' = IF cfg.approx /\ anew THEN <<Hessians(gid)>> ELSE cuts
    BY <1>1 DEF GrowTree, Sketched, NextTurn
  <2>3. at \in Nat \ {0} /\ cfg.parallel \in Nat \ {0}
    BY FitFacts DEF TypeInv
  <2>4. cfg.constant => cuts \in {<<>>, <<flat>>} /\ Hessians(gid) = flat
    BY <2>1 DEF CutsInv, Hessians
  <2>5. cuts' = <<Hessians(gid)>>
    <3>1. CASE anew
      BY <2>1, <3>1
    <3>2. CASE cfg.constant /\ cuts # <<>>
      BY <2>1, <2>4, <3>2
    <3>3. CASE (at - 1) % cfg.parallel # 0
      <4> DEFINE P == cfg.parallel
                 k == (at - 1) \div P
                 m == (at - 1) % P
      <4>1. at - 1 \in Nat /\ at # 1
        <5>1. 0 % P = 0
          <6>1. 0 * P + 0 = 0 /\ 0 \in 0 .. P - 1
            BY <2>3
          <6>2. (0 * P + 0) % P = 0
            BY <2>3, <6>1, DivOf
          <6> QED BY <6>1, <6>2
        <5> QED BY <2>3, <3>3, <5>1
      <4>2. k \in Nat /\ m \in 0 .. P - 1 /\ at - 1 = k * P + m
        BY <2>3, <4>1, DivBounds
      <4>3. m # 0
        BY <3>3
      <4> HIDE DEF k, m, P
      <4>4. P \in Nat \ {0} /\ k * P \in Int
        BY <2>3, <4>2 DEF P
      <4>5. m - 1 \in 0 .. P - 1 /\ at - 2 = k * P + (m - 1)
        BY <2>3, <4>2, <4>3, <4>4
      <4>6. (at - 2) \div P = k
        <5>1. (k * P + (m - 1)) \div P = k
          BY <4>2, <4>4, <4>5, DivOf
        <5> QED BY <4>5, <5>1
      <4>7. cuts = <<Hessians((at - 2) \div cfg.parallel)>>
        <5>1. at > 1
          BY <2>3, <4>1
        <5> QED BY <2>1, <5>1 DEF CutsInv
      <4>8. (at - 2) \div cfg.parallel = gid
        BY <4>6 DEF P, k
      <4>9. cuts = <<Hessians(gid)>>
        BY <4>7, <4>8
      <4> QED BY <2>1, <3>3, <4>9
    <3> QED BY <3>1, <3>2, <3>3
  <2>6. (at' - 2) \div cfg'.parallel = gid
    <3>1. at' - 2 = at - 1
      BY <2>1, <2>3
    <3> QED BY <2>1, <3>1
  <2> HIDE DEF gid
  <2>7. <<Hessians((at - 2) \div cfg.parallel)>>' = <<Hessians(gid)>>
    BY <2>1, <2>6 DEF Hessians, Nothing
  <2>8. cfg'.constant => cuts' \in {<<>>, <<flat'>>}
    BY <2>1, <2>4, <2>5 DEF Nothing
  <2> QED BY <2>5, <2>7, <2>8 DEF CutsInv
<1>2. ASSUME UNCHANGED <<cfg, cuts>>, pc' \notin {"grow", "rescale"} \/ at' = 1
      PROVE  CutsInv'
  BY <1>2 DEF CutsInv, Nothing
<1>3. CASE DoBoost
  BY <1>2, <1>3 DEF DoBoost
<1>4. CASE GrowVectorTree
  <2>1. cfg.multi /\ cfg.approx
    BY <1>4 DEF GrowVectorTree
  <2> QED BY <2>1, FitFacts DEF Supported
<1>5. CASE UpdateTree \/ UpdateNothing
  <2>1. cfg.update /\ cfg.approx
    BY <1>5 DEF UpdateTree, UpdateNothing, ControlInv
  <2> QED BY <2>1, FitFacts DEF Supported
<1>6. CASE \/ Configure \/ PreBoost \/ DeviceRound \/ GetGradient \/ RescaleDropped \/ Score
           \/ Finish \/ Update
  <2>1. UNCHANGED <<cfg, cuts>> /\ pc' \notin {"grow", "rescale"}
    BY <1>6 DEF Configure, PreBoost, DeviceRound, GetGradient, RescaleDropped, Score, Finish,
                Update, EndOfRound
  <2> QED BY <1>2, <2>1
<1>7. CASE UNCHANGED vars
  BY <1>7 DEF vars, control, CutsInv, Hessians, Nothing
<1> QED BY <1>1, <1>3, <1>4, <1>5, <1>6, <1>7 DEF Next, Finished

(* A step keeps the gradients and the score.                               *)
LEMMA FitNext ==
  TypeInv /\ ControlInv /\ IdentityInv /\ MarginInv /\ FitInv /\ [Next]_vars
  /\ IdentityInv' /\ MarginInv' /\ ControlInv' => FitInv'
<1> SUFFICES ASSUME TypeInv, ControlInv, IdentityInv, MarginInv, FitInv, [Next]_vars,
                    IdentityInv', MarginInv', ControlInv', Ordinary'
             PROVE  FitInv'
  BY DEF FitInv
<1>0. Ordinary /\ UNCHANGED <<cfg, base>>
  <2>1. UNCHANGED <<cfg, base>>
    BY DEF Next, vars, Configure, PreBoost, DeviceRound, GetGradient, DoBoost, GrowTree,
           GrowVectorTree, UpdateTree, UpdateNothing, RescaleDropped, Score, Finish, Update,
           Finished
  <2> QED BY <2>1, OrdinaryBefore
<1>1. configured => Current = Ones(Contributions(AllTrees \ dropped))
  BY <1>0 DEF MarginInv
<1>2. ASSUME pc' \notin {"boost", "score", "finish", "round"} PROVE FitInv'
  BY <1>2 DEF FitInv, ScoresCurrentModel
<1>3. CASE Configure \/ PreBoost \/ DoBoost \/ GrowTree \/ GrowVectorTree \/ UpdateTree
           \/ UpdateNothing \/ Finish
  <2>1. pc' \notin {"boost", "score", "finish", "round"}
    BY <1>3 DEF Configure, PreBoost, DoBoost, GrowTree, GrowVectorTree, NextTurn, UpdateTree,
                UpdateNothing, Finish
  <2> QED BY <1>2, <2>1
<1>4. CASE GetGradient
  <2>1. /\ configured /\ Sync /\ pc' = "boost"
        /\ gpair' = [margins |-> train_cache', labels |-> dtrain] /\ dtrain' = dtrain
    BY <1>4 DEF GetGradient, ControlInv
  <2>2. configured' /\ train_cache' = Current /\ Current' = Current
    BY <1>4, <2>1, SyncKeeps DEF GetGradient
  <2>3. Current' = Ones(Contributions(AllTrees \ dropped))'
    BY <2>2 DEF MarginInv
  <2> QED BY <2>1, <2>2, <2>3 DEF FitInv, ScoresCurrentModel
<1>5. CASE DeviceRound
  <2> DEFINE tree == Grown(FALSE, ThisRound)
  <2>1. /\ configured /\ dropped = {} /\ UNCHANGED <<binned, dropped>> /\ pc' \in {"score", "done"}
        /\ gpair' = [margins |-> Current, labels |-> binned]
        /\ PushTree(tree, 0, <<>>) /\ tree \in TreeType /\ <<>> \in Weights
    <3>1. tree \in TreeType /\ <<>> \in Weights
      <4>1. Grown(FALSE, ThisRound) \in TreeType
        BY GrownType
      <4>2. <<>> \in Weights
        BY DEF Weights
      <4> QED BY <4>1, <4>2 DEF tree
    <3>2. configured /\ dropped = {} /\ pc = "device"
      BY <1>5 DEF DeviceRound, ControlInv
    <3>3. /\ UNCHANGED <<binned, dropped>> /\ pc' \in {"score", "done"}
          /\ gpair' = [margins |-> Current, labels |-> binned]
          /\ PushTree(tree, 0, <<>>)
      BY <1>5 DEF DeviceRound, Current, EndOfRound, tree
    <3> QED BY <3>1, <3>2, <3>3
  <2> HIDE DEF tree
  <2>2. Contributions(AllTrees \ {Len(trees)})' = Contributions(AllTrees)
    BY <1>0, <2>1, PushMargin
  <2>3. Current = Ones(Contributions(AllTrees))
    BY <1>1, <2>1
  <2>4. Ones(Contributions(AllTrees \ {Len(trees)}))' = Current
    BY <2>2, <2>3 DEF Ones
  <2> QED BY <2>1, <2>4 DEF FitInv, ScoresCurrentModel
<1>6. CASE RescaleDropped
  <2>1. pc' = EndOfRound /\ UNCHANGED <<cfg, updates>>
    BY <1>6 DEF RescaleDropped
  <2>2. ~cfg.plain
    BY <1>6 DEF RescaleDropped, ControlInv
  <2> QED BY <2>1, <2>2 DEF FitInv, ScoresCurrentModel, EndOfRound
<1>7. CASE Score
  <2>1. /\ configured /\ configured' /\ dropped' = {} /\ pc' \in {"finish", "round"}
        /\ UNCHANGED <<dtrain, binned>> /\ dtrain = binned
        /\ cfg.eval_train => EvalTrain
    BY <1>7 DEF Score, ControlInv
  <2>2. cfg.eval_train => scored' = Current'
    <3> SUFFICES ASSUME cfg.eval_train PROVE scored' = Current'
      OBVIOUS
    <3>1. CASE cfg.rmse /\ device.host_stale
      BY <2>1, <3>1 DEF EvalTrain, Current
    <3>2. CASE ~(cfg.rmse /\ device.host_stale)
      BY <2>1, <3>2, SyncKeeps DEF EvalTrain
    <3> QED BY <3>1, <3>2
  <2>3. Current' = Ones(Contributions(AllTrees \ dropped))'
    BY <2>1 DEF MarginInv
  <2>4. AllTrees' \ dropped' = AllTrees'
    BY <2>1
  <2>5. Ones(Contributions(AllTrees \ dropped))' = PredictMargin(AllTrees, dtrain)'
    <3>1. Contributions(AllTrees \ dropped)'
            = UNION {Leaf(trees[t], tree_info[t], tree_weight[t], dtrain)' : t \in AllTrees'}
      BY <2>1, <2>4 DEF Contributions, Of, Leaf, AllGroups
    <3> QED BY <3>1 DEF PredictMargin, Ones
  <2>6. cfg'.eval_train => scored' = PredictMargin(AllTrees, dtrain)'
    BY <1>0, <2>2, <2>3, <2>5
  <2> QED BY <2>1, <2>6 DEF FitInv, ScoresCurrentModel
<1>8. CASE Update
  <2>1. pc' = "round" /\ updates' # 0
    BY <1>8 DEF Update, TypeInv
  <2> QED BY <2>1 DEF FitInv, ScoresCurrentModel
<1>9. CASE UNCHANGED vars
  <2>1. FitInv
    OBVIOUS
  <2>2. UNCHANGED <<pc, cfg, gpair, trees, tree_info, tree_weight, dropped, binned, dtrain,
                    scored, iter, updates>>
    BY <1>9 DEF vars, model, control, evaluation
  <2> QED BY <1>0, <2>1, <2>2 DEF FitInv, ScoresCurrentModel, Contributions, Of, Leaf, AllGroups,
                           AllTrees, PredictMargin, Ones
<1> QED BY <1>3, <1>4, <1>5, <1>6, <1>7, <1>8, <1>9 DEF Next, Finished

-----------------------------------------------------------------------------
(* The theorems.                                                           *)

(* Init: the remaining parts.                                              *)
LEMMA InitRest == Init => ShapeInv /\ IdentityInv /\ MarginInv /\ CutsInv /\ FitInv
<1> SUFFICES ASSUME Init PROVE ShapeInv /\ IdentityInv /\ MarginInv /\ CutsInv /\ FitInv
  OBVIOUS
<1>1. /\ ~configured /\ pc = "round" /\ iter = 0 /\ cuts = <<>> /\ trees = base.trees
      /\ fresh = Len(base.trees) + 1
  BY DEF Init
<1>2. Ensemble(base) /\ AllTrees = DOMAIN base.trees
  <2>1. TypeInv
    BY InitInv
  <2>2. Ensemble(base)
    BY <2>1, FitFacts
  <2>3. base.trees \in Seq(TreeType)
    BY <2>2 DEF Ensemble
  <2> QED BY <1>1, <2>2, <2>3 DEF AllTrees
<1>3. ShapeInv /\ MarginInv
  BY <1>1 DEF ShapeInv, MarginInv
<1>4. IdentityInv
  BY <1>1, <1>2 DEF IdentityInv, ScalarTrees, Ensemble
<1>5. CutsInv
  BY <1>1 DEF CutsInv
<1>6. FitInv
  BY <1>1 DEF FitInv, ScoresCurrentModel
<1> QED BY <1>3, <1>4, <1>5, <1>6

(* Every reachable state satisfies the invariant.                          *)
THEOREM Invariance == Spec => []IInv
<1>1. Init => IInv
  BY InitInv, InitStop, InitRest DEF IInv
<1>2. IInv /\ [Next]_vars => IInv'
  BY TypeNext, ControlNext, StopNext, ShapeNext, IdentityNext, MarginNext, CutsNext, FitNext
  DEF IInv
<1> QED BY <1>1, <1>2, PTL DEF Spec

(* For every fit and every sequence of scores, training stops              *)
(* early_stopping_rounds after the first of the best rounds and not        *)
(* before, and best_iteration is that round (EarlyStopping::update).       *)
THEOREM EarlyStopping == Spec => []StopsAtBest
<1>1. IInv => StopsAtBest
  BY DEF IInv, StopInv, StopsAtBest
<1> QED BY <1>1, Invariance, PTL

(* For every base of the fit's shape and any number of rounds,             *)
(* update_round puts every tree back in its place and its output group.    *)
THEOREM InPlace == Spec => [](Continues => UpdateInPlace)
<1>1. IInv /\ Continues => UpdateInPlace
  <2> SUFFICES ASSUME IInv, Continues, cfg.update, configured, NEW t \in AllTrees
               PROVE  /\ t \in DOMAIN base.trees
                      /\ trees[t].id = base.trees[t].id
                      /\ tree_info[t] = base.tree_info[t]
    BY DEF UpdateInPlace
  <2>1. TypeInv /\ ~VectorFit /\ Ensemble(base)
    BY FitFacts DEF IInv, Supported, VectorFit
  <2>2. /\ Len(trees) <= Len(base.trees) /\ Len(trees) \in Nat
        /\ trees[t].id = t /\ tree_info[t] = base.tree_info[t]
    BY <2>1 DEF IInv, ShapeInv, TypeInv
  <2>3. base.trees \in Seq(TreeType)
    BY <2>1 DEF Ensemble
  <2>4. t \in DOMAIN base.trees
    BY <2>2, <2>3 DEF AllTrees
  <2> QED BY <2>1, <2>2, <2>4 DEF Ensemble
<1> QED BY <1>1, Invariance, PTL

(* For every base of the fit's shape and any number of groups, parallel    *)
(* trees and rounds, boosted_rounds counts the rounds that ran and         *)
(* TreeRange::from_rounds names the trees of those rounds.                 *)
THEOREM Slices == Spec => [](Continues => SlicesAreRounds)
<1>1. IInv /\ Continues => SlicesAreRounds
  <2> SUFFICES ASSUME IInv, Continues, pc = "done", ~VectorFit
               PROVE  /\ RoundsCounted
                      /\ \A r \in 1 .. RoundsRun :
                           FromRounds(r - 1, r) = {t \in AllTrees : trees[t].round = r}
    BY DEF SlicesAreRounds, VectorFit
  <2>1. TypeInv /\ ControlInv /\ configured
    BY DEF IInv, ControlInv
  <2>2. /\ TreesPerRound = PerRound /\ PerRound \in Nat \ {0} /\ Len(trees) \in Nat
        /\ iter \in Nat /\ updates \in Nat /\ base.rounds \in Nat
    BY <2>1, FitFacts DEF TreesPerRound, PerRound, Continues, TypeInv, Ensemble
  <2>3. RoundsRun = Kept(Ran)
    BY <2>2 DEF RoundsRun, Kept, Ran
  <2>4. /\ RoundsRun \in Nat /\ Len(trees) = RoundsRun * PerRound
        /\ \A t \in AllTrees : InBlock(t, trees[t].round, tree_info[t])
    BY <2>1, <2>3, RanFacts DEF IInv, ShapeInv
  <2>5. RoundsCounted
    <3>1. (RoundsRun * PerRound + 0) \div PerRound = RoundsRun
      BY <2>2, <2>4, DivOf
    <3>2. RoundsRun * PerRound + 0 = Len(trees)
      BY <2>2, <2>4
    <3> QED BY <2>2, <3>1, <3>2 DEF RoundsCounted, NumRounds
  <2>6. ASSUME NEW r \in 1 .. RoundsRun
        PROVE  FromRounds(r - 1, r) = {t \in AllTrees : trees[t].round = r}
    <3>1. FromRounds(r - 1, r) = (r - 1) * PerRound + 1 .. r * PerRound
      <4>1. /\ (r - 1) * PerRound <= RoundsRun * PerRound /\ r * PerRound <= RoundsRun * PerRound
        BY <2>2, <2>4, Monotone
      <4> QED BY <2>2, <2>4, <4>1 DEF FromRounds, Smaller
    <3>2. (r - 1) * PerRound \in Nat /\ r * PerRound \in Nat /\ r * PerRound <= Len(trees)
      BY <2>2, <2>4, Monotone
    <3>3. ASSUME NEW t \in AllTrees
          PROVE  trees[t].round = r <=> (r - 1) * PerRound < t /\ t <= r * PerRound
      <4> DEFINE q == trees[t].round
      <4>1. q \in Int /\ InBlock(t, q, tree_info[t]) /\ tree_info[t] \in Nat /\ t \in Int
        <5>1. trees \in Seq(TreeType) /\ tree_info \in Seq(Nat) /\ Len(tree_info) = Len(trees)
          BY <2>1 DEF TypeInv
        <5>2. trees[t] \in TreeType /\ tree_info[t] \in Nat /\ t \in Int
          BY <5>1 DEF AllTrees
        <5> QED BY <2>4, <5>2 DEF TreeType
      <4>2. (q - 1) * PerRound < t /\ t <= q * PerRound
        BY <2>1, <4>1, InRound
      <4> HIDE DEF q
      <4>3. ASSUME (r - 1) * PerRound < t, t <= r * PerRound PROVE q = r
        <5>1. ~(q < r)
          <6> SUFFICES ASSUME q < r PROVE FALSE
            OBVIOUS
          <6>1. q * PerRound <= (r - 1) * PerRound /\ q * PerRound \in Int
            BY <2>2, <4>1, Monotone
          <6> QED BY <3>2, <4>1, <4>2, <4>3, <6>1
        <5>2. ~(r < q)
          <6> SUFFICES ASSUME r < q PROVE FALSE
            OBVIOUS
          <6>1. r * PerRound <= (q - 1) * PerRound /\ (q - 1) * PerRound \in Int
            BY <2>2, <4>1, Monotone
          <6> QED BY <3>2, <4>1, <4>2, <4>3, <6>1
        <5> QED BY <4>1, <5>1, <5>2
      <4> QED BY <4>2, <4>3 DEF q
    <3>4. \A t \in (r - 1) * PerRound + 1 .. r * PerRound : t \in AllTrees
      BY <2>2, <3>2 DEF AllTrees
    <3>5. \A t \in AllTrees : t \in Int
      BY DEF AllTrees
    <3>6. \A t \in Int : t \in (r - 1) * PerRound + 1 .. r * PerRound
                           <=> (r - 1) * PerRound < t /\ t <= r * PerRound
      BY <3>2
    <3> QED BY <3>1, <3>3, <3>4, <3>5, <3>6
  <2> QED BY <2>5, <2>6
<1> QED BY <1>1, Invariance, PTL

(* In an ordinary fit the margins that are current after a round are the   *)
(* prediction of the model, whatever was dropped, rescaled, rewritten or   *)
(* left on the device.                                                     *)
THEOREM CacheCorrect == Spec => [](Ordinary => CacheIsPrediction)
<1>1. IInv /\ Ordinary => CacheIsPrediction
  <2> SUFFICES ASSUME IInv, Ordinary, BetweenRounds
               PROVE  PredictMargin(AllTrees, binned) = Current
    BY DEF CacheIsPrediction, Current
  <2>1. configured /\ dropped = {}
    BY DEF IInv, ControlInv, BetweenRounds
  <2>2. Current = Ones(Contributions(AllTrees))
    BY <2>1 DEF IInv, MarginInv
  <2> QED BY <2>2, PredictIsOnes DEF Contributions, Of
<1> QED BY <1>1, Invariance, PTL

(* In an ordinary fit eval_train scores the model the round left.          *)
THEOREM ScoresCorrect == Spec => [](Ordinary => ScoresCurrentModel)
<1>1. IInv /\ Ordinary => ScoresCurrentModel
  BY DEF IInv, FitInv
<1> QED BY <1>1, Invariance, PTL

(* In an ordinary fit, and as long as it is asked for the matrix it        *)
(* binned, the gradients of a round are those of the trees it has not      *)
(* dropped, and an approx tree is sketched by its own group.               *)
THEOREM FitsCorrect == Spec => [](Ordinary /\ dtrain = binned => FitsResiduals)
<1>1. IInv /\ Ordinary /\ dtrain = binned => FitsResiduals
  <2> SUFFICES ASSUME IInv, Ordinary, dtrain = binned PROVE FitsResiduals
    OBVIOUS
  <2>1. \A P : PredictMargin(P, dtrain) = Ones(Contributions(P))
    BY PredictIsOnes DEF Contributions, Of
  <2>2. /\ FitInv /\ CutsInv
    BY DEF IInv
  <2> QED BY <2>1, <2>2 DEF FitInv, CutsInv, FitsResiduals
<1> QED BY <1>1, Invariance, PTL

(* A fit of the base's shape leaves a model of that shape, so what is      *)
(* proved of a continued fit applies again to the next.                    *)
THEOREM Resumable == Spec => [](Continues => LeavesBase)
<1>1. IInv /\ Continues => LeavesBase
  <2> SUFFICES ASSUME IInv, Continues, pc = "done", ~VectorFit
               PROVE  /\ Len(trees) = RoundsRun * PerRound
                      /\ \A t \in AllTrees : /\ trees[t].id = t
                                             /\ InBlock(t, trees[t].round, tree_info[t])
    BY DEF LeavesBase
  <2>1. TypeInv /\ ControlInv /\ configured
    BY DEF IInv, ControlInv
  <2>2. iter \in Nat /\ updates \in Nat /\ base.rounds \in Nat
    BY <2>1, FitFacts DEF TypeInv, Ensemble
  <2>3. RoundsRun = Kept(Ran)
    BY <2>2 DEF RoundsRun, Kept, Ran
  <2> QED BY <2>1, <2>3 DEF IInv, ShapeInv, IdentityInv
<1> QED BY <1>1, Invariance, PTL
=============================================================================
