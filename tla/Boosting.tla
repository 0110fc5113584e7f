------------------------------ MODULE Boosting -------------------------------
(***************************************************************************)
(* Boosting rounds over a tree booster: Learner (src/learner.rs), GBTree   *)
(* (src/gbm/mod.rs), the device copy of the predictions                    *)
(* (src/gpu/objective.rs) and the loop of train_from (src/api.rs) with     *)
(* early stopping, then later rounds through Booster::update.              *)
(*                                                                         *)
(* The trees are grown elsewhere (TreeGrower).  Here a tree is an identity *)
(* and what it has become, and a margin is the set of the contributions    *)
(* summed in it: which tree, in which form, into which output group, at    *)
(* which weight, over which matrix.  A margin that misses a tree, counts   *)
(* one twice, at a stale weight or in a stale form is then a different     *)
(* value.  A weight is the sequence of the factors DART has multiplied it  *)
(* by; metrics are drawn from a small set of scores.                       *)
(***************************************************************************)
EXTENDS Integers, FiniteSets, Sequences

CONSTANTS Fits,           \* [cfg, base]: the fits considered and the ensembles
                          \* they continue from, without trees for a new one
          Matrices,       \* matrices a round may be asked to fit
          Scores,         \* values of the watched metric, the larger the better
          MaxUpdates      \* bound on the rounds run through Booster::update

NaN == -1                 \* a metric that is not a number compares false

(* dart: the booster has dropout; update: process_type=update; multi:      *)
(* multi_strategy=multi_output_tree; plain: every test of device_round on  *)
(* the configuration passes; modifiers: the pipeline has refresh or prune; *)
(* eval_train: dtrain is an evaluation set; rmse: the only metric is rmse; *)
(* stop: early_stopping_rounds, 0 when unset; rounds: num_boost_round;     *)
(* approx: the grower is an approx one; constant: the objective's hessian  *)
(* is the same for every margin.                                           *)
ConfigType ==
  [dart : BOOLEAN, update : BOOLEAN, groups : Nat \ {0}, parallel : Nat \ {0},
   multi : BOOLEAN, plain : BOOLEAN, modifiers : BOOLEAN, eval_train : BOOLEAN,
   rmse : BOOLEAN, stop : Nat, rounds : Nat \ {0}, approx : BOOLEAN, constant : BOOLEAN]

(* What is refused before a fit begins, and what the device leaves to the  *)
(* host.                                                                   *)
Supported(c) ==
  /\ c.multi => ~c.update /\ ~c.modifiers /\ ~c.approx
  /\ c.update => c.modifiers /\ ~c.approx
  /\ c.plain => /\ ~c.dart /\ ~c.update /\ ~c.modifiers /\ ~c.multi
                /\ ~c.approx /\ c.groups = 1 /\ c.parallel = 1

TreeType == [id : Nat, round : Nat, form : {"grown", "modified", "taken"},
             vector : BOOLEAN]
(* A tree of the base is identified by its place. *)
Ensemble(b) ==
  /\ b.trees \in Seq(TreeType) /\ b.tree_info \in Seq(Nat)
  /\ Len(b.tree_info) = Len(b.trees)
  /\ \A t \in DOMAIN b.trees : b.trees[t].id = t
  /\ b.parallel \in Nat \ {0} /\ b.rounds \in Nat

ASSUME BoostingAssumption ==
  /\ \A f \in Fits : /\ f.cfg \in ConfigType /\ Supported(f.cfg)
                     /\ Ensemble(f.base)
                     /\ f.cfg.update => f.base.trees # <<>>
  /\ Scores \subseteq Nat \cup {NaN}
  /\ MaxUpdates \in Nat

VARIABLES
  pc,             \* where the round is
  cfg,            \* the fit
  base,           \* the ensemble it continues from
  dtrain,         \* the matrix of the round
  trees,          \* GBTreeModel::trees
  tree_info,      \* GBTreeModel::tree_info
  tree_weight,    \* GBTreeModel::tree_weight
  trees_to_update,\* the ensemble process_type=update revisits
  dropped,        \* positions of the trees this round leaves out
  configured,     \* Learner::configured
  binned,         \* the matrix bins, labels and caches were made for
  train_cache,    \* the host's margins
  device,         \* [preds, host_stale]: the device's margins
  cuts,           \* the hessians an approx fit's bins were sketched by, none before the first
  gpair,          \* the margins and labels the gradients were taken from
  first,          \* position of the round's first tree to update
  at,             \* turn of the loop over groups and parallel trees
  fresh,          \* identity of the next tree
  iter,           \* rounds the loop of train_from has begun
  updates,        \* rounds begun through Booster::update
  scored,         \* the margins eval_train last scored
  history,        \* scores of the metric early stopping watches
  stopper         \* EarlyStopping

model == <<trees, tree_info, tree_weight>>
control == <<pc, dtrain, iter, updates>>
evaluation == <<scored, history, stopper>>
vars == <<cfg, base, cuts, model, control, trees_to_update, dropped, configured, binned,
          train_cache, device, gpair, first, at, fresh, evaluation>>

-----------------------------------------------------------------------------
(* Margins. *)

Count(margin, x) == IF x \in DOMAIN margin THEN margin[x] ELSE 0

(* The margin with each of the contributions added k times.                *)
Plus(margin, contributions, k) ==
  LET sum(x) == Count(margin, x) + (IF x \in contributions THEN k ELSE 0)
  IN [x \in {y \in DOMAIN margin \cup contributions : sum(y) # 0} |-> sum(x)]

Nothing == [x \in {} |-> 0]

(* One tree into one output group.                                         *)
Into(tree, group, weight, matrix) ==
  [tree |-> tree, group |-> group, weight |-> weight, matrix |-> matrix]

AllGroups == 0 .. cfg.groups - 1

(* What a traversal that reads Node::value adds: a vector leaf keeps zero  *)
(* there.                                                                  *)
Scalar(tree, group, weight, matrix) ==
  IF tree.vector THEN {} ELSE {Into(tree, group, weight, matrix)}

(* What reading the whole leaf adds: a vector leaf has every output.       *)
Leaf(tree, group, weight, matrix) ==
  {Into(tree, g, weight, matrix) : g \in IF tree.vector THEN AllGroups ELSE {group}}

(* predict_margin over the trees at the given positions.                   *)
PredictMargin(positions, matrix) ==
  LET all == UNION {Leaf(trees[t], tree_info[t], tree_weight[t], matrix) : t \in positions}
  IN [x \in all |-> 1]

AllTrees == 1 .. Len(trees)

(* A mutated form: the output groups are not counted. *)
TreesPerRound_NoGroups == base.parallel

(* GBTreeModel::trees_per_round; the model keeps the num_parallel_tree of  *)
(* the ensemble it continues.                                              *)
TreesPerRound == base.parallel * cfg.groups
NumRounds == Len(trees) \div TreesPerRound

Smaller(a, b) == IF a <= b THEN a ELSE b

(* TreeRange::from_rounds, as positions.                                   *)
FromRounds(begin, end) ==
  Smaller(begin * TreesPerRound, Len(trees)) + 1 .. Smaller(end * TreesPerRound, Len(trees))

-----------------------------------------------------------------------------
(* A fit, and the head of a round. *)

NoStopper == [best_score |-> 0, best_iteration |-> 0, since_improvement |-> 0,
              started |-> FALSE]

(* train_from up to the loop: a new learner, continued from a base if one  *)
(* is given.  An update without trees to revisit is refused.               *)
Init ==
  /\ pc = "round"
  /\ \E f \in Fits : cfg = f.cfg /\ base = f.base
  /\ dtrain \in Matrices
  /\ trees = base.trees /\ tree_info = base.tree_info
  /\ tree_weight = [i \in DOMAIN base.trees |-> <<>>]
  /\ trees_to_update = <<>>
  /\ dropped = {}
  /\ configured = FALSE /\ binned = dtrain
  /\ train_cache = Nothing
  /\ cuts = <<>>
  /\ device = [preds |-> Nothing, host_stale |-> FALSE]
  /\ gpair = [margins |-> Nothing, labels |-> dtrain]
  /\ first = 0 /\ at = 1
  /\ fresh = Len(base.trees) + 1
  /\ iter = 0 /\ updates = 0
  /\ scored = Nothing /\ history = <<>> /\ stopper = NoStopper

(* GBTree::configure: under `update` the ensemble is set aside, once.      *)
SetAside ==
  IF cfg.update /\ trees_to_update = <<>>
  THEN /\ trees_to_update' = trees
       /\ trees' = <<>> /\ tree_info' = <<>> /\ tree_weight' = <<>>
  ELSE UNCHANGED <<model, trees_to_update>>

(* Learner::configure, which does nothing the second time: the matrix is   *)
(* binned and the margins start from what the booster still holds.         *)
Configure ==
  /\ pc = "round"
  /\ IF configured
     THEN UNCHANGED <<model, trees_to_update, configured, binned, train_cache>>
     ELSE /\ SetAside
          /\ configured' = TRUE
          /\ binned' = dtrain
          /\ train_cache' = IF cfg.update THEN Nothing ELSE PredictMargin(AllTrees, dtrain)
  /\ pc' = "drop"
  /\ UNCHANGED <<cfg, base, cuts, dtrain, iter, updates, dropped, device, gpair, first, at,
                 fresh, evaluation>>

(* A mutated form: the dropped trees stay in the margins. *)
RemoveTrees_None(positions) == UNCHANGED train_cache

(* GBTree::remove_trees *)
RemoveTrees(positions) ==
  train_cache' = Plus(train_cache,
    UNION {Scalar(trees[t], tree_info[t], tree_weight[t], dtrain) : t \in positions}, -1)

(* GBTree::pre_boost: which trees are dropped is up to the draws.          *)
PreBoost ==
  /\ pc = "drop"
  /\ \E positions \in IF cfg.dart THEN SUBSET AllTrees ELSE {{}} :
       /\ dropped' = positions
       /\ RemoveTrees(positions)
  /\ pc' = IF cfg.plain THEN "device" ELSE "gradient"
  /\ UNCHANGED <<cfg, base, cuts, dtrain, iter, updates, model, trees_to_update, configured,
                 binned, device, gpair, first, at, fresh, evaluation>>

-----------------------------------------------------------------------------
(* The round itself. *)

Grown(vector, round) ==
  [id |-> fresh, round |-> round, form |-> "grown", vector |-> vector]

PushTree(tree, group, weight) ==
  /\ trees' = Append(trees, tree)
  /\ tree_info' = Append(tree_info, group)
  /\ tree_weight' = Append(tree_weight, weight)

(* Learner::sync_train_cache: DeviceRound::download when the host is behind. *)
Sync ==
  IF device.host_stale
  THEN /\ train_cache' = device.preds
       /\ device' = [device EXCEPT !.host_stale = FALSE]
  ELSE UNCHANGED <<train_cache, device>>

(* The round the learner is in, the base's counted.                        *)
ThisRound == base.rounds + iter + (IF updates = 0 THEN 1 ELSE updates)

EndOfRound == IF updates = 0 THEN "score" ELSE "done"

(* GBTree::device_round: the margins are uploaded unless the device is     *)
(* ahead, the gradients taken from them, and the tree added to them there. *)
DeviceRound ==
  /\ pc = "device"
  /\ LET before == IF device.host_stale THEN device.preds ELSE train_cache
         tree == Grown(FALSE, ThisRound)
     IN /\ gpair' = [margins |-> before, labels |-> binned]
        /\ device' = [preds |-> Plus(before, Leaf(tree, 0, <<>>, binned), 1),
                      host_stale |-> TRUE]
        /\ PushTree(tree, 0, <<>>)
  /\ fresh' = fresh + 1
  /\ pc' = EndOfRound
  /\ UNCHANGED <<cfg, base, cuts, dtrain, iter, updates, trees_to_update, dropped, configured,
                 binned, train_cache, first, at, evaluation>>

(* The gradients of a host round, of the labels of the matrix given.       *)
GetGradient ==
  /\ pc = "gradient"
  /\ Sync
  /\ gpair' = [margins |-> train_cache', labels |-> dtrain]
  /\ pc' = "boost"
  /\ UNCHANGED <<cfg, base, cuts, dtrain, iter, updates, model, trees_to_update, dropped,
                 configured, binned, first, at, fresh, evaluation>>

(* The head of do_boost.                                                   *)
DoBoost ==
  /\ pc = "boost"
  /\ SetAside
  /\ at' = 1
  /\ first' = (Len(trees) \div (cfg.parallel * cfg.groups)) * (cfg.parallel * cfg.groups)
  /\ pc' = IF cfg.update THEN "update" ELSE "grow"
  /\ UNCHANGED <<cfg, base, cuts, dtrain, iter, updates, dropped, configured, binned,
                 train_cache, device, gpair, fresh, evaluation>>

(* Turns of the loops over the groups and their parallel trees; a vector   *)
(* leaf covers the groups.                                                 *)
Turns == IF cfg.multi /\ cfg.groups > 1 THEN cfg.parallel ELSE cfg.groups * cfg.parallel

(* dart_weights: the weight of the trees to come.                          *)
NewWeight == IF dropped # {} THEN <<"new">> ELSE <<>>

NextTurn(phase) ==
  /\ at' = at + 1
  /\ pc' = IF at = Turns THEN "rescale" ELSE phase

(* What the rows of a group weigh in a sketch: their hessians, which follow *)
(* the margins of the group unless they are constant.  (A row sample would  *)
(* take rows out of them; it is left out.)                                 *)
Hessians(gid) ==
  IF cfg.constant THEN [group |-> 0, margins |-> Nothing]
  ELSE [group |-> gid, margins |-> gpair.margins]

(* grow_round_approx bins the matrix anew for the first tree of a group,    *)
(* unless that would give the cuts it has.                                 *)
Sketched(gid) ==
  cuts' = IF /\ cfg.approx /\ (at - 1) % cfg.parallel = 0
             /\ ~(cfg.constant /\ cuts # <<>>)
          THEN <<Hessians(gid)>> ELSE cuts

(* One tree of grow_round, or of grow_round_approx: margins come from the  *)
(* grower's row sets, unless a modifying stage has changed the tree.       *)
GrowTree ==
  /\ pc = "grow"
  /\ ~(cfg.multi /\ cfg.groups > 1)
  /\ LET gid == (at - 1) \div cfg.parallel
         tree == Grown(FALSE, ThisRound)
         rewritten == [tree EXCEPT !.form = "modified"]
     IN /\ Sketched(gid)
        /\ \/ /\ train_cache' = Plus(train_cache, Leaf(tree, gid, NewWeight, binned), 1)
              /\ PushTree(tree, gid, NewWeight)
           \/ /\ cfg.modifiers
              /\ train_cache' = Plus(train_cache, Scalar(rewritten, gid, NewWeight, dtrain), 1)
              /\ PushTree(rewritten, gid, NewWeight)
  /\ fresh' = fresh + 1
  /\ NextTurn("grow")
  /\ UNCHANGED <<cfg, base, dtrain, iter, updates, trees_to_update, dropped, configured,
                 binned, device, gpair, first, evaluation>>

(* One tree of grow_round_multi.                                           *)
GrowVectorTree ==
  /\ pc = "grow"
  /\ cfg.multi /\ cfg.groups > 1
  /\ LET tree == Grown(TRUE, ThisRound)
     IN /\ train_cache' = Plus(train_cache, Leaf(tree, 0, NewWeight, binned), 1)
        /\ PushTree(tree, 0, NewWeight)
  /\ fresh' = fresh + 1
  /\ NextTurn("grow")
  /\ UNCHANGED <<cfg, base, cuts, dtrain, iter, updates, trees_to_update, dropped, configured,
                 binned, device, gpair, first, evaluation>>

(* A mutated form: the groups run inside the parallel trees. *)
Slot_GroupsInner ==
  first + ((at - 1) % cfg.parallel) * cfg.groups + ((at - 1) \div cfg.parallel) + 1

(* The place, from one, of the tree update_round revisits in this turn.    *)
Slot == first + ((at - 1) \div cfg.parallel) * cfg.parallel + ((at - 1) % cfg.parallel) + 1

(* One tree of update_round: moved back into the model, rewritten.         *)
UpdateTree ==
  /\ pc = "update"
  /\ Slot \in DOMAIN trees_to_update
  /\ LET gid == (at - 1) \div cfg.parallel
     IN \E form \in {trees_to_update[Slot].form, "modified"} :
          LET tree == [trees_to_update[Slot] EXCEPT !.form = form]
          IN /\ train_cache' = Plus(train_cache, Scalar(tree, gid, <<>>, dtrain), 1)
             /\ PushTree(tree, gid, <<>>)
  /\ trees_to_update' = [trees_to_update EXCEPT ![Slot].id = 0, ![Slot].form = "taken"]
  /\ NextTurn("update")
  /\ UNCHANGED <<cfg, base, cuts, dtrain, iter, updates, dropped, configured, binned, device,
                 gpair, first, fresh, evaluation>>

(* The base has no more rounds: update_round stops where it is.            *)
UpdateNothing ==
  /\ pc = "update"
  /\ Slot \notin DOMAIN trees_to_update
  /\ pc' = "rescale"
  /\ UNCHANGED <<cfg, base, cuts, dtrain, iter, updates, model, trees_to_update, dropped,
                 configured, binned, train_cache, device, gpair, first, at, fresh,
                 evaluation>>

(* A mutated form: the dropped trees come back as heavy as they went. *)
Rescaled_OldWeight(t) == tree_weight[t]

(* The weight a dropped tree takes.                                        *)
Rescaled(t) == Append(tree_weight[t], "drop")

(* GBTree::rescale_dropped *)
RescaleDropped ==
  /\ pc = "rescale"
  /\ tree_weight' = [t \in AllTrees |-> IF t \in dropped THEN Append(tree_weight[t], "drop")
                                                         ELSE tree_weight[t]]
  /\ train_cache' = Plus(train_cache,
       UNION {Scalar(trees[t], tree_info[t], Rescaled(t), dtrain) : t \in dropped}, 1)
  /\ dropped' = {}
  /\ pc' = EndOfRound
  /\ UNCHANGED <<cfg, base, cuts, dtrain, iter, updates, trees, tree_info, trees_to_update,
                 configured, binned, device, gpair, first, at, fresh, evaluation>>

-----------------------------------------------------------------------------
(* After the round. *)

(* A mutated form: the host's margins are scored as they are. *)
EvalTrain_NoSync ==
  /\ scored' = train_cache
  /\ UNCHANGED <<train_cache, device>>

(* Learner::eval_train: the device scores its own margins when rmse is all *)
(* that is asked and they are ahead; otherwise the host's are brought up   *)
(* to date first.                                                          *)
EvalTrain ==
  IF cfg.rmse /\ device.host_stale
  THEN scored' = device.preds /\ UNCHANGED <<train_cache, device>>
  ELSE Sync /\ scored' = train_cache'

Improves(score) ==
  ~stopper.started \/ (score # NaN /\ stopper.best_score # NaN /\ score > stopper.best_score)

(* A mutated form: the count of rounds without improvement is never reset. *)
Stopper_NoReset(score) ==
  IF Improves(score)
  THEN [stopper EXCEPT !.best_score = score, !.best_iteration = iter, !.started = TRUE]
  ELSE [stopper EXCEPT !.since_improvement = @ + 1]

(* EarlyStopping::update *)
Stopper(score) ==
  IF Improves(score)
  THEN [best_score |-> score, best_iteration |-> iter, since_improvement |-> 0,
        started |-> TRUE]
  ELSE [stopper EXCEPT !.since_improvement = @ + 1]

(* The rest of a turn of train_from's loop.                                *)
Score ==
  /\ pc = "score"
  /\ IF cfg.eval_train THEN EvalTrain ELSE UNCHANGED <<scored, train_cache, device>>
  /\ \E score \in Scores :
       IF cfg.stop > 0
       THEN history' = Append(history, score) /\ stopper' = Stopper(score)
       ELSE UNCHANGED <<history, stopper>>
  /\ iter' = iter + 1
  /\ pc' = IF \/ cfg.stop > 0 /\ stopper'.since_improvement >= cfg.stop
              \/ iter' = cfg.rounds
           THEN "finish" ELSE "round"
  /\ UNCHANGED <<cfg, base, cuts, dtrain, updates, model, trees_to_update, dropped, configured,
                 binned, gpair, first, at, fresh>>

(* The end of train_from.                                                  *)
Finish ==
  /\ pc = "finish"
  /\ Sync
  /\ pc' = "done"
  /\ UNCHANGED <<cfg, base, cuts, dtrain, iter, updates, model, trees_to_update, dropped,
                 configured, binned, gpair, first, at, fresh, evaluation>>

(* Booster::update: one more round, on the matrix the caller gives.        *)
Update ==
  /\ pc = "done"
  /\ updates < MaxUpdates
  /\ updates' = updates + 1
  /\ dtrain' \in Matrices
  /\ pc' = "round"
  /\ UNCHANGED <<cfg, base, cuts, iter, model, trees_to_update, dropped, configured, binned,
                 train_cache, device, gpair, first, at, fresh, evaluation>>

Finished == pc = "done" /\ updates = MaxUpdates /\ UNCHANGED vars

Next == \/ Configure \/ PreBoost \/ DeviceRound \/ GetGradient \/ DoBoost \/ GrowTree
        \/ GrowVectorTree \/ UpdateTree \/ UpdateNothing \/ RescaleDropped \/ Score
        \/ Finish \/ Update \/ Finished

Spec == Init /\ [][Next]_vars

-----------------------------------------------------------------------------
(* Properties. *)

BetweenRounds == pc \in {"score", "finish", "done"} \/ (pc = "round" /\ configured)

(* After every round, whatever was dropped, rescaled, pruned, refreshed,   *)
(* moved to the device or brought back, the margins that are current hold  *)
(* each tree of the model once, in its final form and at its final weight: *)
(* updating them in place amounts to predicting again.                     *)
CacheIsPrediction ==
  BetweenRounds =>
    PredictMargin(AllTrees, binned)
      = IF device.host_stale THEN device.preds ELSE train_cache

(* A round fits the residuals of the ensemble it leaves: the gradients are *)
(* those of its matrix, of the labels and of the prediction of the trees   *)
(* it has not dropped; and the bins of an approx tree are sketched by the  *)
(* hessians of that very round and of its own group.                       *)
FitsResiduals ==
  /\ pc = "boost" =>
       gpair = [margins |-> PredictMargin(AllTrees \ dropped, dtrain), labels |-> dtrain]
  /\ pc = "score" /\ cfg.plain =>
       gpair = [margins |-> PredictMargin(AllTrees \ {Len(trees)}, dtrain), labels |-> dtrain]
  /\ cfg.approx /\ pc \in {"grow", "rescale"} /\ at > 1 =>
       cuts = <<Hessians((at - 2) \div cfg.parallel)>>

(* The training metric is that of the model as it stands.                  *)
ScoresCurrentModel ==
  cfg.eval_train /\ iter > 0 /\ (pc = "finish" \/ (pc = "round" /\ updates = 0))
    => scored = PredictMargin(AllTrees, dtrain)

RoundsRun ==
  IF cfg.update THEN Smaller(base.rounds, iter + updates) ELSE base.rounds + iter + updates

(* "a round grows many trees but still counts once": boosted_rounds, which *)
(* seeds rounds and bounds iteration ranges, counts the rounds run.        *)
RoundsCounted == pc = "done" => NumRounds = RoundsRun

(* Where each output has trees of its own, the rounds are counted and the  *)
(* slice of the model an iteration range names is the trees those rounds   *)
(* grew, all of them and no other.                                         *)
SlicesAreRounds ==
  pc = "done" /\ ~(cfg.multi /\ cfg.groups > 1) =>
    /\ RoundsCounted
    /\ \A r \in 1 .. RoundsRun :
         FromRounds(r - 1, r) = {t \in AllTrees : trees[t].round = r}

(* An updated model is the first rounds of its base, each tree rewritten   *)
(* in its place and in its output group.                                   *)
UpdateInPlace ==
  cfg.update /\ configured =>
    \A t \in AllTrees : /\ t \in DOMAIN base.trees
                        /\ trees[t].id = base.trees[t].id
                        /\ tree_info[t] = base.tree_info[t]

(* Early stopping reports the first of the best rounds; a metric that is   *)
(* not a number never is, unless it came first.  Training goes on while    *)
(* that round is fewer than early_stopping_rounds away, and stops when it  *)
(* is that far.                                                            *)
StopsAtBest ==
  cfg.stop > 0 /\ history # <<>> =>
    LET b == stopper.best_iteration + 1
        since == Len(history) - b
    IN /\ b \in DOMAIN history /\ stopper.best_score = history[b]
       /\ IF history[1] = NaN THEN b = 1
          ELSE /\ history[b] # NaN
               /\ \A i \in DOMAIN history : history[i] <= history[b]
               /\ \A i \in 1 .. b - 1 : history[i] < history[b]
       /\ pc = "finish" => since = cfg.stop \/ Len(history) = cfg.rounds
       /\ pc = "round" /\ updates = 0 => since < cfg.stop
=============================================================================
