------------------------------ MODULE TreeModel ------------------------------
(***************************************************************************)
(* A tree once it is grown: the updaters that rewrite it (gbm/mod.rs,      *)
(* run_modifiers; tree/model.rs, prune; tree/refresh.rs) and what its      *)
(* splits contribute to a prediction (tree/model.rs, TreeSHAP and Saabas). *)
(*                                                                         *)
(* A tree grows as in SplitSearch until nothing splits, and is handed over.*)
(* The updaters see the matrix it was grown on or another one, as the      *)
(* rounds of process_type=update may.                                      *)
(***************************************************************************)
EXTENDS SplitSearch, Combinatorics

VARIABLES
  model,  \* the RegTree, none while it grows
  data,   \* the rows the updaters see
  at      \* the updater to run next

modelVars == <<p, rows, tree, model, data, at>>

Quotient(a, b) == Frac(a[1] * b[2], a[2] * b[1])
Half == <<1, 2>>
SumOver(S, Amount(_)) == FoldSet(LAMBDA x, s : Plus(Amount(x), s), Zero, S)

-----------------------------------------------------------------------------
(* A model's node keeps its split, its output, and the statistics of       *)
(* NodeStat: weight is base_weight, cover sum_hess, loss loss_chg.  A new  *)
(* leaf's weight is its output; only a split takes the learning rate out.  *)

IsLeaf(n) == n.left = 0

(* The RegTree that expand_node and expand_categorical have built.         *)
Handed(t) ==
  LET Parent(nid) == {q \in DOMAIN t : nid \in {t[q].left, t[q].right}}
      depth[nid \in DOMAIN t] ==
        IF Parent(nid) = {} THEN 0 ELSE 1 + depth[CHOOSE q \in Parent(nid) : TRUE]
      Node(nid) ==
        LET n == t[nid]
            out == Times(p.learning_rate, n.weight)
        IN [parent |-> IF Parent(nid) = {} THEN 0 ELSE CHOOSE q \in Parent(nid) : TRUE,
            left |-> n.left, right |-> n.right, split |-> n.best, depth |-> depth[nid],
            out |-> out, weight |-> IF IsLeaf(n) THEN out ELSE CalcWeight(n, n.stats),
            cover |-> n.stats.hess, loss |-> n.best.chg, deleted |-> FALSE]
  IN [nid \in DOMAIN t |-> Node(nid)]

(* next_node, for the bins x of a row.                                     *)
NextNode(n, x) ==
  LET e == n.split
      b == x[e.f + 1]
      bin == CutPtr(e.f) + b - 1
  IN IF (IF b = 0 THEN e.default_left
         ELSE IF e.is_cat THEN bin \notin e.bits
         ELSE bin <= FindSplitCondition(e.f, e.value))
     THEN n.left ELSE n.right

(* The nodes from nid to the leaf a row reaches.                           *)
PathFrom(m, x, nid) ==
  LET path[k \in DOMAIN m] == IF IsLeaf(m[k]) THEN <<k>> ELSE <<k>> \o path[NextNode(m[k], x)]
  IN path[nid]
LeafIndex(m, x) == Last(PathFrom(m, x, 1))

-----------------------------------------------------------------------------
(* prune.  A walk goes up from each leaf, by id, for as long as a parent   *)
(* has two leaves and is not worth its split.                              *)

NeedPrune(n, depth) ==
  Below(n.loss, <<p.min_split_loss, 1>>) \/ (p.max_depth # 0 /\ depth > p.max_depth)

Collapse(m, pid) ==
  [m EXCEPT ![m[pid].left].deleted = TRUE, ![m[pid].right].deleted = TRUE,
            ![pid].left = 0, ![pid].right = 0,
            ![pid].out = Times(p.learning_rate, m[pid].weight)]

Prunable(m, pid, depth) ==
  /\ pid # 0
  /\ IsLeaf(m[m[pid].left]) /\ IsLeaf(m[m[pid].right])
  /\ NeedPrune(m[pid], depth)

(* A mutated form: the walk ends at the first parent it collapses.         *)
TryPruneLeaf_Once(m, nid, depth) ==
  IF Prunable(m, m[nid].parent, depth) THEN Collapse(m, m[nid].parent) ELSE m

RECURSIVE TryPruneLeaf(_, _, _)
TryPruneLeaf(m, nid, depth) ==
  LET pid == m[nid].parent
  IN IF Prunable(m, pid, depth) THEN TryPruneLeaf(Collapse(m, pid), pid, depth - 1) ELSE m

Pruned(m) ==
  FoldLeft(LAMBDA t, nid : IF t[nid].deleted \/ ~IsLeaf(t[nid]) THEN t
                           ELSE TryPruneLeaf(t, nid, t[nid].depth),
           m, [nid \in DOMAIN m |-> nid])

-----------------------------------------------------------------------------
(* refresh: each row adds its gradients to the nodes it passes, and every  *)
(* slot is rewritten, the deleted ones too.  No box bounds a weight.       *)

RowBins(r) == p.kinds[data[r]].bin
RowGradient(r) == Stats(p.kinds[data[r]].gpair[1][1], p.kinds[data[r]].gpair[1][2])
UnboundedGain(s) ==
  IF p.max_delta_step = 0 THEN ClosedFormGain(s) ELSE GainGivenWeight(s, UnboundedWeight(s))

(* A mutated form: a row adds to its leaf alone.                           *)
PassedSums_Leaves(m) ==
  [nid \in DOMAIN m |-> LET S == {r \in DOMAIN data : LeafIndex(m, RowBins(r)) = nid}
                        IN Total([r \in S |-> RowGradient(r)], S)]

PassedSums(m) ==
  LET path == [r \in DOMAIN data |-> ToSet(PathFrom(m, RowBins(r), 1))]
  IN [nid \in DOMAIN m |-> LET S == {r \in DOMAIN data : nid \in path[r]}
                           IN Total([r \in S |-> RowGradient(r)], S)]

Refreshed(m, sums) ==
  [nid \in DOMAIN m |->
     LET n == m[nid]
         weight == UnboundedWeight(sums[nid])
     IN [n EXCEPT !.weight = weight, !.cover = sums[nid].hess,
                  !.out = IF IsLeaf(n) /\ p.refresh_leaf
                          THEN Times(p.learning_rate, weight) ELSE @,
                  !.loss = IF IsLeaf(n) THEN @
                           ELSE Minus(Plus(UnboundedGain(sums[n.left]),
                                           UnboundedGain(sums[n.right])),
                                      UnboundedGain(sums[nid]))]]

-----------------------------------------------------------------------------
(* node_mean_values: what a node predicts of a row nothing is known of.    *)
MeanValues(m) ==
  LET mean[nid \in DOMAIN m] ==
        LET n == m[nid]
            l == m[n.left]
            r == m[n.right]
        IN IF IsLeaf(n) THEN n.out
           ELSE IF l.cover + r.cover > 0
                THEN Quotient(Plus(Scaled(l.cover, mean[n.left]), Scaled(r.cover, mean[n.right])),
                              <<l.cover + r.cover, 1>>)
                ELSE Times(Half, Plus(mean[n.left], mean[n.right]))
  IN mean

(* TreeSHAP's path: one element per feature split on, and the weight of    *)
(* the subsets of each size.  Element d + 1 is the code's path[d].         *)
ExtendPath(path, zero, one, f) ==
  LET d == Len(path)
      Old(k) == IF k = d THEN IF d = 0 THEN <<1, 1>> ELSE Zero ELSE path[k + 1].pweight
      New(k) == Plus(IF d = 0 THEN Old(0) ELSE Times(zero, Scaled(d - k, Old(k))),
                     IF k = 0 THEN Zero ELSE Times(one, Scaled(k, Old(k - 1))))
      Element(k) == IF k = d THEN [f |-> f, zero |-> zero, one |-> one, pweight |-> Zero]
                    ELSE path[k + 1]
  IN [j \in 1 .. d + 1 |->
        [Element(j - 1) EXCEPT !.pweight = Quotient(New(j - 1), <<d + 1, 1>>)]]

(* The weights of a path without element i, from the last one down: of a   *)
(* path that took the feature's value, and of one that did not.            *)
UnwoundWeights(path, i) ==
  LET d == Len(path) - 1
      one == path[i].one
      zero == path[i].zero
      Step(acc, k) ==
        IF one # Zero
        THEN LET w == Quotient(Scaled(d + 1, acc.next), Scaled(k, one))
             IN [next |-> Minus(path[k].pweight,
                                Quotient(Times(w, Scaled(d + 1 - k, zero)), <<d + 1, 1>>)),
                 weights |-> <<w>> \o acc.weights]
        ELSE [acc EXCEPT !.weights =
                <<IF zero # Zero
                  THEN Quotient(Scaled(d + 1, path[k].pweight), Scaled(d + 1 - k, zero))
                  ELSE path[k].pweight>> \o @]
  IN FoldLeft(Step, [next |-> path[d + 1].pweight, weights |-> <<>>],
              Reverse([k \in 1 .. d |-> k])).weights

(* unwind_path: the elements past i move down, the weights do not.         *)
UnwindPath(path, i) ==
  LET weights == UnwoundWeights(path, i)
  IN [j \in 1 .. Len(path) - 1 |-> [path[IF j < i THEN j ELSE j + 1] EXCEPT !.pweight = weights[j]]]

(* unwound_path_sum: nothing where neither fraction is above zero.         *)
UnwoundPathSum(path, i) ==
  IF path[i].one = Zero /\ path[i].zero = Zero THEN Zero
  ELSE FoldLeft(LAMBDA s, w : Plus(s, w), Zero, UnwoundWeights(path, i))

(* A mutated form: the earlier element of a feature split on again stays.  *)
Descend_Repeats(m, x, path, nid, child) ==
  LET n == m[nid]
      zero == IF n.cover > 0 THEN Frac(m[child].cover, n.cover) ELSE Half
  IN ExtendPath(path, zero, IF child = NextNode(n, x) THEN <<1, 1>> ELSE Zero, n.split.f)

(* One level of tree_shap: the path at a child, a feature split on before  *)
(* folded into the new element.                                            *)
Descend(m, x, path, nid, child) ==
  LET n == m[nid]
      seen == {i \in 2 .. Len(path) : path[i].f = n.split.f}
      before == IF seen = {} THEN [zero |-> <<1, 1>>, one |-> <<1, 1>>]
                ELSE path[CHOOSE i \in seen : TRUE]
      zero == IF n.cover > 0 THEN Frac(m[child].cover, n.cover) ELSE Half
  IN ExtendPath(IF seen = {} THEN path ELSE UnwindPath(path, CHOOSE i \in seen : TRUE),
                Times(zero, before.zero),
                IF child = NextNode(n, x) THEN before.one ELSE Zero, n.split.f)

(* What a leaf's path adds to each feature, and the sum over the leaves.   *)
LeafShares(n, path) ==
  [f \in Features |->
     SumOver({i \in 2 .. Len(path) : path[i].f = f},
             LAMBDA i : Times(Times(UnwoundPathSum(path, i), Minus(path[i].one, path[i].zero)),
                              n.out))]

RECURSIVE TreeShap(_, _, _, _)
TreeShap(m, x, nid, path) ==
  LET Side(child) == TreeShap(m, x, child, Descend(m, x, path, nid, child))
      left == Side(m[nid].left)
      right == Side(m[nid].right)
  IN IF IsLeaf(m[nid]) THEN LeafShares(m[nid], path)
     ELSE [f \in Features |-> Plus(left[f], right[f])]

ShapContributions(m, x) ==
  IF IsLeaf(m[1]) THEN [f \in Features |-> Zero]
  ELSE TreeShap(m, x, 1, ExtendPath(<<>>, <<1, 1>>, <<1, 1>>, -1))

(* Saabas: a split is credited with the change of the mean.                *)
SaabasContribution(m, x, f) ==
  LET path == PathFrom(m, x, 1)
      mean == MeanValues(m)
  IN SumOver({i \in 1 .. Len(path) - 1 : m[path[i]].split.f = f},
             LAMBDA i : Minus(mean[path[i + 1]], mean[path[i]]))

-----------------------------------------------------------------------------
(* The hand-over, once nothing splits, and the updaters in their order.    *)

HandOver ==
  /\ tree # <<>> /\ p.updaters # <<>>
  /\ \A nid \in DOMAIN tree : tree[nid].left # 0 \/ ~Found(tree[nid].best)
  /\ \E m \in {Handed(tree)} : model' = m
  /\ data' \in {rows, [r \in DOMAIN rows |-> rows[1]]}
  /\ tree' = <<>>
  /\ at' = 1
  /\ UNCHANGED <<p, rows>>

Runs(updater) ==
  /\ at \in DOMAIN p.updaters
  /\ p.updaters[at] = updater
  /\ at' = at + 1
  /\ UNCHANGED <<p, rows, tree, data>>

Prune == Runs("prune") /\ \E m \in {Pruned(model)} : model' = m

Refresh == Runs("refresh") /\ \E m \in {Refreshed(model, PassedSums(model))} : model' = m

ModelInit == Init /\ model = <<>> /\ data = rows /\ at = 0

ModelNext ==
  \/ at = 0 /\ Next /\ UNCHANGED <<model, data, at>>
  \/ HandOver
  \/ Prune
  \/ Refresh

ModelSpec == ModelInit /\ [][ModelNext]_modelVars

-----------------------------------------------------------------------------
(* Properties. *)

Live(m) == {nid \in DOMAIN m : ~m[nid].deleted}

(* A walk from every leaf takes out just the splits that are not worth     *)
(* keeping and have none below them that are, whatever order the walks are *)
(* in: a worthless split above a good one stays, one that only worthless   *)
(* ones stood above goes with them, and no other node changes.             *)
PruneKeepsWorthy ==
  [][Prune =>
       LET worthy[nid \in DOMAIN model] ==
             /\ ~IsLeaf(model[nid])
             /\ \/ ~NeedPrune(model[nid], model[nid].depth + 1)
                \/ worthy[model[nid].left]
                \/ worthy[model[nid].right]
           kept == {nid \in Live(model) : model[nid].parent = 0 \/ worthy[model[nid].parent]}
       IN /\ Live(model') = kept
          /\ \A nid \in kept :
               model'[nid] = IF worthy[nid] \/ IsLeaf(model[nid]) THEN model[nid]
                             ELSE [model[nid] EXCEPT !.left = 0, !.right = 0,
                                     !.out = Times(p.learning_rate, model[nid].weight)]]_modelVars

(* On the matrix a tree was grown from, before or after a prune, dropping  *)
(* the rows down the tree finds again what the histograms said of every    *)
(* node: cover, gain and output.                                           *)
RefreshFindsTheSame ==
  [][(Refresh /\ data = rows /\ ~HasConstraint) =>
       \A nid \in Live(model) :
         /\ model'[nid].out = model[nid].out
         /\ model'[nid].cover = model[nid].cover
         /\ ~IsLeaf(model[nid]) => /\ model'[nid].loss = model[nid].loss
                                   /\ model'[nid].weight = model[nid].weight]_modelVars

(* What a tree says of a row of which only the features in S are known.    *)
Expected(m, x, S) ==
  LET v[nid \in DOMAIN m] ==
        LET n == m[nid]
            Share(child) == IF n.cover > 0 THEN Frac(m[child].cover, n.cover) ELSE Half
        IN IF IsLeaf(n) THEN n.out
           ELSE IF n.split.f \in S THEN v[NextNode(n, x)]
           ELSE Plus(Times(Share(n.left), v[n.left]), Times(Share(n.right), v[n.right]))
  IN v[1]

(* A contribution of TreeSHAP is the Shapley value of its feature: what    *)
(* knowing it adds to the prediction, on average over the orders in which  *)
(* the features become known.  Those of a row, of either kind, add up to   *)
(* its leaf's value less the tree's mean.                                  *)
ContributionsAreShapley ==
  model # <<>> =>
    \A k \in DOMAIN p.kinds : \A x \in {p.kinds[k].bin} :
      LET known == [S \in SUBSET Features |-> Expected(model, x, S)]
          Shapley(f) ==
            SumOver(SUBSET (Features \ {f}),
                    LAMBDA S : Times(Frac(1, p.features * choose(p.features - 1, Cardinality(S))),
                                     Minus(known[S \cup {f}], known[S])))
          shap == ShapContributions(model, x)
          total == Minus(model[LeafIndex(model, x)].out, MeanValues(model)[1])
      IN /\ \A f \in Features : shap[f] = Shapley(f)
         /\ total = SumOver(Features, LAMBDA f : shap[f])
         /\ total = SumOver(Features, LAMBDA f : SaabasContribution(model, x, f))

=============================================================================
