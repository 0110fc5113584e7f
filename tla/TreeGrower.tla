----------------------------- MODULE TreeGrower ------------------------------
(***************************************************************************)
(* The CPU `hist` tree grower, HistGrower of src/tree/hist.rs: the         *)
(* expansion queue and its two policies, the row sets of the nodes, and    *)
(* the life of the gradient histograms (allocated, built from rows,        *)
(* subtracted, released, reused) through one batch after another and one   *)
(* tree after another.                                                     *)
(*                                                                         *)
(* A histogram is linear in the gradients of its rows.  It is modelled by  *)
(* how many times it counts each row, so that a sum over the wrong rows, a *)
(* stale buffer and a row counted twice can all be told apart.  A gain is  *)
(* a natural number, 0 standing for one that is at most RT_EPS.  Which     *)
(* split is best is data: the evaluation picks any gain and any condition  *)
(* that separates the rows the histogram counts.                           *)
(*                                                                         *)
(* The driver runs its batch in phases.  Inside a phase the work items of  *)
(* `partition`, `build` and `subtract` are rayon tasks and happen in any   *)
(* order; the other phases are loops in batch order.                       *)
(***************************************************************************)
EXTENDS Integers, FiniteSets, Sequences, Subsequences

CONSTANTS Rows,        \* rows of the training matrix
          Params,      \* the TrainParam settings considered; batch_size is
                       \* MAX_NODE_BATCH_SIZE, a constant of the code
          MaxGain,     \* gains are 0 .. MaxGain
          MaxCached,   \* max_cached_hist_node
          MaxTrees     \* bound on the trees grown one after another

Policies == {"DepthWise", "LossGuide"}
Phases == {"root", "pop", "fill", "apply", "partition", "alloc_build", "build",
           "alloc_subtract", "subtract", "evaluate", "release", "push", "done", "reset"}

ASSUME GrowerAssumption ==
  /\ Rows # {} /\ IsFiniteSet(Rows)
  /\ Params \subseteq [grow_policy : Policies, max_depth : Nat,
                       max_leaves : Nat, min_split_loss : Nat,
                       batch_size : Nat \ {0}]
  /\ \A p \in Params : p.max_depth # 0 \/ p.max_leaves # 0
  /\ MaxGain \in Nat
  /\ MaxCached \in Nat \ {0}
  /\ MaxTrees \in Nat \ {0}

VARIABLES
  pc,           \* phase of the driver
  param,        \* the settings of this training run
  trees,        \* trees started so far
  tree,         \* node id -> [parent, left, right, depth, rule]
  segments,     \* live node id -> its rows
  hist,         \* node id -> contents of the buffer it owns
  free,         \* contents of the buffers kept for reuse, a stack
  queue,        \* candidates waiting, in order of arrival
  level,        \* depth of the batch being filled
  expand_set,   \* the candidates of the current batch
  num_leaves,   \* leaves the tree has once the batch is applied
  valid,        \* valid_candidates: those whose children get histograms
  plan,         \* [parent, built, subtracted] per valid candidate
  best,         \* candidates found for the children
  at,           \* position of the sequential loop of a phase
  todo          \* work items of a parallel phase not yet done

vars == <<pc, param, trees, tree, segments, hist, free, queue, level, expand_set,
          num_leaves, valid, plan, best, at, todo>>

-----------------------------------------------------------------------------
(* Helpers. *)

None == -1
Put(f, x, v) == [y \in DOMAIN f \cup {x} |-> IF y = x THEN v ELSE f[y]]
Drop(f, x) == [y \in DOMAIN f \ {x} |-> f[y]]

Counts(rows) == [r \in Rows |-> IF r \in rows THEN 1 ELSE 0]
Zero == [r \in Rows |-> 0]
Difference(p, b) == [r \in Rows |-> p[r] - b[r]]

Leaf(parent, depth) ==
  [parent |-> parent, left |-> None, right |-> None, depth |-> depth, rule |-> {}]
Leaves == {n \in DOMAIN tree : tree[n].left = None}
NumNodes == Cardinality(DOMAIN tree)

(* A mutated form: a candidate is not checked against max_leaves. *)
IsValid_NoLeafLimit(e, leaves) ==
  /\ e.gain > 0
  /\ e.gain >= param.min_split_loss
  /\ param.max_depth > 0 => e.depth # param.max_depth

(* ExpandEntry::is_valid.  Both children of a found split have a positive  *)
(* Hessian sum (is_valid_split), so that test never rejects here.          *)
IsValid(e, leaves) ==
  /\ e.gain > 0
  /\ e.gain >= param.min_split_loss
  /\ param.max_depth > 0 => e.depth # param.max_depth
  /\ param.max_leaves > 0 => leaves # param.max_leaves

(* HistGrower::is_child_valid *)
IsChildValid(e, leaves) ==
  /\ param.max_depth > 0 => e.depth + 1 < param.max_depth
  /\ param.max_leaves > 0 => leaves < param.max_leaves

(* LossGuideEntry::cmp: the larger gain first, then the smaller node id. *)
Before(d, e) == d.gain > e.gain \/ (d.gain = e.gain /\ d.nid <= e.nid)

(* A mutated form: a side without rows is not refused. *)
Splits_OneSided(h) ==
  LET counted == {r \in Rows : h[r] # 0}
  IN {[gain |-> 0, rule |-> {}]}
     \cup [gain : 1 .. MaxGain, rule : SUBSET counted]

(* What evaluate_splits may answer for a histogram: no split, or a gain    *)
(* and a condition that sends some of the counted rows each way.           *)
Splits(h) ==
  LET counted == {r \in Rows : h[r] # 0}
  IN {[gain |-> 0, rule |-> {}]}
     \cup [gain : 1 .. MaxGain, rule : (SUBSET counted) \ {{}, counted}]

Entry(n, s) ==
  [nid |-> n, depth |-> tree[n].depth, gain |-> s.gain, rule |-> s.rule]

(* HistCollection::allocate: what the free list gives node n, contents and *)
(* all; a node that owns a buffer keeps it.                                *)
Allocate(n) ==
  IF n \in DOMAIN hist
  THEN UNCHANGED <<hist, free>>
  ELSE IF free = <<>>
  THEN hist' = Put(hist, n, Zero) /\ UNCHANGED free
  ELSE /\ hist' = Put(hist, n, free[Len(free)])
       /\ free' = SubSeq(free, 1, Len(free) - 1)

(* A mutated form: the free list is asked one buffer too late. *)
Release_OffByOne(n) ==
  /\ hist' = Drop(hist, n)
  /\ free' = IF n \in DOMAIN hist /\ Len(free) <= MaxCached
             THEN Append(free, hist[n]) ELSE free

(* HistCollection::release: the buffer goes to the free list if it fits.   *)
Release(n) ==
  /\ hist' = Drop(hist, n)
  /\ free' = IF n \in DOMAIN hist /\ Len(free) < MaxCached
             THEN Append(free, hist[n]) ELSE free

-----------------------------------------------------------------------------
(* Growing the root. *)

RootTree == [n \in {0} |-> Leaf(None, 0)]
RootSegments == [n \in {0} |-> Rows]

Init ==
  /\ pc = "root"
  /\ param \in Params
  /\ trees = 1
  /\ tree = RootTree
  /\ segments = RootSegments
  /\ hist = [n \in {} |-> Zero]
  /\ free = <<>>
  /\ queue = <<>> /\ expand_set = <<>>
  /\ valid = <<>> /\ plan = <<>> /\ best = <<>>
  /\ num_leaves = 1 /\ level = 0 /\ at = 1 /\ todo = {}

(* The head of grow_inner and init_root: the root's histogram is built over *)
(* whatever the buffer held, its split evaluated and queued if it gains.    *)
InitRoot ==
  /\ pc = "root"
  /\ IF free = <<>> THEN UNCHANGED free
                    ELSE free' = SubSeq(free, 1, Len(free) - 1)
  /\ hist' = Put(hist, 0, Counts(segments[0]))
  /\ \E s \in Splits(hist'[0]) :
       queue' = IF s.gain > 0 THEN <<Entry(0, s)>> ELSE <<>>
  /\ num_leaves' = 1
  /\ pc' = "pop"
  /\ UNCHANGED <<param, trees, tree, segments, level, expand_set, valid, plan,
                 best, at, todo>>

-----------------------------------------------------------------------------
(* ExpandQueue::pop_batch. *)

(* A batch with no candidate in it ends the growth of the tree, whatever   *)
(* the queue still holds.                                                  *)
Popped(batch) ==
  /\ pc' = IF batch = <<>> THEN "done" ELSE "apply"
  /\ at' = 1

PopNothing ==
  /\ pc = "pop"
  /\ queue = <<>>
  /\ expand_set' = <<>>
  /\ Popped(<<>>)
  /\ UNCHANGED <<param, trees, tree, segments, hist, free, queue, level,
                 num_leaves, valid, plan, best, todo>>

(* Loss-guide: the best candidate alone, dropped if it is not valid.       *)
PopBest ==
  /\ pc = "pop"
  /\ param.grow_policy = "LossGuide"
  /\ \E i \in DOMAIN queue :
       /\ \A j \in DOMAIN queue : Before(queue[i], queue[j])
       /\ queue' = SubSeq(queue, 1, i - 1) \o SubSeq(queue, i + 1, Len(queue))
       /\ IF IsValid(queue[i], num_leaves)
          THEN /\ expand_set' = <<queue[i]>>
               /\ num_leaves' = num_leaves + 1
          ELSE /\ expand_set' = <<>>
               /\ UNCHANGED num_leaves
  /\ Popped(expand_set')
  /\ UNCHANGED <<param, trees, tree, segments, hist, free, level, valid, plan,
                 best, todo>>

(* Depth-wise: the candidates of the front's depth, up to the batch cap,   *)
(* one turn of the loop at a time.                                         *)
PopLevel ==
  /\ pc = "pop"
  /\ param.grow_policy = "DepthWise"
  /\ queue # <<>>
  /\ level' = queue[1].depth
  /\ expand_set' = <<>>
  /\ pc' = "fill"
  /\ UNCHANGED <<param, trees, tree, segments, hist, free, queue, num_leaves,
                 valid, plan, best, at, todo>>

(* A mutated form: the first candidate that is refused ends the batch.     *)
MorePop_UntilRefused ==
  /\ Len(expand_set) < param.batch_size
  /\ queue # <<>>
  /\ queue[1].depth = level
  /\ IsValid(queue[1], num_leaves)

(* The cap counts the candidates taken, not those that were refused.       *)
MorePop ==
  /\ Len(expand_set) < param.batch_size
  /\ queue # <<>>
  /\ queue[1].depth = level

(* A mutated form: an invalid candidate is looked at and left in front.    *)
PopFront_NoPop ==
  /\ pc = "fill"
  /\ MorePop
  /\ IF IsValid(queue[1], num_leaves)
     THEN /\ expand_set' = Append(expand_set, queue[1])
          /\ num_leaves' = num_leaves + 1
          /\ queue' = Tail(queue)
     ELSE UNCHANGED <<expand_set, num_leaves, queue>>
  /\ UNCHANGED <<pc, param, trees, tree, segments, hist, free, level, valid,
                 plan, best, at, todo>>

PopFront ==
  /\ pc = "fill"
  /\ MorePop
  /\ queue' = Tail(queue)
  /\ IF IsValid(queue[1], num_leaves)
     THEN /\ expand_set' = Append(expand_set, queue[1])
          /\ num_leaves' = num_leaves + 1
     ELSE UNCHANGED <<expand_set, num_leaves>>
  /\ UNCHANGED <<pc, param, trees, tree, segments, hist, free, level, valid,
                 plan, best, at, todo>>

PopEnd ==
  /\ pc = "fill"
  /\ ~MorePop
  /\ Popped(expand_set)
  /\ UNCHANGED <<param, trees, tree, segments, hist, free, queue, level,
                 expand_set, num_leaves, valid, plan, best, todo>>

-----------------------------------------------------------------------------
(* One batch. *)

(* The loop over the candidates: apply_split appends the two children and  *)
(* is_child_valid, asked with the leaf count of the whole batch, decides   *)
(* whether they will be looked at.                                         *)
ApplySplit ==
  /\ pc = "apply"
  /\ LET e == expand_set[at]
         l == NumNodes
         last == at = Len(expand_set)
     IN /\ tree' = [n \in DOMAIN tree \cup {l, l + 1} |->
                       IF n \in {l, l + 1} THEN Leaf(e.nid, tree[e.nid].depth + 1)
                       ELSE IF n = e.nid
                       THEN [tree[n] EXCEPT !.left = l, !.right = l + 1, !.rule = e.rule]
                       ELSE tree[n]]
        /\ valid' = IF IsChildValid(e, num_leaves) THEN Append(valid, e) ELSE valid
        /\ at' = IF last THEN 1 ELSE at + 1
        /\ todo' = IF last THEN DOMAIN expand_set ELSE {}
        /\ pc' = IF last THEN "partition" ELSE pc
  /\ UNCHANGED <<param, trees, segments, hist, free, queue, level, expand_set,
                 num_leaves, plan, best>>

(* A mutated form: the rows that meet the condition go right.              *)
PartitionTask_Swapped(i) ==
  LET n == expand_set[i].nid
      rows == segments[n]
  IN segments' = Put(Put(Drop(segments, n), tree[n].left, rows \ tree[n].rule),
                     tree[n].right, rows \cap tree[n].rule)

(* One task of split_all: the rows of a node are dealt to its children.    *)
PartitionTask(i) ==
  LET n == expand_set[i].nid
      rows == segments[n]
  IN segments' = Put(Put(Drop(segments, n), tree[n].left, rows \cap tree[n].rule),
                     tree[n].right, rows \ tree[n].rule)

(* The end of a parallel phase: all its tasks have joined.                 *)
Join(i, next) ==
  /\ todo' = todo \ {i}
  /\ pc' = IF todo' = {} THEN next ELSE pc

SplitAll ==
  /\ pc = "partition"
  /\ \E i \in todo :
       /\ PartitionTask(i)
       /\ Join(i, IF valid = <<>> THEN "release" ELSE "alloc_build")
  /\ UNCHANGED <<param, trees, tree, hist, free, queue, level, expand_set,
                 num_leaves, valid, plan, best, at>>

(* build_children_hists: the child with the smaller Hessian sum is built.  *)
(* The Hessian sums are data, so either child may be the smaller one.      *)
AllocBuild ==
  /\ pc = "alloc_build"
  /\ LET n == valid[at].nid
         last == at = Len(valid)
     IN /\ \E b \in {tree[n].left, tree[n].right} :
             /\ Allocate(b)
             /\ plan' = Append(plan,
                  [parent |-> n, built |-> b,
                   subtracted |-> IF b = tree[n].left THEN tree[n].right ELSE tree[n].left])
        /\ at' = IF last THEN 1 ELSE at + 1
        /\ todo' = IF last THEN DOMAIN valid ELSE {}
        /\ pc' = IF last THEN "build" ELSE pc
  /\ UNCHANGED <<param, trees, tree, segments, queue, level, expand_set,
                 num_leaves, valid, best>>

(* A mutated form: the buffer is accumulated into without being zeroed.    *)
BuildTask_NoFill(i) ==
  LET b == plan[i].built
      rows == Counts(segments[b])
  IN hist' = Put(hist, b, [r \in Rows |-> hist[b][r] + rows[r]])

(* One task of build_hists: zero the buffer, then add the node's rows.     *)
BuildTask(i) ==
  LET b == plan[i].built
  IN hist' = Put(hist, b, Counts(segments[b]))

BuildHists ==
  /\ pc = "build"
  /\ \E i \in todo : BuildTask(i) /\ Join(i, "alloc_subtract")
  /\ UNCHANGED <<param, trees, tree, segments, free, queue, level, expand_set,
                 num_leaves, valid, plan, best, at>>

AllocSubtract ==
  /\ pc = "alloc_subtract"
  /\ LET last == at = Len(plan)
     IN /\ Allocate(plan[at].subtracted)
        /\ at' = IF last THEN 1 ELSE at + 1
        /\ todo' = IF last THEN DOMAIN plan ELSE {}
        /\ pc' = IF last THEN "subtract" ELSE pc
  /\ UNCHANGED <<param, trees, tree, segments, queue, level, expand_set,
                 num_leaves, valid, plan, best>>

SubtractTask(i) ==
  hist' = Put(hist, plan[i].subtracted,
              Difference(hist[plan[i].parent], hist[plan[i].built]))

SubtractHists ==
  /\ pc = "subtract"
  /\ \E i \in todo : SubtractTask(i) /\ Join(i, "evaluate")
  /\ UNCHANGED <<param, trees, tree, segments, free, queue, level, expand_set,
                 num_leaves, valid, plan, best, at>>

(* feature_sets and evaluate_splits, the two children of a candidate at a  *)
(* time, left first.                                                       *)
EvaluateSplits ==
  /\ pc = "evaluate"
  /\ LET node == tree[valid[at].nid]
         last == at = Len(valid)
     IN /\ \E s \in Splits(hist[node.left]), t \in Splits(hist[node.right]) :
             best' = best \o <<Entry(node.left, s), Entry(node.right, t)>>
        /\ at' = IF last THEN 1 ELSE at + 1
        /\ pc' = IF last THEN "release" ELSE pc
  /\ UNCHANGED <<param, trees, tree, segments, hist, free, queue, level,
                 expand_set, num_leaves, valid, plan, todo>>

(* A mutated form: only the parents whose children were built are released. *)
ReleaseParents_ValidOnly ==
  /\ pc = "release"
  /\ LET last == at >= Len(valid)
     IN /\ IF valid = <<>> THEN UNCHANGED <<hist, free>> ELSE Release(valid[at].nid)
        /\ at' = IF last THEN 1 ELSE at + 1
        /\ pc' = IF last THEN "push" ELSE pc
  /\ UNCHANGED <<param, trees, tree, segments, queue, level, expand_set,
                 num_leaves, valid, plan, best, todo>>

ReleaseParents ==
  /\ pc = "release"
  /\ LET last == at = Len(expand_set)
     IN /\ Release(expand_set[at].nid)
        /\ at' = IF last THEN 1 ELSE at + 1
        /\ pc' = IF last THEN "push" ELSE pc
  /\ UNCHANGED <<param, trees, tree, segments, queue, level, expand_set,
                 num_leaves, valid, plan, best, todo>>

(* A mutated form: the new candidates go to the front of the queue.        *)
Push_Front ==
  /\ pc = "push"
  /\ at <= Len(best)
  /\ queue' = IF best[at].gain > 0 THEN <<best[at]>> \o queue ELSE queue
  /\ at' = at + 1
  /\ UNCHANGED <<pc, param, trees, tree, segments, hist, free, level, expand_set,
                 num_leaves, valid, plan, best, todo>>

(* The children that gain join the queue.                                  *)
Push ==
  /\ pc = "push"
  /\ at <= Len(best)
  /\ queue' = IF best[at].gain > 0 THEN Append(queue, best[at]) ELSE queue
  /\ at' = at + 1
  /\ UNCHANGED <<pc, param, trees, tree, segments, hist, free, level, expand_set,
                 num_leaves, valid, plan, best, todo>>

PushEnd ==
  /\ pc = "push"
  /\ at > Len(best)
  /\ valid' = <<>> /\ plan' = <<>> /\ best' = <<>> /\ expand_set' = <<>>
  /\ at' = 1
  /\ pc' = "pop"
  /\ UNCHANGED <<param, trees, tree, segments, hist, free, queue, level,
                 num_leaves, todo>>

-----------------------------------------------------------------------------
(* Between trees: HistGrower::reset keeps the allocations.                 *)

NextTree ==
  /\ pc = "done"
  /\ trees < MaxTrees
  /\ trees' = trees + 1
  /\ tree' = RootTree
  /\ segments' = RootSegments
  /\ queue' = <<>>
  /\ pc' = "reset"
  /\ UNCHANGED <<param, hist, free, level, expand_set, num_leaves, valid, plan,
                 best, at, todo>>

(* HistCollection::clear, a buffer at a time in node order.                *)
ClearHist ==
  /\ pc = "reset"
  /\ \E n \in DOMAIN hist :
       /\ \A m \in DOMAIN hist : n <= m
       /\ Release(n)
  /\ UNCHANGED <<pc, param, trees, tree, segments, queue, level, expand_set,
                 num_leaves, valid, plan, best, at, todo>>

ResetDone ==
  /\ pc = "reset"
  /\ DOMAIN hist = {}
  /\ pc' = "root"
  /\ UNCHANGED <<param, trees, tree, segments, hist, free, queue, level,
                 expand_set, num_leaves, valid, plan, best, at, todo>>

Finished == pc = "done" /\ trees = MaxTrees /\ UNCHANGED vars

Grow == \/ InitRoot \/ PopNothing \/ PopBest \/ PopLevel \/ PopFront \/ PopEnd
        \/ ApplySplit \/ SplitAll \/ AllocBuild \/ BuildHists \/ AllocSubtract
        \/ SubtractHists \/ EvaluateSplits \/ ReleaseParents \/ Push
        \/ PushEnd \/ NextTree \/ ClearHist \/ ResetDone
Next == Grow \/ Finished

(* The driver is a loop and rayon runs every task it was given, so growth  *)
(* goes on as long as it can.                                              *)
Spec == Init /\ [][Next]_vars /\ WF_vars(Grow)

-----------------------------------------------------------------------------
(* Properties. *)

Entries == [nid : Nat, depth : Nat, gain : 0 .. MaxGain, rule : SUBSET Rows]

TypeOK ==
  /\ pc \in Phases
  /\ param \in Params
  /\ trees \in 1 .. MaxTrees
  /\ \A n \in DOMAIN tree :
       tree[n] \in [parent : {None} \cup Nat, left : {None} \cup Nat,
                    right : {None} \cup Nat, depth : Nat, rule : SUBSET Rows]
  /\ NumNodes \in Nat \ {0} /\ DOMAIN tree = 0 .. NumNodes - 1
  /\ DOMAIN segments \subseteq DOMAIN tree
  /\ \A n \in DOMAIN segments : segments[n] \in SUBSET Rows
  /\ DOMAIN hist \subseteq Nat
  /\ \A n \in DOMAIN hist : hist[n] \in [Rows -> Int]
  /\ free \in Seq([Rows -> Int]) /\ Len(free) <= MaxCached
  /\ queue \in Seq(Entries) /\ expand_set \in Seq(Entries)
  /\ valid \in Seq(Entries) /\ best \in Seq(Entries)
  /\ plan \in Seq([parent : Nat, built : Nat, subtracted : Nat])
  /\ num_leaves \in Nat \ {0} /\ level \in Nat /\ at \in Nat \ {0}
  /\ todo \subseteq Nat

(* Whatever buffer it was given and however it was filled, the histogram   *)
(* of a node that may still be expanded counts each of its rows once: this *)
(* is what its children will be subtracted from.                           *)
HistMatchesRows ==
  LET waiting == Elems(queue) \cup Elems(best)
                 \cup (IF pc \in {"fill", "apply"} THEN Elems(expand_set) ELSE {})
  IN \A e \in waiting : e.nid \in DOMAIN hist \cap DOMAIN segments
                        /\ hist[e.nid] = Counts(segments[e.nid])

(* Where a row ends when the finished tree is traversed.                   *)
Routed ==
  LET rows[n \in DOMAIN tree] ==
        IF n = 0 THEN Rows
        ELSE LET p == tree[n].parent
             IN IF tree[p].left = n THEN rows[p] \cap tree[p].rule
                                    ELSE rows[p] \ tree[p].rule
  IN rows

(* The leaves update_predictions adds to a row.                            *)
UpdatePredictions(r) == {n \in Leaves : n \in DOMAIN segments /\ r \in segments[n]}

(* The shortcut that scores the training rows from the row sets gives each *)
(* row one leaf, the one a traversal of the tree reaches.                  *)
ScoresMatchTraversal ==
  pc = "done" =>
    \A r \in Rows : UpdatePredictions(r) = {n \in Leaves : r \in Routed[n]}

(* The leaves counted ahead of the batch are the leaves the tree gets, and *)
(* neither limit is passed.                                                *)
LimitsRespected ==
  pc = "done" =>
    /\ num_leaves = Cardinality(Leaves)
    /\ param.max_leaves > 0 => num_leaves <= param.max_leaves
    /\ param.max_depth > 0 => \A n \in Leaves : tree[n].depth <= param.max_depth

(* Depth-wise growth expands a candidate only when none that is shallower  *)
(* and still valid waits.                                                  *)
BreadthFirst ==
  pc = "apply" /\ param.grow_policy = "DepthWise" =>
    \A e \in Elems(expand_set), d \in Elems(queue) :
      d.depth < e.depth => ~IsValid(d, num_leaves)

(* The nodes of depth d that were expanded.                                *)
Expanded(d) == {n \in DOMAIN tree : tree[n].left # None /\ tree[n].depth = d}

(* The leaves of depth d with rows for two children.                       *)
Unexpanded(d) == {n \in Leaves : tree[n].depth = d /\ Cardinality(segments[n]) >= 2}

(* The cap of a batch cut the level above e: so many of its nodes were     *)
(* expanded, and min_split_loss refused all the candidates it still had.   *)
CutAbove(e) ==
  /\ param.grow_policy = "DepthWise"
  /\ param.min_split_loss > 0
  /\ Cardinality(Expanded(e.depth - 1)) >= param.batch_size
  /\ Unexpanded(e.depth - 1) # {}

(* Growth ends with a candidate that could still be expanded only where    *)
(* depth-wise growth met an empty batch between a cut level and the        *)
(* candidates below it: under loss-guide, and where no level has more      *)
(* candidates than a batch may take, never.                                *)
ExhaustsCandidates ==
  pc = "done" => \A e \in Elems(queue) : IsValid(e, num_leaves) => CutAbove(e)

(* Between batches only leaves own histograms: an expanded node's is gone. *)
NoDeadHistogram == pc \in {"pop", "done"} => DOMAIN hist \subseteq Leaves

(* Growth of every tree ends.                                              *)
Terminates == <>(pc = "done" /\ trees = MaxTrees)

(* The grower implements the splitting of leaves.                          *)
Splitting == INSTANCE LeafSplitting WITH
  leaves <- {segments[n] : n \in DOMAIN segments},
  grown <- pc = "done",
  round <- trees
ImplementsSplitting == Splitting!Spec
=============================================================================
