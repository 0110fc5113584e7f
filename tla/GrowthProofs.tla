---------------------------- MODULE GrowthProofs -----------------------------
(***************************************************************************)
(* What a tree grown by TreeGrower is when growth ends, for every set of   *)
(* rows, every setting and every bound: its leaves were counted ahead and  *)
(* pass no limit, depth-wise growth went level by level, a candidate that   *)
(* could still be expanded was left behind only below a level that was     *)
(* cut, no expanded node kept its histogram, and the row sets score a row  *)
(* as a traversal would.                                                   *)
(*                                                                         *)
(* None of the properties is inductive.  GInv adds to IInv what each of    *)
(* them depends on: which nodes are live and which own a histogram at      *)
(* every point of a batch; the leaves the rest of the batch will add; the  *)
(* depth a candidate remembers; how far the depths in the queue spread     *)
(* around the level of the batch; that both levels wait only where a full  *)
(* batch of the upper one was expanded; and that the rows of a live node   *)
(* are those the tree sends there.                                         *)
(***************************************************************************)
EXTENDS TreeGrowerProofs, CommonLemmas

(* The phases in which the level of a batch is current.                    *)
BatchPhases == {"fill", "apply", "partition"} \cup Working \cup {"release", "push"}

(* The members of the batch whose children are in the tree while their     *)
(* rows are not yet with the children.                                     *)
Pending == {i \in DOMAIN expand_set : \/ pc = "apply" /\ i < at
                                      \/ pc = "partition" /\ i \in todo}

(* A node has a row set when it is a leaf whose parent is not pending, or  *)
(* pending itself.                                                         *)
LiveInv ==
  \A n \in DOMAIN tree :
    n \in DOMAIN segments <=>
      \/ tree[n].left = None /\ \A i \in Pending : tree[n].parent # expand_set[i].nid
      \/ \E i \in Pending : n = expand_set[i].nid

(* The i-th member of the batch is expanded and not yet released.          *)
Owner(i) == pc \in {"partition"} \cup Working \/ (pc = "apply" /\ i < at)
            \/ (pc = "release" /\ i >= at)

(* Only leaves and such members of the batch own histograms.               *)
OwnersInv ==
  /\ pc = "root" => DOMAIN hist = {}
  /\ pc # "reset" =>
       \A n \in DOMAIN hist :
         \/ n \in DOMAIN tree /\ tree[n].left = None
         \/ \E i \in DOMAIN expand_set : n = expand_set[i].nid /\ Owner(i)

(* The leaves the rest of the batch will add.                              *)
Ahead == CASE pc = "fill"  -> Len(expand_set)
           [] pc = "apply" -> Len(expand_set) - at + 1
           [] OTHER        -> 0

(* num_leaves runs ahead of the tree by these, and keeps to max_leaves.    *)
LeavesInv ==
  /\ pc \notin {"root", "reset"} => num_leaves = Cardinality(Leaves) + Ahead
  /\ param.max_leaves > 0 => num_leaves <= param.max_leaves

(* What the candidate knows of its node.                                   *)
EntryOk(e) ==
  /\ e.depth = tree[e.nid].depth
  /\ param.max_depth > 0 => e.depth < param.max_depth

(* Every candidate knows its node's depth and may be expanded within       *)
(* max_depth; a child lies one level below its parent.                     *)
DepthInv ==
  /\ \A i \in DOMAIN queue : EntryOk(queue[i])
  /\ \A i \in DOMAIN expand_set : EntryOk(expand_set[i])
  /\ \A i \in DOMAIN best : EntryOk(best[i])
  /\ param.max_depth > 0 =>
       /\ \A j \in DOMAIN valid : valid[j].depth + 1 < param.max_depth
       /\ \A n \in DOMAIN tree : tree[n].depth <= param.max_depth
  /\ \A n \in DOMAIN tree :
       tree[n].parent # None => tree[n].depth = tree[tree[n].parent].depth + 1

(* The depth-wise queue is sorted and spans two levels at most: during a   *)
(* batch the level of the batch and the one below.                         *)
OrderInv ==
  param.grow_policy = "DepthWise" =>
    /\ \A i, j \in DOMAIN queue : i <= j => queue[i].depth <= queue[j].depth
    /\ pc \notin BatchPhases =>
         \A i, j \in DOMAIN queue : queue[j].depth <= queue[i].depth + 1
    /\ pc \in BatchPhases =>
         /\ \A i \in DOMAIN queue : queue[i].depth \in {level, level + 1}
         /\ \A i \in DOMAIN expand_set : expand_set[i].depth = level

(* The members of the batch still to be applied.                           *)
ToApply == IF pc = "apply" THEN Len(expand_set) - at + 1 ELSE 0

(* Candidates of the lower level wait behind candidates of the upper one   *)
(* only if the upper one was cut: a full batch of its nodes is expanded.   *)
CutInv ==
  param.grow_policy = "DepthWise" =>
    /\ pc \notin BatchPhases =>
         \A i, j \in DOMAIN queue :
           queue[i].depth < queue[j].depth =>
             Cardinality(Expanded(queue[i].depth)) >= param.batch_size
    /\ pc = "fill" =>
         \A j \in DOMAIN queue :
           queue[j].depth # level => Cardinality(Expanded(level)) >= param.batch_size
    /\ pc \in BatchPhases \ {"fill"} =>
         \A j \in DOMAIN queue :
           queue[j].depth = level =>
             Cardinality(Expanded(level)) + ToApply >= param.batch_size

(* While a batch is empty its level has a node that could have been        *)
(* expanded: its front candidate, or one that was refused for its gain or  *)
(* for the number of leaves.                                               *)
RefusedInv ==
  pc = "fill" /\ expand_set = <<>> =>
    /\ Unexpanded(level) # {}
    /\ \/ queue # <<>> /\ queue[1].depth = level
       \/ param.min_split_loss > 0
       \/ param.max_leaves > 0 /\ num_leaves = param.max_leaves

(* Every node but the root is a child of an earlier node.                  *)
Parented ==
  /\ tree[0].parent = None
  /\ \A n \in DOMAIN tree :
       n # 0 => /\ tree[n].parent \in DOMAIN tree /\ tree[n].parent < n
                /\ n \in {tree[tree[n].parent].left, tree[tree[n].parent].right}

(* f sends every row down the tree from the root.                          *)
Routes(f) ==
  \A n \in DOMAIN tree :
    f[n] = IF n = 0 THEN Rows
           ELSE LET p == tree[n].parent
                IN IF tree[p].left = n THEN f[p] \cap tree[p].rule
                                       ELSE f[p] \ tree[p].rule

(* A live node holds the rows sent to it.                                  *)
RoutingInv ==
  \E f \in [DOMAIN tree -> SUBSET Rows] :
    Routes(f) /\ \A n \in DOMAIN segments : segments[n] = f[n]

(* Levels are filled by the depth-wise policy alone, and growth ends as    *)
(* ExhaustsCandidates says.                                                *)
EndInv ==
  /\ pc = "fill" => param.grow_policy = "DepthWise"
  /\ ExhaustsCandidates

(* The parts together; with IInv they are inductive.                       *)
GInv == /\ LiveInv /\ Parented /\ OwnersInv /\ LeavesInv /\ DepthInv /\ OrderInv
        /\ CutInv /\ RefusedInv /\ RoutingInv /\ EndInv

(* What apply_split does to the tree.                                      *)
LEMMA ApplyEffect ==
  ASSUME IInv, ApplySplit
  PROVE  LET e == expand_set[at]
             x == e.nid
             l == NumNodes
         IN /\ pc = "apply" /\ at \in DOMAIN expand_set /\ e \in Entries
            /\ e.gain > 0 /\ Candidate(e, tree, segments, hist)
            /\ x \in DOMAIN tree /\ x \in DOMAIN segments /\ tree[x].left = None
            /\ l \in Nat \ {0} /\ l \notin DOMAIN tree /\ l + 1 \notin DOMAIN tree
            /\ DOMAIN tree = 0 .. l - 1 /\ DOMAIN tree' = DOMAIN tree \cup {l, l + 1}
            /\ \A n \in DOMAIN tree : n # x => tree'[n] = tree[n]
            /\ tree'[x].left = l /\ tree'[x].right = l + 1 /\ tree'[x].rule = e.rule
            /\ tree'[x].parent = tree[x].parent /\ tree'[x].depth = tree[x].depth
            /\ tree'[l] = Leaf(x, tree[x].depth + 1)
            /\ tree'[l + 1] = Leaf(x, tree[x].depth + 1)
            /\ \A n \in DOMAIN tree : tree[n].parent # x
<1> DEFINE e == expand_set[at]
           x == expand_set[at].nid
           l == NumNodes
<1>1. pc = "apply"
  BY DEF ApplySplit
<1>2. tree' = [n \in DOMAIN tree \cup {l, l + 1} |->
                 IF n \in {l, l + 1} THEN Leaf(x, tree[x].depth + 1)
                 ELSE IF n = x
                 THEN [tree[n] EXCEPT !.left = l, !.right = l + 1, !.rule = e.rule]
                 ELSE tree[n]]
  BY DEF ApplySplit
<1>3. at \in DOMAIN expand_set /\ e \in Entries
  BY <1>1 DEF IInv, ControlInv, TypeOK
<1>4. e.gain > 0 /\ Candidate(e, tree, segments, hist)
  <2>1. at >= at
    BY DEF IInv, TypeOK
  <2>2. \A i \in DOMAIN expand_set : pc = "apply" /\ i >= at =>
          Candidate(expand_set[i], tree, segments, hist) /\ expand_set[i].gain > 0
    BY DEF IInv, BatchInv
  <2> QED BY <1>1, <1>3, <2>1, <2>2
<1>5. x \in DOMAIN tree /\ x \in DOMAIN segments /\ tree[x].left = None
  BY <1>3, <1>4 DEF Candidate, Good, IInv, TypeOK, Entries
<1>6. l \in Nat \ {0} /\ DOMAIN tree = 0 .. l - 1 /\ l \notin DOMAIN tree
      /\ l + 1 \notin DOMAIN tree
  BY DEF IInv, TypeOK
<1>7. tree[x] \in [parent : {None} \cup Nat, left : {None} \cup Nat,
                   right : {None} \cup Nat, depth : Nat, rule : SUBSET Rows]
  BY <1>5 DEF IInv, TypeOK
<1>8. \A n \in DOMAIN tree : tree[n].parent # x
  BY <1>5, LeafIsNoParent DEF IInv
<1> HIDE DEF l, e, x
<1>9. /\ \A n \in DOMAIN tree : n # x => tree'[n] = tree[n]
      /\ tree'[x] = [tree[x] EXCEPT !.left = l, !.right = l + 1, !.rule = e.rule]
      /\ tree'[l] = Leaf(x, tree[x].depth + 1)
      /\ tree'[l + 1] = Leaf(x, tree[x].depth + 1)
      /\ DOMAIN tree' = DOMAIN tree \cup {l, l + 1}
  BY <1>2, <1>5, <1>6
<1>10. /\ tree'[x].left = l /\ tree'[x].right = l + 1 /\ tree'[x].rule = e.rule
       /\ tree'[x].parent = tree[x].parent /\ tree'[x].depth = tree[x].depth
  BY <1>7, <1>9
<1> QED BY <1>1, <1>3, <1>4, <1>5, <1>6, <1>8, <1>9, <1>10 DEF e, x, l

(* A member of the batch is a node, and no two of them are the same.       *)
LEMMA BatchNodes ==
  ASSUME IInv, NEW i \in DOMAIN expand_set
  PROVE  /\ expand_set[i] \in Entries
         /\ expand_set[i].nid \in DOMAIN tree
         /\ \A j \in DOMAIN expand_set : expand_set[i].nid = expand_set[j].nid => i = j
<1>1. expand_set[i] \in Entries /\ i \in Nat /\ at \in Nat
  BY DEF IInv, TypeOK
<1>2. \/ pc = "fill" \/ (pc = "apply" /\ i >= at)
      \/ (pc = "apply" /\ i < at) \/ (pc = "partition" /\ i \in todo)
      \/ (pc = "partition" /\ i \notin todo) \/ pc \in Working \cup {"release", "push"}
  <2>1. pc \notin {"root", "pop", "done", "reset"}
    BY DEF IInv, ControlInv
  <2>2. pc \in Phases
    BY DEF IInv, TypeOK
  <2> QED BY <1>1, <2>1, <2>2 DEF Phases, Working
<1>3. expand_set[i].nid \in DOMAIN tree
  <2>1. \/ Candidate(expand_set[i], tree, segments, hist)
        \/ LeafChildren(expand_set[i].nid, tree)
    BY <1>2 DEF IInv, BatchInv, Applied, Divided
  <2> QED BY <2>1 DEF Candidate, Good, LeafChildren, IInv, TypeOK
<1> QED BY <1>1, <1>3 DEF IInv, BatchInv, Distinct

(* The root alone has parents and row sets in order.                       *)
LEMMA FreshLive ==
  tree = RootTree /\ segments = RootSegments /\ Pending = {} => LiveInv /\ Parented
BY DEF LiveInv, Parented, RootTree, RootSegments, Leaf, None

LEMMA LiveNext == IInv /\ LiveInv /\ Parented /\ [Next]_vars => LiveInv' /\ Parented'
<1> SUFFICES ASSUME IInv, LiveInv, Parented, [Next]_vars PROVE LiveInv' /\ Parented'
  OBVIOUS
<1>1. ASSUME UNCHANGED <<tree, segments>>, Pending' = Pending,
             Pending = {} \/ UNCHANGED expand_set
      PROVE  LiveInv' /\ Parented'
  <2>1. Parented'
    BY <1>1 DEF Parented
  <2>2. CASE Pending = {}
    <3>1. Pending' = {}
      BY <1>1, <2>2
    <3>2. \A n \in DOMAIN tree : n \in DOMAIN segments <=> tree[n].left = None
      BY <2>2 DEF LiveInv
    <3>3. \A n \in DOMAIN tree' : n \in DOMAIN segments' <=> tree'[n].left = None
      BY <1>1, <3>2
    <3> QED BY <2>1, <3>1, <3>3 DEF LiveInv
  <2>3. CASE UNCHANGED expand_set
    BY <1>1, <2>1, <2>3 DEF LiveInv
  <2> QED BY <1>1, <2>2, <2>3
<1>2. CASE ApplySplit
  <2> DEFINE e == expand_set[at]
             x == expand_set[at].nid
             l == NumNodes
  <2>1. /\ pc = "apply" /\ at \in DOMAIN expand_set
        /\ x \in DOMAIN tree /\ x \in DOMAIN segments /\ tree[x].left = None
        /\ l \in Nat \ {0} /\ l \notin DOMAIN tree /\ l + 1 \notin DOMAIN tree
        /\ DOMAIN tree = 0 .. l - 1 /\ DOMAIN tree' = DOMAIN tree \cup {l, l + 1}
        /\ \A n \in DOMAIN tree : n # x => tree'[n] = tree[n]
        /\ tree'[x].left = l /\ tree'[x].right = l + 1
        /\ tree'[x].parent = tree[x].parent
        /\ tree'[l].left = None /\ tree'[l].parent = x
        /\ tree'[l + 1].left = None /\ tree'[l + 1].parent = x
        /\ \A n \in DOMAIN tree : tree[n].parent # x
    BY <1>2, ApplyEffect DEF Leaf
  <2>2. /\ UNCHANGED <<segments, expand_set>>
        /\ at' = IF at = Len(expand_set) THEN 1 ELSE at + 1
        /\ todo' = IF at = Len(expand_set) THEN DOMAIN expand_set ELSE {}
        /\ pc' = IF at = Len(expand_set) THEN "partition" ELSE "apply"
    BY <1>2, <2>1 DEF ApplySplit
  <2>3. /\ DOMAIN expand_set = 1 .. Len(expand_set) /\ Len(expand_set) \in Nat
        /\ at \in Nat \ {0}
    BY DEF IInv, TypeOK
  <2>4. Pending' = Pending \cup {at} /\ at \notin Pending
    BY <2>1, <2>2, <2>3 DEF Pending
  <2>5. \A i \in DOMAIN expand_set : expand_set[i].nid \in DOMAIN tree
    BY BatchNodes
  <2>6. DOMAIN segments \subseteq DOMAIN tree /\ Pending \subseteq DOMAIN expand_set
    BY DEF IInv, TypeOK, Pending
  <2> HIDE DEF l
  <2>7. LiveInv'
    <3> SUFFICES ASSUME NEW n \in DOMAIN tree'
                 PROVE  n \in DOMAIN segments <=>
                          \/ /\ tree'[n].left = None
                             /\ \A i \in Pending' : tree'[n].parent # expand_set[i].nid
                          \/ \E i \in Pending' : n = expand_set[i].nid
      BY <2>2 DEF LiveInv
    <3>1. CASE n \in {l, l + 1}
      BY <2>1, <2>4, <2>5, <2>6, <3>1
    <3>2. CASE n = x
      BY <2>1, <2>4, <3>2
    <3>3. CASE n \in DOMAIN tree /\ n # x
      <4>1. n \in DOMAIN segments <=>
              \/ /\ tree[n].left = None
                 /\ \A i \in Pending : tree[n].parent # expand_set[i].nid
              \/ \E i \in Pending : n = expand_set[i].nid
        BY <3>3 DEF LiveInv
      <4> QED BY <2>1, <2>4, <3>3, <4>1
    <3> QED BY <2>1, <3>1, <3>2, <3>3
  <2>8. Parented'
    <3> SUFFICES ASSUME NEW n \in DOMAIN tree', n # 0
                 PROVE  /\ tree'[n].parent \in DOMAIN tree' /\ tree'[n].parent < n
                        /\ n \in {tree'[tree'[n].parent].left, tree'[tree'[n].parent].right}
                 BY <2>1 DEF Parented
    <3>1. CASE n \in {l, l + 1}
      BY <2>1, <3>1
    <3>2. CASE n \in DOMAIN tree
      <4>1. /\ tree[n].parent \in DOMAIN tree /\ tree[n].parent < n
            /\ n \in {tree[tree[n].parent].left, tree[tree[n].parent].right}
        BY <3>2 DEF Parented
      <4>2. tree'[n].parent = tree[n].parent /\ tree[n].parent # x
        BY <2>1, <3>2
      <4> QED BY <2>1, <4>1, <4>2
    <3> QED BY <2>1, <3>1, <3>2
  <2> QED BY <2>7, <2>8
<1>3. CASE SplitAll
  <2>1. PICK i \in todo :
          /\ PartitionTask(i)
          /\ Join(i, IF valid = <<>> THEN "release" ELSE "alloc_build")
    BY <1>3 DEF SplitAll
  <2>2. /\ pc = "partition" /\ i \in DOMAIN expand_set
        /\ UNCHANGED <<tree, expand_set>> /\ todo \subseteq DOMAIN expand_set
    BY <1>3 DEF SplitAll, IInv, ControlInv
  <2> DEFINE n == expand_set[i].nid
             l == tree[n].left
             r == tree[n].right
  <2>3. /\ n \in DOMAIN tree /\ l \in DOMAIN tree /\ r \in DOMAIN tree
        /\ l # None /\ tree[l].left = None /\ tree[r].left = None
        /\ tree[l].parent = n /\ tree[r].parent = n
        /\ n \in DOMAIN segments /\ l \notin DOMAIN segments /\ r \notin DOMAIN segments
        /\ DOMAIN segments' = (DOMAIN segments \ {n}) \cup {l, r}
    BY <2>1, <2>2, PartitionEffect
  <2>4. Pending = todo /\ Pending' = todo \ {i}
    BY <2>1, <2>2 DEF Pending, Join
  <2>5. \A j \in todo : expand_set[j].nid = n => j = i
    BY <2>2, BatchNodes
  <2>6. \A m \in DOMAIN tree : tree[m].parent = n => m \in {l, r}
    <3>1. n # None
      <4>1. n \in DOMAIN tree
        BY <2>3
      <4> HIDE DEF n
      <4> QED BY <4>1 DEF IInv, TypeOK, None
    <3> QED BY <2>3, <3>1 DEF Parented
  <2> HIDE DEF n, l, r
  <2>7. LiveInv'
    <3> SUFFICES ASSUME NEW m \in DOMAIN tree
                 PROVE  m \in DOMAIN segments' <=>
                          \/ /\ tree[m].left = None
                             /\ \A j \in todo \ {i} : tree[m].parent # expand_set[j].nid
                          \/ \E j \in todo \ {i} : m = expand_set[j].nid
      BY <2>2, <2>4 DEF LiveInv
    <3>0. m \in DOMAIN segments <=>
            \/ /\ tree[m].left = None
               /\ \A j \in todo : tree[m].parent # expand_set[j].nid
            \/ \E j \in todo : m = expand_set[j].nid
      BY <2>4 DEF LiveInv
    <3>1. CASE m = n
      <4>1. tree[n].left # None
        BY <2>3 DEF l
      <4> QED BY <2>3, <2>5, <3>1, <4>1
    <3>2. CASE m \in {l, r}
      BY <2>3, <2>5, <3>2
    <3>3. CASE m \notin {n, l, r}
      <4>1. expand_set[i].nid = n
        BY DEF n
      <4> QED BY <2>3, <2>6, <3>0, <3>3, <4>1
    <3> QED BY <3>1, <3>2, <3>3
  <2> QED BY <2>2, <2>7 DEF Parented
<1>4. CASE NextTree
  <2>1. tree' = RootTree /\ segments' = RootSegments /\ Pending' = {}
    BY <1>4 DEF NextTree, Pending
  <2>2. (tree = RootTree /\ segments = RootSegments /\ Pending = {})'
    BY <2>1 DEF RootTree, RootSegments, Leaf
  <2> QED BY <2>2, FreshLive, PTL
<1>5. CASE PopEnd \/ PopBest
  <2>1. UNCHANGED <<tree, segments>>
    BY <1>5 DEF PopEnd, PopBest
  <2>2. pc \notin {"apply", "partition"} /\ pc' # "partition" /\ at' = 1
    BY <1>5 DEF PopEnd, PopBest, Popped
  <2>3. DOMAIN expand_set' \subseteq Nat \ {0}
    <3>1. IInv'
      BY <1>5, PopEndStep, PopBestStep
    <3>2. expand_set' \in Seq(Entries)
      BY <3>1 DEF IInv, TypeOK
    <3> QED BY <3>2
  <2>4. Pending = {} /\ Pending' = {}
    BY <2>2, <2>3 DEF Pending
  <2> QED BY <1>1, <2>1, <2>4
<1>6. CASE \/ InitRoot \/ PopNothing \/ PopLevel \/ PopFront \/ AllocBuild \/ BuildHists
           \/ AllocSubtract \/ SubtractHists \/ EvaluateSplits \/ ReleaseParents \/ Push
           \/ PushEnd \/ ClearHist \/ ResetDone
  <2>1. UNCHANGED <<tree, segments>>
    BY <1>6 DEF InitRoot, PopNothing, PopLevel, PopFront, AllocBuild, BuildHists,
      AllocSubtract, SubtractHists, EvaluateSplits, ReleaseParents, Push, PushEnd, ClearHist,
      ResetDone
  <2>2. pc \notin {"apply", "partition"} /\ pc' \notin {"apply", "partition"}
    BY <1>6 DEF InitRoot, PopNothing, Popped, PopLevel, PopFront, AllocBuild, BuildHists, Join,
      AllocSubtract, SubtractHists, EvaluateSplits, ReleaseParents, Push, PushEnd, ClearHist,
      ResetDone
  <2>3. Pending = {} /\ Pending' = {}
    BY <2>2 DEF Pending
  <2> QED BY <1>1, <2>1, <2>3
<1>7. CASE UNCHANGED vars
  <2>1. Pending' = Pending
    BY <1>7 DEF vars, Pending
  <2> QED BY <1>1, <1>7, <2>1 DEF vars
<1> QED BY <1>2, <1>3, <1>4, <1>5, <1>6, <1>7 DEF Next, Grow, Finished

-----------------------------------------------------------------------------
(* Who owns a histogram. *)

(* What one of the parallel tasks that fill a histogram writes was there.   *)
LEMMA FillTasks ==
  ASSUME IInv, BuildHists \/ SubtractHists
  PROVE  /\ DOMAIN hist' = DOMAIN hist /\ pc \in Working /\ pc' \in Working
         /\ UNCHANGED <<param, trees, tree, segments, free, queue, level, expand_set,
                        num_leaves, valid, plan, best, at>>
<1>1. CASE BuildHists
  <2>1. PICK i \in todo : BuildTask(i) /\ Join(i, "alloc_subtract")
    BY <1>1 DEF BuildHists
  <2>2. pc = "build" /\ i \in DOMAIN plan
    BY <1>1 DEF BuildHists, IInv, ControlInv
  <2>3. plan[i].built \in DOMAIN hist
    BY <2>2 DEF IInv, PlanInv, Working
  <2>4. DOMAIN hist' = DOMAIN hist
    BY <2>1, <2>3 DEF BuildTask, Put
  <2> QED BY <1>1, <2>1, <2>2, <2>4 DEF BuildHists, Join, Working
<1>2. CASE SubtractHists
  <2>1. PICK i \in todo : SubtractTask(i) /\ Join(i, "evaluate")
    BY <1>2 DEF SubtractHists
  <2>2. pc = "subtract" /\ i \in DOMAIN plan
    BY <1>2 DEF SubtractHists, IInv, ControlInv
  <2>3. plan[i].subtracted \in DOMAIN hist
    BY <2>2 DEF IInv, PlanInv, Working
  <2>4. DOMAIN hist' = DOMAIN hist
    BY <2>1, <2>3 DEF SubtractTask, Put
  <2> QED BY <1>2, <2>1, <2>2, <2>4 DEF SubtractHists, Join, Working
<1> QED BY <1>1, <1>2

(* What the loops that allocate give a buffer to is a leaf.                 *)
LEMMA AllocEffect ==
  ASSUME IInv, AllocBuild \/ AllocSubtract
  PROVE  /\ \E b \in DOMAIN tree : tree[b].left = None /\ DOMAIN hist' = DOMAIN hist \cup {b}
         /\ pc \in Working /\ pc' \in Working
         /\ UNCHANGED <<param, trees, tree, segments, queue, level, expand_set,
                        num_leaves, valid, best>>
<1>1. CASE AllocBuild
  <2>1. PICK b \in {tree[valid[at].nid].left, tree[valid[at].nid].right} : Allocate(b)
    BY <1>1 DEF AllocBuild
  <2>2. pc \in Working /\ at \in DOMAIN valid
    BY <1>1 DEF AllocBuild, IInv, ControlInv, TypeOK, Working
  <2>3. b \in DOMAIN tree /\ b \in Nat /\ tree[b].left = None
    BY <2>2, ChildOfValid
  <2>4. DOMAIN hist' = DOMAIN hist \cup {b}
    BY <2>1, <2>3, AllocateEffect DEF IInv
  <2> QED BY <1>1, <2>2, <2>3, <2>4 DEF AllocBuild, Working
<1>2. CASE AllocSubtract
  <2> DEFINE b == plan[at].subtracted
  <2>1. Allocate(b)
    BY <1>2 DEF AllocSubtract
  <2>2. pc \in Working /\ at \in DOMAIN plan
    BY <1>2 DEF AllocSubtract, IInv, ControlInv, TypeOK, Working
  <2>3. at \in DOMAIN valid /\ b \in {tree[valid[at].nid].left, tree[valid[at].nid].right}
    BY <2>2, PlanNodes
  <2>4. b \in DOMAIN tree /\ b \in Nat /\ tree[b].left = None
    BY <2>2, <2>3, ChildOfValid
  <2>5. DOMAIN hist' = DOMAIN hist \cup {b}
    BY <2>1, <2>4, AllocateEffect DEF IInv
  <2> QED BY <1>2, <2>2, <2>4, <2>5 DEF AllocSubtract, Working
<1> QED BY <1>1, <1>2

(* Every histogram belongs to a leaf or to a parent of the current batch.   *)
LEMMA OwnersNext == IInv /\ OwnersInv /\ [Next]_vars => OwnersInv'
<1> SUFFICES ASSUME IInv, OwnersInv, [Next]_vars PROVE OwnersInv'
  OBVIOUS
<1>0. /\ DOMAIN expand_set = 1 .. Len(expand_set) /\ Len(expand_set) \in Nat
      /\ at \in Nat \ {0}
  BY DEF IInv, TypeOK
<1>1. CASE InitRoot
  <2>1. /\ pc = "root" /\ tree = RootTree /\ DOMAIN hist = {} /\ tree' = tree
        /\ hist' = Put(hist, 0, Counts(segments[0])) /\ pc' = "pop"
    BY <1>1 DEF InitRoot, IInv, ControlInv, OwnersInv
  <2>2. DOMAIN hist' = {0}
    BY <2>1 DEF Put
  <2>3. tree'[0].left = None /\ 0 \in DOMAIN tree'
    BY <2>1 DEF RootTree, Leaf
  <2> QED BY <2>1, <2>2, <2>3 DEF OwnersInv
<1>2. CASE PopNothing \/ PopBest \/ PopLevel \/ PopFront \/ PopEnd \/ Push \/ PushEnd
  <2>1. /\ UNCHANGED <<tree, hist>> /\ pc \in {"pop", "fill", "push"}
        /\ pc' \in {"pop", "fill", "push", "apply", "done"}
    BY <1>2 DEF PopNothing, Popped, PopBest, PopLevel, PopFront, PopEnd, Push, PushEnd
  <2>2. \A n \in DOMAIN hist : n \in DOMAIN tree /\ tree[n].left = None
    BY <2>1 DEF OwnersInv, Owner, Working
  <2> QED BY <2>1, <2>2 DEF OwnersInv
<1>3. CASE ApplySplit
  <2> DEFINE x == expand_set[at].nid
             l == NumNodes
  <2>1. /\ pc = "apply" /\ at \in DOMAIN expand_set /\ x \in DOMAIN tree
        /\ DOMAIN tree' = DOMAIN tree \cup {l, l + 1}
        /\ \A n \in DOMAIN tree : n # x => tree'[n] = tree[n]
    BY <1>3, ApplyEffect
  <2>2. /\ UNCHANGED <<hist, expand_set>>
        /\ at' = IF at = Len(expand_set) THEN 1 ELSE at + 1
        /\ pc' = IF at = Len(expand_set) THEN "partition" ELSE "apply"
    BY <1>3, <2>1 DEF ApplySplit
  <2>3. \A i \in DOMAIN expand_set : Owner(i) \/ i = at => Owner(i)'
    BY <1>0, <2>1, <2>2 DEF Owner, Working
  <2>4. ASSUME NEW n \in DOMAIN hist
        PROVE  \/ n \in DOMAIN tree' /\ tree'[n].left = None
               \/ \E i \in DOMAIN expand_set : n = expand_set[i].nid /\ Owner(i)'
    <3>1. \/ n \in DOMAIN tree /\ tree[n].left = None
          \/ \E i \in DOMAIN expand_set : n = expand_set[i].nid /\ Owner(i)
      BY <2>1 DEF OwnersInv
    <3> QED BY <2>1, <2>3, <3>1
  <2> HIDE DEF x, l
  <2>5. \A n \in DOMAIN hist' :
          \/ n \in DOMAIN tree' /\ tree'[n].left = None
          \/ \E i \in DOMAIN expand_set' : n = expand_set'[i].nid /\ Owner(i)'
    BY <2>2, <2>4
  <2> QED BY <2>2, <2>5 DEF OwnersInv
<1>4. CASE SplitAll
  <2>1. /\ pc = "partition" /\ UNCHANGED <<tree, hist, expand_set, at>> /\ at = 1
        /\ pc' \in {"partition", "release", "alloc_build"}
    BY <1>4 DEF SplitAll, Join, IInv, ControlInv
  <2>2. \A i \in DOMAIN expand_set : Owner(i)'
    BY <1>0, <2>1 DEF Owner, Working
  <2> QED BY <2>1, <2>2 DEF OwnersInv
<1>5. CASE AllocBuild \/ AllocSubtract
  <2>1. /\ pc \in Working /\ pc' \in Working /\ UNCHANGED <<tree, expand_set>>
        /\ \E b \in DOMAIN tree : tree[b].left = None /\ DOMAIN hist' = DOMAIN hist \cup {b}
    BY <1>5, AllocEffect
  <2>2. \A i \in DOMAIN expand_set : Owner(i)'
    BY <2>1 DEF Owner
  <2> QED BY <2>1, <2>2 DEF OwnersInv, Working
<1>6. CASE BuildHists \/ SubtractHists
  <2>1. /\ pc \in Working /\ pc' \in Working /\ UNCHANGED <<tree, expand_set>>
        /\ DOMAIN hist' = DOMAIN hist
    BY <1>6, FillTasks
  <2>2. \A i \in DOMAIN expand_set : Owner(i)'
    BY <2>1 DEF Owner
  <2> QED BY <2>1, <2>2 DEF OwnersInv, Working
<1>7. CASE EvaluateSplits
  <2>1. /\ pc = "evaluate" /\ UNCHANGED <<tree, hist, expand_set>>
        /\ pc' = "evaluate" \/ (pc' = "release" /\ at' = 1)
    BY <1>7 DEF EvaluateSplits
  <2>2. \A i \in DOMAIN expand_set : Owner(i)'
    BY <1>0, <2>1 DEF Owner, Working
  <2> QED BY <2>1, <2>2 DEF OwnersInv
<1>8. CASE ReleaseParents
  <2>1. /\ pc = "release" /\ UNCHANGED <<tree, expand_set>> /\ at <= Len(expand_set)
        /\ Release(expand_set[at].nid)
        /\ at' = IF at = Len(expand_set) THEN 1 ELSE at + 1
        /\ pc' = IF at = Len(expand_set) THEN "push" ELSE "release"
    BY <1>8 DEF ReleaseParents, IInv, ControlInv
  <2>2. DOMAIN hist' = DOMAIN hist \ {expand_set[at].nid}
    BY <2>1 DEF Release, Drop
  <2>3. ASSUME NEW i \in DOMAIN expand_set, Owner(i), i # at PROVE Owner(i)'
    <3>1. i >= at
      BY <2>1, <2>3 DEF Owner, Working
    <3>2. at # Len(expand_set) /\ i >= at + 1
      <4> DEFINE k == Len(expand_set)
      <4>1. i \in Nat /\ i <= k /\ i # at /\ k \in Nat /\ at \in Nat
        BY <1>0, <2>3
      <4> HIDE DEF k
      <4>2. at # k /\ i >= at + 1
        BY <3>1, <4>1
      <4> QED BY <4>2 DEF k
    <3> QED BY <2>1, <3>2 DEF Owner
  <2>4. ASSUME NEW n \in DOMAIN hist'
        PROVE  \/ n \in DOMAIN tree' /\ tree'[n].left = None
               \/ \E i \in DOMAIN expand_set : n = expand_set[i].nid /\ Owner(i)'
    <3>1. \/ n \in DOMAIN tree /\ tree[n].left = None
          \/ \E i \in DOMAIN expand_set : n = expand_set[i].nid /\ Owner(i)
      BY <2>1, <2>2 DEF OwnersInv
    <3> QED BY <2>1, <2>2, <2>3, <3>1
  <2>5. \A n \in DOMAIN hist' :
          \/ n \in DOMAIN tree' /\ tree'[n].left = None
          \/ \E i \in DOMAIN expand_set' : n = expand_set'[i].nid /\ Owner(i)'
    BY <2>1, <2>4
  <2> QED BY <2>1, <2>5 DEF OwnersInv
<1>9. CASE NextTree \/ ClearHist \/ ResetDone
  BY <1>9 DEF NextTree, ClearHist, ResetDone, OwnersInv
<1>10. CASE UNCHANGED vars
  <2>1. \A i \in DOMAIN expand_set : Owner(i)' = Owner(i)
    BY <1>10 DEF vars, Owner
  <2> QED BY <1>10, <2>1 DEF vars, OwnersInv
<1> QED BY <1>1, <1>2, <1>3, <1>4, <1>5, <1>6, <1>7, <1>8, <1>9, <1>10
     DEF Next, Grow, Finished

-----------------------------------------------------------------------------
(* The leaves counted ahead. *)

(* A split takes one leaf and gives two.                                    *)
LEMMA OneMoreLeaf ==
  ASSUME IInv, ApplySplit
  PROVE  Cardinality(Leaves') = Cardinality(Leaves) + 1 /\ Cardinality(Leaves) \in Nat
<1> DEFINE x == expand_set[at].nid
           l == NumNodes
<1>1. /\ x \in DOMAIN tree /\ tree[x].left = None
      /\ l \in Nat \ {0} /\ l \notin DOMAIN tree /\ l + 1 \notin DOMAIN tree
      /\ DOMAIN tree = 0 .. l - 1 /\ DOMAIN tree' = DOMAIN tree \cup {l, l + 1}
      /\ \A n \in DOMAIN tree : n # x => tree'[n] = tree[n]
      /\ tree'[x].left = l /\ tree'[l].left = None /\ tree'[l + 1].left = None
  BY ApplyEffect DEF Leaf
<1> HIDE DEF x, l
<1>2. l # None /\ l # l + 1
  BY <1>1 DEF None
<1>3. Leaves' = ((Leaves \ {x}) \cup {l}) \cup {l + 1}
  BY <1>1, <1>2 DEF Leaves
<1>4. /\ x \in Leaves /\ l \notin Leaves \ {x} /\ l + 1 \notin (Leaves \ {x}) \cup {l}
      /\ Leaves \subseteq 0 .. l - 1
  BY <1>1, <1>2 DEF Leaves
<1>5. IsFiniteSet(Leaves)
  <2>1. IsFiniteSet(0 .. l - 1)
    BY <1>1, FS_Interval
  <2> QED BY <1>4, <2>1, FS_Subset
<1>6. /\ IsFiniteSet(Leaves \ {x}) /\ Cardinality(Leaves \ {x}) = Cardinality(Leaves) - 1
      /\ Cardinality(Leaves) \in Nat
  BY <1>4, <1>5, FS_RemoveElement, FS_CardinalityType
<1>7. /\ IsFiniteSet((Leaves \ {x}) \cup {l})
      /\ Cardinality((Leaves \ {x}) \cup {l}) = Cardinality(Leaves \ {x}) + 1
  BY <1>4, <1>6, FS_AddElement
<1>8. Cardinality(((Leaves \ {x}) \cup {l}) \cup {l + 1})
        = Cardinality((Leaves \ {x}) \cup {l}) + 1
  BY <1>4, <1>7, FS_AddElement
<1> QED BY <1>3, <1>6, <1>7, <1>8

(* A candidate that is valid leaves room for one more leaf.                 *)
LEMMA RoomForOne ==
  ASSUME IInv, NEW e, IsValid(e, num_leaves),
         param.max_leaves > 0 => num_leaves <= param.max_leaves
  PROVE  param.max_leaves > 0 => num_leaves + 1 <= param.max_leaves
<1>1. param.max_leaves \in Nat /\ num_leaves \in Nat
  BY GrowerAssumption DEF IInv, TypeOK
<1>2. param.max_leaves > 0 => num_leaves # param.max_leaves
  BY DEF IsValid
<1> QED BY <1>1, <1>2

(* num_leaves is the number of leaves once the batch is applied, and stays  *)
(* within max_leaves.                                                       *)
LEMMA LeavesNext == IInv /\ LeavesInv /\ [Next]_vars => LeavesInv'
<1> SUFFICES ASSUME IInv, LeavesInv, [Next]_vars PROVE LeavesInv'
  OBVIOUS
<1>0. /\ Len(expand_set) \in Nat /\ at \in Nat \ {0} /\ num_leaves \in Nat
      /\ expand_set \in Seq(Entries)
  BY DEF IInv, TypeOK
<1>c. Cardinality(Leaves) \in Nat
  <2>1. IsFiniteSet(DOMAIN tree)
    <3>1. NumNodes - 1 \in Int /\ DOMAIN tree = 0 .. NumNodes - 1
      BY DEF IInv, TypeOK
    <3> QED BY <3>1, FS_Interval
  <2>2. Leaves \subseteq DOMAIN tree
    BY DEF Leaves
  <2> QED BY <2>1, <2>2, FS_Subset, FS_CardinalityType
<1>m. param.max_leaves \in Nat
  BY GrowerAssumption DEF IInv, TypeOK
<1>1. CASE InitRoot
  <2>1. /\ tree' = RootTree /\ pc' = "pop" /\ num_leaves' = 1 /\ param' = param
    BY <1>1 DEF InitRoot, IInv, ControlInv
  <2>2. Leaves' = {0}
    BY <2>1 DEF Leaves, RootTree, Leaf
  <2>3. Cardinality(Leaves') = 1
    BY <2>2, FS_Singleton
  <2>4. Ahead' = 0
    BY <2>1 DEF Ahead
  <2> QED BY <1>m, <2>1, <2>3, <2>4 DEF LeavesInv
<1>2. CASE PopBest
  <2>1. /\ pc = "pop" /\ UNCHANGED <<param, tree>> /\ at' = 1
        /\ pc' = IF expand_set' = <<>> THEN "done" ELSE "apply"
    BY <1>2 DEF PopBest, Popped
  <2>2. PICK i \in DOMAIN queue :
          IF IsValid(queue[i], num_leaves)
          THEN expand_set' = <<queue[i]>> /\ num_leaves' = num_leaves + 1
          ELSE expand_set' = <<>> /\ num_leaves' = num_leaves
    BY <1>2 DEF PopBest
  <2>3. num_leaves = Cardinality(Leaves) /\ Leaves' = Leaves
    BY <1>c, <2>1 DEF LeavesInv, Ahead, Leaves
  <2>4. CASE IsValid(queue[i], num_leaves)
    <3>1. Len(expand_set') = 1 /\ pc' = "apply" /\ num_leaves' = num_leaves + 1
      <4>1. expand_set' = <<queue[i]>> /\ num_leaves' = num_leaves + 1
        BY <2>2, <2>4
      <4>2. Len(expand_set') = 1
        BY <4>1
      <4>3. expand_set' # <<>>
        BY <4>2
      <4> QED BY <2>1, <4>1, <4>2, <4>3
    <3>2. Ahead' = 1
      BY <2>1, <3>1 DEF Ahead
    <3>3. param'.max_leaves > 0 => num_leaves' <= param'.max_leaves
      BY <2>1, <2>4, <3>1, RoomForOne DEF LeavesInv
    <3> QED BY <2>3, <3>1, <3>2, <3>3 DEF LeavesInv
  <2>5. CASE ~IsValid(queue[i], num_leaves)
    <3>1. pc' = "done" /\ num_leaves' = num_leaves
      BY <2>1, <2>2, <2>5
    <3>2. Ahead' = 0
      BY <3>1 DEF Ahead
    <3> QED BY <1>c, <2>1, <2>3, <3>1, <3>2 DEF LeavesInv
  <2> QED BY <2>4, <2>5
<1>3. CASE PopFront
  <2>1. /\ pc = "fill" /\ UNCHANGED <<pc, param, tree>>
        /\ IF IsValid(queue[1], num_leaves)
           THEN expand_set' = Append(expand_set, queue[1]) /\ num_leaves' = num_leaves + 1
           ELSE expand_set' = expand_set /\ num_leaves' = num_leaves
    BY <1>3 DEF PopFront
  <2>2. num_leaves = Cardinality(Leaves) + Len(expand_set) /\ Leaves' = Leaves
    BY <2>1 DEF LeavesInv, Ahead, Leaves
  <2>3. Ahead' = Len(expand_set')
    BY <2>1 DEF Ahead
  <2>4. CASE IsValid(queue[1], num_leaves)
    <3>1. Len(expand_set') = Len(expand_set) + 1 /\ num_leaves' = num_leaves + 1
      BY <1>0, <2>1, <2>4
    <3>2. param'.max_leaves > 0 => num_leaves' <= param'.max_leaves
      BY <2>1, <2>4, <3>1, RoomForOne DEF LeavesInv
    <3> QED BY <1>0, <1>c, <2>2, <2>3, <3>1, <3>2 DEF LeavesInv
  <2>5. CASE ~IsValid(queue[1], num_leaves)
    BY <2>1, <2>2, <2>3, <2>5 DEF LeavesInv
  <2> QED BY <2>4, <2>5
<1>4. CASE PopEnd
  <2>1. /\ pc = "fill" /\ UNCHANGED <<param, tree, num_leaves, expand_set>> /\ at' = 1
        /\ pc' = IF expand_set = <<>> THEN "done" ELSE "apply"
    BY <1>4 DEF PopEnd, Popped
  <2>2. num_leaves = Cardinality(Leaves) + Len(expand_set) /\ Leaves' = Leaves
    BY <2>1 DEF LeavesInv, Ahead, Leaves
  <2>3. Ahead' = Len(expand_set)
    BY <1>0, <2>1 DEF Ahead
  <2> QED BY <2>1, <2>2, <2>3 DEF LeavesInv
<1>5. CASE ApplySplit
  <2>1. /\ pc = "apply" /\ UNCHANGED <<param, num_leaves, expand_set>>
        /\ at' = IF at = Len(expand_set) THEN 1 ELSE at + 1
        /\ pc' = IF at = Len(expand_set) THEN "partition" ELSE "apply"
    BY <1>5 DEF ApplySplit
  <2>2. num_leaves = Cardinality(Leaves) + (Len(expand_set) - at + 1)
    BY <2>1 DEF LeavesInv, Ahead
  <2>3. Cardinality(Leaves') = Cardinality(Leaves) + 1
    BY <1>5, OneMoreLeaf
  <2>4. Ahead' = Len(expand_set) - at
    <3>1. CASE at = Len(expand_set)
      BY <1>0, <2>1, <3>1 DEF Ahead
    <3>2. CASE at # Len(expand_set)
      BY <1>0, <2>1, <3>2 DEF Ahead
    <3> QED BY <3>1, <3>2
  <2> QED BY <1>0, <1>c, <2>1, <2>2, <2>3, <2>4 DEF LeavesInv
<1>6. CASE \/ PopNothing \/ PopLevel \/ SplitAll \/ AllocBuild \/ BuildHists
           \/ AllocSubtract \/ SubtractHists \/ EvaluateSplits \/ ReleaseParents
           \/ Push \/ PushEnd
  <2>1. UNCHANGED <<param, tree, num_leaves>> /\ pc \notin {"fill", "apply", "root", "reset"}
    BY <1>6 DEF PopNothing, PopLevel, SplitAll, AllocBuild, BuildHists, AllocSubtract,
      SubtractHists, EvaluateSplits, ReleaseParents, Push, PushEnd
  <2>2. num_leaves = Cardinality(Leaves) /\ Leaves' = Leaves
    BY <1>c, <2>1 DEF LeavesInv, Ahead, Leaves
  <2>3. Ahead' = 0
    <3>1. CASE PopLevel
      BY <3>1 DEF PopLevel, Ahead
    <3>2. CASE ~PopLevel
      <4>1. pc' \notin {"fill", "apply"}
        BY <1>6, <3>2 DEF PopNothing, Popped, SplitAll, AllocBuild, BuildHists, AllocSubtract,
          SubtractHists, EvaluateSplits, ReleaseParents, Push, PushEnd, Join
      <4> QED BY <4>1 DEF Ahead
    <3> QED BY <3>1, <3>2
  <2> QED BY <1>c, <2>1, <2>2, <2>3 DEF LeavesInv
<1>7. CASE NextTree \/ ClearHist
  BY <1>7 DEF NextTree, ClearHist, LeavesInv
<1>8. CASE ResetDone
  BY <1>8 DEF ResetDone, LeavesInv
<1>9. CASE UNCHANGED vars
  <2>1. Ahead' = Ahead /\ Leaves' = Leaves
    BY <1>9 DEF vars, Ahead, Leaves
  <2> QED BY <1>9, <2>1 DEF vars, LeavesInv
<1> QED BY <1>1, <1>2, <1>3, <1>4, <1>5, <1>6, <1>7, <1>8, <1>9 DEF Next, Grow, Finished

-----------------------------------------------------------------------------
(* The depth of nodes and candidates. *)

(* The candidates the evaluation adds are the children of the member of the *)
(* batch it stands at, and know their depth.                                *)
LEMMA EvaluateEffect ==
  ASSUME IInv, EvaluateSplits
  PROVE  /\ at \in DOMAIN valid
         /\ \A k \in DOMAIN best' :
              \/ k \in DOMAIN best /\ best'[k] = best[k]
              \/ /\ best'[k].nid \in DOMAIN tree
                 /\ tree[best'[k].nid].parent = valid[at].nid
                 /\ best'[k].depth = tree[best'[k].nid].depth
<1> DEFINE l == tree[valid[at].nid].left
           r == tree[valid[at].nid].right
<1>1. PICK s \in Splits(hist[l]), t \in Splits(hist[r]) :
        best' = best \o <<Entry(l, s), Entry(r, t)>>
  BY DEF EvaluateSplits
<1>2. at \in DOMAIN valid /\ pc \in Working
  <2>1. pc = "evaluate"
    BY DEF EvaluateSplits
  <2>2. at <= Len(valid) /\ at \in Nat \ {0} /\ valid \in Seq(Entries)
    BY <2>1 DEF IInv, ControlInv, TypeOK
  <2> QED BY <2>1, <2>2 DEF Working
<1>3. /\ l \in DOMAIN tree /\ r \in DOMAIN tree
      /\ tree[l].parent = valid[at].nid /\ tree[r].parent = valid[at].nid
  BY <1>2, ChildOfValid
<1> DEFINE d == Entry(l, s)
           e == Entry(r, t)
<1>4. d.nid = l /\ d.depth = tree[l].depth /\ e.nid = r /\ e.depth = tree[r].depth
  BY DEF Entry
<1>5. Len(best) \in Nat /\ DOMAIN best = 1 .. Len(best)
  BY DEF IInv, TypeOK
<1>6. best' = best \o <<d, e>>
  BY <1>1
<1> HIDE DEF d, e
<1>7. ASSUME NEW k \in DOMAIN best'
      PROVE  (k \in DOMAIN best /\ best'[k] = best[k]) \/ best'[k] = d \/ best'[k] = e
  <2>1. k \in 1 .. Len(best) + 2
    BY <1>5, <1>6, <1>7
  <2>2. best'[k] = IF k <= Len(best) THEN best[k] ELSE <<d, e>>[k - Len(best)]
    BY <1>5, <1>6, <2>1
  <2>3. k \in 1 .. Len(best) \/ k - Len(best) = 1 \/ k - Len(best) = 2
    BY <1>5, <2>1
  <2>4. <<d, e>>[1] = d /\ <<d, e>>[2] = e
    OBVIOUS
  <2> QED BY <1>5, <2>1, <2>2, <2>3, <2>4
<1> HIDE DEF l, r
<1> QED BY <1>2, <1>3, <1>4, <1>7 DEF l, r

(* A candidate found for a child lies one level below a member of the batch. *)
LEMMA BestDepth ==
  ASSUME IInv, DepthInv, NEW i \in DOMAIN best
  PROVE  \E j \in DOMAIN expand_set : best[i].depth = expand_set[j].depth + 1
<1>1. PICK k \in DOMAIN valid : tree[best[i].nid].parent = valid[k].nid
  BY DEF IInv, BestInv
<1>2. PICK j \in DOMAIN expand_set : valid[k] = expand_set[j]
  BY DEF IInv, BatchInv
<1>3. best[i].nid \in DOMAIN tree
  BY DEF IInv, BestInv, Candidate, Good, TypeOK
<1>4. expand_set[j].nid \in DOMAIN tree
  BY BatchNodes
<1>5. tree[best[i].nid].parent # None
  BY <1>1, <1>2, <1>4 DEF IInv, TypeOK, None
<1>6. tree[best[i].nid].depth = tree[expand_set[j].nid].depth + 1
  BY <1>1, <1>2, <1>3, <1>5 DEF DepthInv
<1> QED BY <1>6 DEF DepthInv, EntryOk

(* The depths candidates know are those of their nodes, and no node passes  *)
(* max_depth.                                                               *)
LEMMA DepthNext == IInv /\ DepthInv /\ [Next]_vars => DepthInv'
<1> SUFFICES ASSUME IInv, DepthInv, [Next]_vars PROVE DepthInv'
  OBVIOUS
<1>m. param.max_depth \in Nat
  BY GrowerAssumption DEF IInv, TypeOK
<1>t. \A n \in DOMAIN tree : tree[n].depth \in Nat
  BY DEF IInv, TypeOK
<1>1. ASSUME UNCHANGED <<param, tree, valid>>,
             \A i \in DOMAIN queue' :
               \/ \E j \in DOMAIN queue : queue'[i] = queue[j]
               \/ \E j \in DOMAIN best : queue'[i] = best[j],
             \A i \in DOMAIN expand_set' :
               \/ \E j \in DOMAIN queue : expand_set'[i] = queue[j]
               \/ \E j \in DOMAIN expand_set : expand_set'[i] = expand_set[j],
             \A i \in DOMAIN best' : \E j \in DOMAIN best : best'[i] = best[j]
      PROVE  DepthInv'
  <2>1. /\ \A i \in DOMAIN queue' : EntryOk(queue'[i])
        /\ \A i \in DOMAIN expand_set' : EntryOk(expand_set'[i])
        /\ \A i \in DOMAIN best' : EntryOk(best'[i])
    BY <1>1 DEF DepthInv
  <2>2. /\ \A i \in DOMAIN queue' : EntryOk(queue[i])'
        /\ \A i \in DOMAIN expand_set' : EntryOk(expand_set[i])'
        /\ \A i \in DOMAIN best' : EntryOk(best[i])'
    BY <1>1, <2>1 DEF EntryOk
  <2> QED BY <1>1, <2>2 DEF DepthInv
<1>2. CASE InitRoot
  <2>1. /\ UNCHANGED <<param, tree, valid, best, expand_set>>
        /\ tree = RootTree /\ expand_set = <<>> /\ best = <<>>
    BY <1>2 DEF InitRoot, IInv, ControlInv
  <2>2. PICK s : queue' = IF s.gain > 0 THEN <<Entry(0, s)>> ELSE <<>>
    BY <1>2 DEF InitRoot
  <2>3. tree[0].depth = 0
    BY <2>1 DEF RootTree, Leaf
  <2>4. \A i \in DOMAIN queue' : queue'[i].nid = 0 /\ queue'[i].depth = tree[0].depth
    <3> DEFINE e == Entry(0, s)
    <3>1. e.nid = 0 /\ e.depth = tree[0].depth
      BY DEF Entry
    <3>2. queue' = IF s.gain > 0 THEN <<e>> ELSE <<>>
      BY <2>2
    <3> HIDE DEF e
    <3> QED BY <3>1, <3>2
  <2>5. \A i \in DOMAIN queue' : EntryOk(queue[i])'
    BY <1>m, <2>1, <2>3, <2>4 DEF EntryOk
  <2> QED BY <2>1, <2>5 DEF DepthInv
<1>3. CASE PopNothing \/ PopLevel \/ PopEnd
  BY <1>1, <1>3 DEF PopNothing, PopLevel, PopEnd
<1>4. CASE PopBest
  <2>1. UNCHANGED <<param, tree, valid, best>>
    BY <1>4 DEF PopBest
  <2>2. PICK i \in DOMAIN queue :
          /\ queue' = SubSeq(queue, 1, i - 1) \o SubSeq(queue, i + 1, Len(queue))
          /\ expand_set' = <<queue[i]>> \/ expand_set' = <<>>
    BY <1>4 DEF PopBest
  <2>3. /\ DOMAIN queue' = 1 .. Len(queue) - 1
        /\ \A j \in DOMAIN queue' : queue'[j] = IF j < i THEN queue[j] ELSE queue[j + 1]
    BY <2>2, TakeOut DEF IInv, TypeOK
  <2>4. Len(queue) \in Nat /\ DOMAIN queue = 1 .. Len(queue)
    BY DEF IInv, TypeOK
  <2>5. \A j \in DOMAIN queue' : \E k \in DOMAIN queue : queue'[j] = queue[k]
    BY <2>3, <2>4
  <2>6. \A j \in DOMAIN expand_set' : \E k \in DOMAIN queue : expand_set'[j] = queue[k]
    BY <2>2
  <2> QED BY <1>1, <2>1, <2>5, <2>6
<1>5. CASE PopFront
  <2>1. /\ UNCHANGED <<param, tree, valid, best>> /\ queue # <<>> /\ queue' = Tail(queue)
        /\ expand_set' = Append(expand_set, queue[1]) \/ expand_set' = expand_set
    BY <1>5 DEF PopFront, MorePop
  <2>2. queue \in Seq(Entries) /\ expand_set \in Seq(Entries)
    BY DEF IInv, TypeOK
  <2>3. \A j \in DOMAIN queue' : \E k \in DOMAIN queue : queue'[j] = queue[k]
    BY <2>1, <2>2
  <2>4. 1 \in DOMAIN queue /\ queue[1] \in Entries
    BY <2>1, <2>2
  <2>5. \A j \in DOMAIN expand_set' : \/ expand_set'[j] = queue[1]
                                      \/ \E k \in DOMAIN expand_set : expand_set'[j] = expand_set[k]
    BY <2>1, <2>2, <2>4, AppendOne
  <2> QED BY <1>1, <2>1, <2>3, <2>4, <2>5
<1>6. CASE ApplySplit
  <2> DEFINE e == expand_set[at]
             x == expand_set[at].nid
             l == NumNodes
  <2>1. /\ at \in DOMAIN expand_set /\ x \in DOMAIN tree
        /\ l \notin DOMAIN tree /\ l + 1 \notin DOMAIN tree
        /\ DOMAIN tree' = DOMAIN tree \cup {l, l + 1}
        /\ \A n \in DOMAIN tree : n # x => tree'[n] = tree[n]
        /\ tree'[x].parent = tree[x].parent /\ tree'[x].depth = tree[x].depth
        /\ tree'[l].parent = x /\ tree'[l].depth = tree[x].depth + 1
        /\ tree'[l + 1].parent = x /\ tree'[l + 1].depth = tree[x].depth + 1
    BY <1>6, ApplyEffect DEF Leaf
  <2>2. /\ UNCHANGED <<param, queue, expand_set, best, num_leaves>>
        /\ valid' = IF IsChildValid(e, num_leaves) THEN Append(valid, e) ELSE valid
    BY <1>6 DEF ApplySplit
  <2>3. EntryOk(e) /\ e \in Entries /\ valid \in Seq(Entries)
    BY <2>1 DEF DepthInv, IInv, TypeOK
  <2>4. \A n \in DOMAIN tree : n \in DOMAIN tree' /\ tree'[n].depth = tree[n].depth
                               /\ tree'[n].parent = tree[n].parent
    BY <2>1
  <2>5. \A d : d.nid \in DOMAIN tree /\ EntryOk(d) =>
                 /\ d.depth = tree'[d.nid].depth
                 /\ param'.max_depth > 0 => d.depth < param'.max_depth
    BY <2>2, <2>4 DEF EntryOk
  <2>6. /\ \A i \in DOMAIN queue : queue[i].nid \in DOMAIN tree /\ EntryOk(queue[i])
        /\ \A i \in DOMAIN expand_set : expand_set[i].nid \in DOMAIN tree /\ EntryOk(expand_set[i])
        /\ \A i \in DOMAIN best : best[i].nid \in DOMAIN tree /\ EntryOk(best[i])
    <3>1. \A i \in DOMAIN best : best[i].nid \in DOMAIN tree
      BY DEF IInv, BestInv, Candidate, Good, TypeOK
    <3> QED BY <3>1, QueueEntry, BatchNodes DEF DepthInv
  <2>7. /\ \A k \in DOMAIN queue' : EntryOk(queue[k])'
        /\ \A k \in DOMAIN expand_set' : EntryOk(expand_set[k])'
        /\ \A i \in DOMAIN best' : EntryOk(best[i])'
    BY <2>2, <2>5, <2>6 DEF EntryOk
  <2>8. param.max_depth > 0 => \A j \in DOMAIN valid' : valid'[j].depth + 1 < param.max_depth
    <3>1. CASE IsChildValid(e, num_leaves)
      <4>1. valid' = Append(valid, e)
        BY <2>2, <3>1
      <4>2. \A k \in DOMAIN valid' : \/ k \in DOMAIN valid /\ valid'[k] = valid[k]
                                     \/ valid'[k] = e
        BY <2>3, <4>1, AppendOne
      <4>3. param.max_depth > 0 => e.depth + 1 < param.max_depth
        BY <3>1 DEF IsChildValid
      <4> QED BY <4>2, <4>3 DEF DepthInv
    <3>2. CASE ~IsChildValid(e, num_leaves)
      BY <2>2, <3>2 DEF DepthInv
    <3> QED BY <3>1, <3>2
  <2>9. param.max_depth > 0 => \A n \in DOMAIN tree' : tree'[n].depth <= param.max_depth
    <3> SUFFICES ASSUME param.max_depth > 0, NEW n \in DOMAIN tree'
                 PROVE  tree'[n].depth <= param.max_depth
      OBVIOUS
    <3>1. tree[x].depth + 1 <= param.max_depth
      <4>1. tree[x].depth < param.max_depth /\ tree[x].depth \in Nat
        BY <1>t, <2>1, <2>3 DEF EntryOk
      <4> QED BY <1>m, <4>1
    <3>2. CASE n \in DOMAIN tree
      BY <2>4, <3>2 DEF DepthInv
    <3>3. CASE n \in {l, l + 1}
      BY <2>1, <3>1, <3>3
    <3> QED BY <2>1, <3>2, <3>3
  <2>10. ASSUME NEW n \in DOMAIN tree', tree'[n].parent # None
         PROVE  tree'[n].depth = tree'[tree'[n].parent].depth + 1
    <3>1. CASE n \in DOMAIN tree
      <4>1. tree[n].parent # None /\ tree[n].parent \in DOMAIN tree
        BY <2>4, <2>10, <3>1 DEF IInv, TreeShape
      <4> QED BY <2>4, <3>1, <4>1 DEF DepthInv
    <3>2. CASE n \in {l, l + 1}
      BY <2>1, <2>4, <3>2
    <3> QED BY <2>1, <3>1, <3>2
  <2> QED BY <2>2, <2>7, <2>8, <2>9, <2>10 DEF DepthInv
<1>7. CASE EvaluateSplits
  <2>1. UNCHANGED <<param, tree, valid, queue, expand_set>>
    BY <1>7 DEF EvaluateSplits
  <2>2. /\ at \in DOMAIN valid
        /\ \A k \in DOMAIN best' :
             \/ k \in DOMAIN best /\ best'[k] = best[k]
             \/ /\ best'[k].nid \in DOMAIN tree
                /\ tree[best'[k].nid].parent = valid[at].nid
                /\ best'[k].depth = tree[best'[k].nid].depth
    BY <1>7, EvaluateEffect
  <2>3. PICK i \in DOMAIN expand_set : valid[at] = expand_set[i]
    BY <2>2 DEF IInv, BatchInv
  <2>4. /\ valid[at].nid \in DOMAIN tree /\ valid[at].depth = tree[valid[at].nid].depth
        /\ valid[at].nid # None
    <3>1. valid[at].nid \in DOMAIN tree
      BY <2>3, BatchNodes
    <3>2. valid[at].depth = tree[valid[at].nid].depth
      BY <2>3 DEF DepthInv, EntryOk
    <3> QED BY <3>1, <3>2 DEF IInv, TypeOK, None
  <2>5. ASSUME NEW k \in DOMAIN best'
        PROVE  /\ best'[k].depth = tree[best'[k].nid].depth
               /\ param.max_depth > 0 => best'[k].depth < param.max_depth
    <3>1. CASE k \in DOMAIN best /\ best'[k] = best[k]
      BY <3>1 DEF DepthInv, EntryOk
    <3>2. CASE /\ best'[k].nid \in DOMAIN tree
               /\ tree[best'[k].nid].parent = valid[at].nid
               /\ best'[k].depth = tree[best'[k].nid].depth
      <4>1. tree[best'[k].nid].depth = valid[at].depth + 1
        BY <2>4, <3>2 DEF DepthInv
      <4>2. param.max_depth > 0 => valid[at].depth + 1 < param.max_depth
        BY <2>2 DEF DepthInv
      <4> QED BY <3>2, <4>1, <4>2
    <3> QED BY <2>2, <3>1, <3>2
  <2>6. \A k \in DOMAIN best' : EntryOk(best[k])'
    BY <2>1, <2>5 DEF EntryOk
  <2>7. /\ \A k \in DOMAIN queue' : EntryOk(queue[k])'
        /\ \A k \in DOMAIN expand_set' : EntryOk(expand_set[k])'
    BY <2>1 DEF EntryOk, DepthInv
  <2> QED BY <2>1, <2>6, <2>7 DEF DepthInv
<1>8. CASE Push
  <2>1. /\ UNCHANGED <<param, tree, valid, best, expand_set>> /\ at <= Len(best)
        /\ queue' = IF best[at].gain > 0 THEN Append(queue, best[at]) ELSE queue
    BY <1>8 DEF Push
  <2>2. queue \in Seq(Entries) /\ best \in Seq(Entries) /\ at \in Nat \ {0}
    BY DEF IInv, TypeOK
  <2>3. at \in DOMAIN best /\ best[at] \in Entries
    BY <2>1, <2>2
  <2>4. \A j \in DOMAIN queue' : \/ queue'[j] = best[at]
                                 \/ \E k \in DOMAIN queue : queue'[j] = queue[k]
    BY <2>1, <2>2, <2>3, AppendOne
  <2> QED BY <1>1, <2>1, <2>3, <2>4
<1>9. CASE PushEnd
  <2>1. /\ UNCHANGED <<param, tree, queue>> /\ valid' = <<>> /\ best' = <<>> /\ expand_set' = <<>>
    BY <1>9 DEF PushEnd
  <2>2. \A i \in DOMAIN queue' : EntryOk(queue[i])'
    BY <2>1 DEF EntryOk, DepthInv
  <2> QED BY <2>1, <2>2 DEF DepthInv
<1>10. CASE NextTree
  <2>1. /\ tree' = RootTree /\ queue' = <<>> /\ pc = "done"
        /\ UNCHANGED <<param, expand_set, valid, best>>
    BY <1>10 DEF NextTree
  <2>2. expand_set = <<>> /\ valid = <<>> /\ best = <<>>
    BY <2>1 DEF IInv, ControlInv
  <2>3. \A n \in DOMAIN tree' : tree'[n].depth = 0 /\ tree'[n].parent = None
    BY <2>1 DEF RootTree, Leaf
  <2> QED BY <1>m, <2>1, <2>2, <2>3 DEF DepthInv
<1>11. CASE \/ SplitAll \/ AllocBuild \/ BuildHists \/ AllocSubtract \/ SubtractHists
            \/ ReleaseParents \/ ClearHist \/ ResetDone \/ UNCHANGED vars
  <2>1. UNCHANGED <<param, tree, valid, queue, expand_set, best>>
    BY <1>11 DEF SplitAll, AllocBuild, BuildHists, AllocSubtract, SubtractHists,
      ReleaseParents, ClearHist, ResetDone, vars
  <2> QED BY <1>1, <2>1
<1> QED BY <1>2, <1>3, <1>4, <1>5, <1>6, <1>7, <1>8, <1>9, <1>10, <1>11
     DEF Next, Grow, Finished

-----------------------------------------------------------------------------
(* Levels cut by the cap of a batch. *)

(* A set with a proper part has two members at least.                       *)
LEMMA TwoMembers ==
  ASSUME NEW S, IsFiniteSet(S), NEW A \in SUBSET S, A # {}, A # S
  PROVE  Cardinality(S) >= 2
<1>1. PICK a \in A : TRUE
  OBVIOUS
<1>2. PICK b \in S : b \notin A
  OBVIOUS
<1>3. IsFiniteSet({a}) /\ Cardinality({a}) = 1
  BY FS_Singleton
<1>4. IsFiniteSet({a} \cup {b}) /\ Cardinality({a} \cup {b}) = Cardinality({a}) + 1
  BY <1>2, <1>3, FS_AddElement
<1>5. Cardinality({a} \cup {b}) <= Cardinality(S) /\ Cardinality(S) \in Nat
  BY <1>1, <1>2, FS_Subset, FS_CardinalityType
<1> QED BY <1>3, <1>4, <1>5

(* The expanded nodes of a level can be counted.                            *)
LEMMA ExpandedFinite ==
  ASSUME IInv, NEW d
  PROVE  IsFiniteSet(Expanded(d)) /\ Cardinality(Expanded(d)) \in Nat
<1>1. IsFiniteSet(DOMAIN tree)
  BY FS_Interval DEF IInv, TypeOK
<1>2. Expanded(d) \subseteq DOMAIN tree
  BY DEF Expanded
<1> QED BY <1>1, <1>2, FS_Subset, FS_CardinalityType

(* A split makes one more expanded node of the batch's level.               *)
LEMMA OneMoreExpanded ==
  ASSUME IInv, DepthInv, OrderInv, ApplySplit, param.grow_policy = "DepthWise"
  PROVE  Cardinality(Expanded(level)') = Cardinality(Expanded(level)) + 1
<1> DEFINE x == expand_set[at].nid
           l == NumNodes
<1>1. /\ pc = "apply" /\ at \in DOMAIN expand_set /\ x \in DOMAIN tree /\ tree[x].left = None
      /\ l \in Nat \ {0} /\ l \notin DOMAIN tree /\ l + 1 \notin DOMAIN tree
      /\ DOMAIN tree' = DOMAIN tree \cup {l, l + 1}
      /\ \A n \in DOMAIN tree : n # x => tree'[n] = tree[n]
      /\ tree'[x].left = l /\ tree'[x].depth = tree[x].depth
      /\ tree'[l].left = None /\ tree'[l + 1].left = None
  BY ApplyEffect DEF Leaf
<1>2. tree[x].depth = level /\ level' = level
  <2>1. expand_set[at].depth = level
    BY <1>1 DEF OrderInv, BatchPhases
  <2>2. expand_set[at].depth = tree[x].depth
    BY <1>1 DEF DepthInv, EntryOk
  <2> QED BY <2>1, <2>2 DEF ApplySplit
<1> HIDE DEF x, l
<1>3. l # None
  BY <1>1 DEF None
<1>4. Expanded(level)' = Expanded(level) \cup {x}
  BY <1>1, <1>2, <1>3 DEF Expanded
<1>5. x \notin Expanded(level)
  BY <1>1 DEF Expanded
<1>6. Cardinality(Expanded(level) \cup {x}) = Cardinality(Expanded(level)) + 1
  BY <1>5, ExpandedFinite, FS_AddElement
<1> QED BY <1>4, <1>6

(* Two levels wait together only where the upper one was cut.               *)
LEMMA CutNext == IInv /\ DepthInv /\ OrderInv /\ CutInv /\ [Next]_vars => CutInv'
<1> SUFFICES ASSUME IInv, DepthInv, OrderInv, CutInv, [Next]_vars,
                    param'.grow_policy = "DepthWise"
             PROVE  CutInv'
  BY DEF CutInv
<1>q. /\ queue \in Seq(Entries) /\ expand_set \in Seq(Entries) /\ level \in Nat
      /\ DOMAIN queue = 1 .. Len(queue) /\ Len(queue) \in Nat
      /\ \A i \in DOMAIN queue : queue[i].depth \in Nat
      /\ Len(expand_set) \in Nat /\ at \in Nat
      /\ param.batch_size \in Nat \ {0}
  <2>1. queue \in Seq(Entries) /\ expand_set \in Seq(Entries) /\ level \in Nat /\ at \in Nat
    BY DEF IInv, TypeOK
  <2>2. \A i \in DOMAIN queue : queue[i] \in Entries
    BY <2>1
  <2>3. \A i \in DOMAIN queue : queue[i].depth \in Nat
    BY <2>2 DEF Entries
  <2>4. param.batch_size \in Nat \ {0}
    BY GrowerAssumption DEF IInv, TypeOK
  <2> QED BY <2>1, <2>3, <2>4
<1>b. "pop" \notin BatchPhases /\ "done" \notin BatchPhases /\ "reset" \notin BatchPhases
      /\ "root" \notin BatchPhases /\ "fill" \in BatchPhases
      /\ "push" \in BatchPhases \ {"fill"} /\ "apply" \in BatchPhases \ {"fill"}
  BY DEF BatchPhases, Working
<1>p. param' = param /\ param.grow_policy = "DepthWise"
  BY DEF Next, Grow, Finished, InitRoot, PopNothing, PopBest, PopLevel, PopFront, PopEnd,
    ApplySplit, SplitAll, AllocBuild, BuildHists, AllocSubtract, SubtractHists,
    EvaluateSplits, ReleaseParents, Push, PushEnd, NextTree, ClearHist, ResetDone, vars
<1>o. /\ \A i, j \in DOMAIN queue : i <= j => queue[i].depth <= queue[j].depth
      /\ pc \in BatchPhases => \A i \in DOMAIN queue : queue[i].depth \in {level, level + 1}
      /\ pc \in BatchPhases => \A i \in DOMAIN expand_set : expand_set[i].depth = level
  BY <1>p DEF OrderInv
<1>n. ASSUME pc' \notin BatchPhases, queue' = <<>> PROVE CutInv'
  BY <1>b, <1>n DEF CutInv
<1>1. CASE InitRoot
  <2>1. pc' = "pop" /\ \A i, j \in DOMAIN queue' : i = j
    <3>1. PICK s : queue' = IF s.gain > 0 THEN <<Entry(0, s)>> ELSE <<>>
      BY <1>1 DEF InitRoot
    <3>2. \A i, j \in DOMAIN queue' : i = j
      <4> DEFINE e == Entry(0, s)
      <4>1. queue' = <<e>> \/ queue' = <<>>
        BY <3>1
      <4> HIDE DEF e
      <4> QED BY <4>1
    <3> QED BY <1>1, <3>2 DEF InitRoot
  <2>2. \A i \in DOMAIN queue' : queue'[i].depth \in Nat
    <3>1. IInv'
      BY <1>1, InitRootStep
    <3>2. queue' \in Seq(Entries)
      BY <3>1 DEF IInv, TypeOK
    <3>3. \A i \in DOMAIN queue' : queue'[i] \in Entries
      BY <3>2
    <3> QED BY <3>3 DEF Entries
  <2>3. \A i, j \in DOMAIN queue' : ~(queue'[i].depth < queue'[j].depth)
    BY <2>1, <2>2
  <2> QED BY <1>b, <2>1, <2>3 DEF CutInv
<1>2. CASE PopNothing
  BY <1>2, <1>b, <1>n DEF PopNothing, Popped
<1>3. CASE PopBest
  BY <1>3, <1>p DEF PopBest
<1>4. CASE PopLevel
  <2>1. /\ pc = "pop" /\ pc' = "fill" /\ UNCHANGED <<param, queue, tree>>
        /\ queue # <<>> /\ level' = queue[1].depth
    BY <1>4 DEF PopLevel
  <2>2. 1 \in DOMAIN queue
    BY <1>q, <2>1
  <2>3. ASSUME NEW j \in DOMAIN queue, queue[j].depth # level'
        PROVE  Cardinality(Expanded(level)') >= param.batch_size
    <3>1. queue[1].depth < queue[j].depth
      BY <1>q, <1>o, <2>1, <2>2, <2>3
    <3>2. Cardinality(Expanded(queue[1].depth)) >= param.batch_size
      BY <1>b, <1>p, <2>1, <2>2, <3>1 DEF CutInv
    <3>3. Expanded(level)' = Expanded(queue[1].depth)
      BY <2>1 DEF Expanded
    <3> QED BY <3>2, <3>3
  <2> QED BY <1>b, <2>1, <2>3 DEF CutInv
<1>5. CASE PopFront
  <2>1. /\ pc = "fill" /\ pc' = "fill" /\ UNCHANGED <<param, level, tree>>
        /\ queue # <<>> /\ queue' = Tail(queue)
    BY <1>5 DEF PopFront, MorePop
  <2>2. \A i \in DOMAIN queue' : i + 1 \in DOMAIN queue /\ queue'[i] = queue[i + 1]
    BY <1>q, <2>1
  <2>3. Expanded(level)' = Expanded(level)
    BY <2>1 DEF Expanded
  <2>4. \A j \in DOMAIN queue : queue[j].depth # level =>
          Cardinality(Expanded(level)) >= param.batch_size
    BY <1>p, <2>1 DEF CutInv
  <2>5. \A j \in DOMAIN queue' : queue'[j].depth # level' =>
          Cardinality(Expanded(level)') >= param'.batch_size
    BY <2>1, <2>2, <2>3, <2>4
  <2> QED BY <1>b, <2>1, <2>5 DEF CutInv
<1>6. CASE PopEnd
  <2>1. /\ pc = "fill" /\ ~MorePop /\ UNCHANGED <<param, queue, level, tree, expand_set>>
        /\ pc' = IF expand_set = <<>> THEN "done" ELSE "apply"
        /\ at' = 1
    BY <1>6 DEF PopEnd, Popped
  <2>2. /\ \A j \in DOMAIN queue : queue[j].depth # level =>
             Cardinality(Expanded(level)) >= param.batch_size
        /\ \A j \in DOMAIN queue : queue[j].depth \in {level, level + 1}
    BY <1>b, <1>p, <1>o, <2>1 DEF CutInv
  <2>3. CASE expand_set = <<>>
    <3>1. ASSUME NEW i \in DOMAIN queue, NEW j \in DOMAIN queue,
                 queue[i].depth < queue[j].depth
          PROVE  Cardinality(Expanded(queue[i].depth)') >= param.batch_size
      <4>1. queue[i].depth = level /\ queue[j].depth # level
        BY <1>q, <2>2, <3>1
      <4>2. Expanded(queue[i].depth)' = Expanded(level)
        BY <2>1, <4>1 DEF Expanded
      <4> QED BY <2>2, <4>1, <4>2
    <3> QED BY <1>b, <2>1, <2>3, <3>1 DEF CutInv
  <2>4. CASE expand_set # <<>>
    <3>1. ASSUME NEW j \in DOMAIN queue, queue[j].depth = level
          PROVE  Cardinality(Expanded(level)') + ToApply' >= param.batch_size
      <4>1. queue # <<>> /\ queue[1].depth = level
        <5>1. 1 \in DOMAIN queue /\ 1 <= j /\ queue # <<>>
          BY <1>q, <3>1
        <5>2. queue[1].depth <= level
          BY <1>o, <3>1, <5>1
        <5> QED BY <1>q, <2>2, <5>1, <5>2
      <4>2. Len(expand_set) >= param.batch_size
        <5>1. ~(Len(expand_set) < param.batch_size)
          BY <2>1, <4>1 DEF MorePop
        <5> QED BY <1>q, <5>1
      <4>3. ToApply' = Len(expand_set)
        <5>1. ToApply' = Len(expand_set') - at' + 1
          BY <2>1, <2>4 DEF ToApply
        <5> QED BY <1>q, <2>1, <5>1
      <4>4. Expanded(level)' = Expanded(level) /\ Cardinality(Expanded(level)) \in Nat
        BY <2>1, ExpandedFinite DEF Expanded
      <4> QED BY <1>q, <4>2, <4>3, <4>4
    <3> QED BY <1>b, <2>1, <2>4, <3>1 DEF CutInv
  <2> QED BY <2>3, <2>4
<1>7. CASE ApplySplit
  <2>1. /\ pc = "apply" /\ UNCHANGED <<param, queue, level, expand_set>>
        /\ pc' = IF at = Len(expand_set) THEN "partition" ELSE "apply"
        /\ at' = IF at = Len(expand_set) THEN 1 ELSE at + 1
    BY <1>7 DEF ApplySplit
  <2>2. ToApply = Len(expand_set) - at + 1 /\ ToApply' = ToApply - 1
    <3>1. CASE at = Len(expand_set)
      BY <1>q, <2>1, <3>1 DEF ToApply
    <3>2. CASE at # Len(expand_set)
      BY <1>q, <2>1, <3>2 DEF ToApply
    <3> QED BY <3>1, <3>2
  <2>3. /\ Cardinality(Expanded(level)') = Cardinality(Expanded(level)) + 1
        /\ Cardinality(Expanded(level)) \in Nat
    BY <1>7, <1>p, OneMoreExpanded, ExpandedFinite
  <2>4. ASSUME NEW j \in DOMAIN queue, queue[j].depth = level
        PROVE  Cardinality(Expanded(level)') + ToApply' >= param.batch_size
    <3>1. Cardinality(Expanded(level)) + ToApply >= param.batch_size
      BY <1>b, <1>p, <2>1, <2>4 DEF CutInv
    <3> QED BY <1>q, <2>2, <2>3, <3>1
  <2>5. pc' \in BatchPhases \ {"fill"}
    BY <2>1 DEF BatchPhases
  <2> QED BY <1>b, <2>1, <2>4, <2>5 DEF CutInv
<1>8. CASE \/ SplitAll \/ AllocBuild \/ BuildHists \/ AllocSubtract \/ SubtractHists
           \/ EvaluateSplits \/ ReleaseParents
  <2>1. /\ UNCHANGED <<param, queue, level, expand_set, tree>>
        /\ pc \in {"partition", "release"} \cup Working
        /\ pc' \in {"partition", "release", "push"} \cup Working
    BY <1>8 DEF SplitAll, AllocBuild, BuildHists, AllocSubtract, SubtractHists,
      EvaluateSplits, ReleaseParents, Join, Working
  <2>2. /\ pc \in BatchPhases \ {"fill"} /\ pc' \in BatchPhases \ {"fill"}
        /\ pc # "apply" /\ pc' # "apply"
    BY <2>1 DEF BatchPhases, Working
  <2>3. ToApply = 0 /\ ToApply' = 0 /\ Expanded(level)' = Expanded(level)
    BY <2>1, <2>2 DEF ToApply, Expanded
  <2> QED BY <1>p, <2>1, <2>2, <2>3 DEF CutInv
<1>9. CASE Push
  <2>1. /\ pc = "push" /\ pc' = "push" /\ UNCHANGED <<param, level, tree, expand_set>>
        /\ at <= Len(best)
        /\ queue' = IF best[at].gain > 0 THEN Append(queue, best[at]) ELSE queue
    BY <1>9 DEF Push
  <2>2. at \in DOMAIN best /\ best[at] \in Entries
    <3>1. best \in Seq(Entries) /\ at \in Nat \ {0}
      BY DEF IInv, TypeOK
    <3> QED BY <2>1, <3>1
  <2>3. best[at].depth = level + 1
    BY <1>b, <1>o, <2>1, <2>2, BestDepth
  <2>4. \A j \in DOMAIN queue' : \/ queue'[j] = best[at]
                                 \/ \E k \in DOMAIN queue : queue'[j] = queue[k]
    BY <1>q, <2>1, <2>2, AppendOne
  <2>5. ToApply = 0 /\ ToApply' = 0 /\ Expanded(level)' = Expanded(level)
    BY <2>1 DEF ToApply, Expanded
  <2>6. ASSUME NEW j \in DOMAIN queue', queue'[j].depth = level
        PROVE  Cardinality(Expanded(level)) + 0 >= param.batch_size
    <3>1. PICK k \in DOMAIN queue : queue'[j] = queue[k]
      BY <1>q, <2>3, <2>4, <2>6
    <3> QED BY <1>b, <1>p, <2>1, <2>5, <2>6, <3>1 DEF CutInv
  <2> QED BY <1>b, <2>1, <2>5, <2>6 DEF CutInv
<1>10. CASE PushEnd
  <2>1. pc = "push" /\ pc' = "pop" /\ UNCHANGED <<param, queue, tree>>
    BY <1>10 DEF PushEnd
  <2>2. ToApply = 0 /\ Cardinality(Expanded(level)) \in Nat
    BY <2>1, ExpandedFinite DEF ToApply
  <2>3. ASSUME NEW i \in DOMAIN queue, NEW j \in DOMAIN queue,
               queue[i].depth < queue[j].depth
        PROVE  Cardinality(Expanded(queue[i].depth)') >= param.batch_size
    <3>1. queue[i].depth = level
      <4>1. queue[i].depth \in {level, level + 1} /\ queue[j].depth \in {level, level + 1}
        BY <1>b, <1>o, <2>1
      <4> QED BY <1>q, <2>3, <4>1
    <3>2. Cardinality(Expanded(level)) + 0 >= param.batch_size
      BY <1>b, <1>p, <2>1, <2>2, <3>1 DEF CutInv
    <3>3. Expanded(queue[i].depth)' = Expanded(level)
      BY <2>1, <3>1 DEF Expanded
    <3> QED BY <2>2, <3>2, <3>3
  <2> QED BY <1>b, <2>1, <2>3 DEF CutInv
<1>11. CASE NextTree
  BY <1>11, <1>b, <1>n DEF NextTree
<1>12. CASE ClearHist \/ ResetDone
  <2>1. pc = "reset" /\ pc' \in {"reset", "root"} /\ UNCHANGED queue
    BY <1>12 DEF ClearHist, ResetDone
  <2>2. queue = <<>>
    BY <2>1 DEF IInv, ControlInv
  <2> QED BY <1>b, <1>n, <2>1, <2>2
<1>13. CASE UNCHANGED vars
  <2>1. ToApply' = ToApply
    BY <1>13 DEF vars, ToApply
  <2>2. UNCHANGED <<pc, param, queue, level, tree>>
    BY <1>13 DEF vars
  <2>3. /\ Expanded(level)' = Expanded(level)
        /\ \A i : Expanded(queue[i].depth)' = Expanded(queue[i].depth)
    BY <2>2 DEF Expanded
  <2> QED BY <1>p, <2>1, <2>2, <2>3 DEF CutInv
<1> QED BY <1>1, <1>2, <1>3, <1>4, <1>5, <1>6, <1>7, <1>8, <1>9, <1>10, <1>11, <1>12, <1>13
     DEF Next, Grow, Finished

(* What refuses a candidate is its gain or the number of leaves.            *)
LEMMA WhyRefused ==
  ASSUME IInv, DepthInv, NEW i \in DOMAIN queue, ~IsValid(queue[i], num_leaves)
  PROVE  \/ ~(queue[i].gain >= param.min_split_loss) /\ param.min_split_loss > 0
         \/ param.max_leaves > 0 /\ num_leaves = param.max_leaves
<1>1. queue[i] \in Entries /\ queue[i].gain > 0
  BY QueueEntry
<1>2. queue[i].gain \in Nat /\ queue[i].depth \in Nat
  BY <1>1, GrowerAssumption DEF Entries
<1>3. param.max_depth \in Nat /\ param.min_split_loss \in Nat
  BY GrowerAssumption DEF IInv, TypeOK
<1>4. param.max_depth > 0 => queue[i].depth < param.max_depth
  BY DEF DepthInv, EntryOk
<1>5. param.max_depth > 0 => queue[i].depth # param.max_depth
  BY <1>2, <1>3, <1>4
<1>6. \/ ~(queue[i].gain >= param.min_split_loss)
      \/ param.max_leaves > 0 /\ num_leaves = param.max_leaves
  BY <1>1, <1>5 DEF IsValid
<1>7. ~(queue[i].gain >= param.min_split_loss) => param.min_split_loss > 0
  BY <1>1, <1>2, <1>3
<1> QED BY <1>6, <1>7

(* The level of an empty batch has a node that could have been expanded.    *)
LEMMA RefusedNext == IInv /\ DepthInv /\ RefusedInv /\ [Next]_vars => RefusedInv'
<1> SUFFICES ASSUME IInv, DepthInv, RefusedInv, [Next]_vars, pc' = "fill", expand_set' = <<>>
             PROVE  /\ Unexpanded(level)' # {}
                    /\ \/ queue' # <<>> /\ queue'[1].depth = level'
                       \/ param'.min_split_loss > 0
                       \/ param'.max_leaves > 0 /\ num_leaves' = param'.max_leaves
  BY DEF RefusedInv
<1>1. CASE PopLevel
  <2>1. /\ UNCHANGED <<queue, tree, segments>> /\ queue # <<>> /\ level' = queue[1].depth
    BY <1>1 DEF PopLevel
  <2>2. 1 \in DOMAIN queue
    <3>1. queue \in Seq(Entries)
      BY DEF IInv, TypeOK
    <3> QED BY <2>1, <3>1
  <2> DEFINE n == queue[1].nid
  <2>3. Candidate(queue[1], tree, segments, hist) /\ queue[1].gain > 0
        /\ queue[1].depth = tree[n].depth
    BY <2>2 DEF IInv, QueueInv, DepthInv, EntryOk
  <2>4. /\ n \in DOMAIN segments /\ n \in DOMAIN tree /\ tree[n].left = None
        /\ queue[1].rule # {} /\ queue[1].rule \subseteq segments[n]
        /\ queue[1].rule # segments[n]
    BY <2>3 DEF Candidate, Good, IInv, TypeOK
  <2>5. IsFiniteSet(segments[n])
    <3>1. segments[n] \subseteq Rows
      BY <2>4 DEF IInv, TypeOK
    <3> QED BY <3>1, GrowerAssumption, FS_Subset
  <2> HIDE DEF n
  <2>6. Cardinality(segments[n]) >= 2
    BY <2>4, <2>5, TwoMembers
  <2>7. n \in Unexpanded(level)'
    <3>1. n \in Leaves /\ tree[n].depth = level'
      BY <2>1, <2>3, <2>4 DEF Leaves, n
    <3> QED BY <2>1, <2>6, <3>1 DEF Unexpanded, Leaves
  <2> QED BY <2>1, <2>7
<1>2. CASE PopFront
  <2>1. /\ pc = "fill" /\ UNCHANGED <<param, level, tree, segments>> /\ queue # <<>>
        /\ IF IsValid(queue[1], num_leaves)
           THEN expand_set' = Append(expand_set, queue[1])
           ELSE UNCHANGED <<expand_set, num_leaves>>
    BY <1>2 DEF PopFront, MorePop
  <2>2. 1 \in DOMAIN queue /\ queue[1] \in Entries /\ expand_set \in Seq(Entries)
    <3>1. queue \in Seq(Entries) /\ expand_set \in Seq(Entries)
      BY DEF IInv, TypeOK
    <3> QED BY <2>1, <3>1
  <2>3. ~IsValid(queue[1], num_leaves)
    <3> SUFFICES ASSUME expand_set' = Append(expand_set, queue[1]) PROVE FALSE
      BY <2>1
    <3>1. Len(expand_set') = Len(expand_set) + 1 /\ Len(expand_set) \in Nat
      BY <2>2, AppendOne
    <3>2. Len(expand_set') = 0
      OBVIOUS
    <3> QED BY <3>1, <3>2
  <2>4. expand_set = <<>> /\ num_leaves' = num_leaves
    BY <2>1, <2>3
  <2>5. Unexpanded(level)' # {}
    BY <2>1, <2>4 DEF RefusedInv, Unexpanded, Leaves
  <2>6. \/ param.min_split_loss > 0
        \/ param.max_leaves > 0 /\ num_leaves = param.max_leaves
    BY <2>2, <2>3, WhyRefused
  <2> QED BY <2>1, <2>4, <2>5, <2>6
<1>3. CASE UNCHANGED vars
  BY <1>3 DEF vars, RefusedInv, Unexpanded, Leaves
<1>4. PopLevel \/ PopFront \/ UNCHANGED vars
  <2>1. InitRoot \/ PopNothing \/ PopBest \/ PopEnd \/ ApplySplit \/ SplitAll \/ AllocBuild
        \/ BuildHists \/ AllocSubtract \/ SubtractHists \/ EvaluateSplits \/ ReleaseParents
        \/ Push \/ PushEnd \/ NextTree \/ ClearHist \/ ResetDone => pc' # "fill"
    BY DEF InitRoot, PopNothing, PopBest, PopEnd, Popped, ApplySplit, SplitAll, AllocBuild,
      BuildHists, AllocSubtract, SubtractHists, EvaluateSplits, ReleaseParents, Push, PushEnd,
      NextTree, ClearHist, ResetDone, Join
  <2> QED BY <2>1 DEF Next, Grow, Finished
<1> QED BY <1>1, <1>2, <1>3, <1>4

-----------------------------------------------------------------------------
(* The order of the queue. *)

(* A step inside the same stage of the batch that leaves the queue alone.   *)
LEMMA StageFrame ==
  ASSUME OrderInv, UNCHANGED <<param, queue, level, expand_set>>,
         (pc \in BatchPhases) = (pc' \in BatchPhases)
  PROVE  OrderInv'
BY DEF OrderInv

(* The queue of depth-wise growth is sorted by depth and holds two levels   *)
(* at most.                                                                 *)
LEMMA OrderNext == IInv /\ DepthInv /\ OrderInv /\ [Next]_vars => OrderInv'
<1> SUFFICES ASSUME IInv, DepthInv, OrderInv, [Next]_vars PROVE OrderInv'
  OBVIOUS
<1>q. /\ queue \in Seq(Entries) /\ expand_set \in Seq(Entries) /\ level \in Nat
      /\ DOMAIN queue = 1 .. Len(queue) /\ Len(queue) \in Nat
      /\ DOMAIN expand_set = 1 .. Len(expand_set) /\ Len(expand_set) \in Nat
      /\ \A i \in DOMAIN queue : queue[i].depth \in Nat
  <2>1. queue \in Seq(Entries) /\ expand_set \in Seq(Entries) /\ level \in Nat
    BY DEF IInv, TypeOK
  <2>2. \A i \in DOMAIN queue : queue[i] \in Entries
    BY <2>1
  <2>3. \A i \in DOMAIN queue : queue[i].depth \in Nat
    BY <2>2 DEF Entries
  <2> QED BY <2>1, <2>3
<1>b. "pop" \notin BatchPhases /\ "done" \notin BatchPhases /\ "fill" \in BatchPhases
      /\ "push" \in BatchPhases /\ "apply" \in BatchPhases \ {"fill", "push"}
      /\ "reset" \notin BatchPhases
  BY DEF BatchPhases, Working
<1>1. CASE InitRoot
  <2>1. /\ UNCHANGED param /\ pc' = "pop" /\ \A i, j \in DOMAIN queue' : i = j
    <3>1. PICK s : queue' = IF s.gain > 0 THEN <<Entry(0, s)>> ELSE <<>>
      BY <1>1 DEF InitRoot
    <3>2. \A i, j \in DOMAIN queue' : i = j
      <4> DEFINE e == Entry(0, s)
      <4>1. queue' = <<e>> \/ queue' = <<>>
        BY <3>1
      <4> HIDE DEF e
      <4> QED BY <4>1
    <3> QED BY <1>1, <3>2 DEF InitRoot
  <2>2. \A i \in DOMAIN queue' : queue'[i].depth \in Nat
    <3>1. IInv'
      BY <1>1, InitRootStep
    <3>2. queue' \in Seq(Entries)
      BY <3>1 DEF IInv, TypeOK
    <3>3. \A i \in DOMAIN queue' : queue'[i] \in Entries
      BY <3>2
    <3> QED BY <3>3 DEF Entries
  <2>3. \A i, j \in DOMAIN queue' : queue'[i].depth = queue'[j].depth
    BY <2>1
  <2>4. OrderInv'
    <3>1. \A i, j \in DOMAIN queue' : /\ queue'[i].depth <= queue'[j].depth
                                      /\ queue'[j].depth <= queue'[i].depth + 1
      BY <2>2, <2>3
    <3> QED BY <1>b, <2>1, <3>1 DEF OrderInv
  <2> QED BY <2>4
<1>2. CASE PopNothing
  <2>1. UNCHANGED <<param, queue, level, expand_set>> /\ pc = "pop" /\ pc' = "done" /\ queue = <<>>
    BY <1>2 DEF PopNothing, Popped, IInv, ControlInv
  <2> QED BY <1>b, <2>1, StageFrame
<1>3. CASE PopBest
  BY <1>3 DEF PopBest, OrderInv
<1>4. CASE PopLevel
  <2>1. /\ pc = "pop" /\ pc' = "fill" /\ UNCHANGED <<param, queue>>
        /\ queue # <<>> /\ level' = queue[1].depth /\ expand_set' = <<>>
    BY <1>4 DEF PopLevel
  <2>2. 1 \in DOMAIN queue
    BY <1>q, <2>1
  <2>3. OrderInv'
    <3> SUFFICES ASSUME param.grow_policy = "DepthWise"
                 PROVE  /\ \A i, j \in DOMAIN queue : i <= j => queue[i].depth <= queue[j].depth
                        /\ \A i \in DOMAIN queue : queue[i].depth \in {level', level' + 1}
      BY <1>b, <2>1 DEF OrderInv
    <3>1. /\ \A i, j \in DOMAIN queue : i <= j => queue[i].depth <= queue[j].depth
          /\ \A i, j \in DOMAIN queue : queue[j].depth <= queue[i].depth + 1
      BY <1>b, <2>1 DEF OrderInv
    <3>2. ASSUME NEW i \in DOMAIN queue PROVE queue[i].depth \in {level', level' + 1}
      <4>1. queue[1].depth <= queue[i].depth /\ queue[i].depth <= queue[1].depth + 1
        BY <1>q, <2>2, <3>1, <3>2
      <4>2. queue[1].depth \in Nat /\ queue[i].depth \in Nat
        BY <1>q, <2>2, <3>2
      <4> QED BY <2>1, <4>1, <4>2
    <3> QED BY <3>1, <3>2
  <2> QED BY <2>3
<1>5. CASE PopFront
  <2>1. /\ pc = "fill" /\ pc' = "fill" /\ UNCHANGED <<param, level>>
        /\ queue # <<>> /\ queue[1].depth = level /\ queue' = Tail(queue)
        /\ expand_set' = Append(expand_set, queue[1]) \/ expand_set' = expand_set
    BY <1>5 DEF PopFront, MorePop
  <2>2. /\ DOMAIN queue' = 1 .. Len(queue) - 1
        /\ \A i \in DOMAIN queue' : i + 1 \in DOMAIN queue /\ queue'[i] = queue[i + 1] /\ i \in Nat
    BY <1>q, <2>1
  <2>3. OrderInv'
    <3> SUFFICES ASSUME param.grow_policy = "DepthWise"
                 PROVE  /\ \A i, j \in DOMAIN queue' : i <= j => queue'[i].depth <= queue'[j].depth
                        /\ \A i \in DOMAIN queue' : queue'[i].depth \in {level, level + 1}
                        /\ \A i \in DOMAIN expand_set' : expand_set'[i].depth = level
      BY <1>b, <2>1 DEF OrderInv
    <3>1. /\ \A i, j \in DOMAIN queue : i <= j => queue[i].depth <= queue[j].depth
          /\ \A i \in DOMAIN queue : queue[i].depth \in {level, level + 1}
          /\ \A i \in DOMAIN expand_set : expand_set[i].depth = level
      BY <1>b, <2>1 DEF OrderInv
    <3>2. \A i, j \in DOMAIN queue' : i <= j => queue'[i].depth <= queue'[j].depth
      <4> SUFFICES ASSUME NEW i \in DOMAIN queue', NEW j \in DOMAIN queue', i <= j
                   PROVE  queue'[i].depth <= queue'[j].depth
        OBVIOUS
      <4>1. i + 1 <= j + 1
        BY <2>2
      <4> QED BY <2>2, <3>1, <4>1
    <3>3. \A i \in DOMAIN expand_set' : expand_set'[i].depth = level
      <4>1. queue[1] \in Entries /\ expand_set \in Seq(Entries)
        BY <1>q, <2>1
      <4>2. \A i \in DOMAIN expand_set' : \/ expand_set'[i] = queue[1]
                                          \/ \E k \in DOMAIN expand_set :
                                               expand_set'[i] = expand_set[k]
        BY <2>1, <4>1, AppendOne
      <4> QED BY <2>1, <3>1, <4>2
    <3> QED BY <2>2, <3>1, <3>2, <3>3
  <2> QED BY <2>3
<1>6. CASE PopEnd
  <2>1. /\ pc = "fill" /\ ~MorePop /\ UNCHANGED <<param, queue, level, expand_set>>
        /\ pc' = IF expand_set = <<>> THEN "done" ELSE "apply"
    BY <1>6 DEF PopEnd, Popped
  <2>2. OrderInv'
    <3>1. ASSUME param.grow_policy = "DepthWise"
          PROVE  \A i, j \in DOMAIN queue : queue[j].depth <= queue[i].depth + 1
      <4>1. \A i \in DOMAIN queue : queue[i].depth \in {level, level + 1}
        BY <1>b, <2>1, <3>1 DEF OrderInv
      <4> QED BY <1>q, <4>1
    <3> QED BY <1>b, <2>1, <3>1 DEF OrderInv
  <2> QED BY <2>2
<1>7. CASE Push
  <2>1. /\ pc = "push" /\ pc' = "push" /\ UNCHANGED <<param, level, expand_set>>
        /\ at <= Len(best)
        /\ queue' = IF best[at].gain > 0 THEN Append(queue, best[at]) ELSE queue
    BY <1>7 DEF Push
  <2>2. at \in DOMAIN best /\ best[at] \in Entries
    <3>1. best \in Seq(Entries) /\ at \in Nat \ {0}
      BY DEF IInv, TypeOK
    <3> QED BY <2>1, <3>1
  <2>3. CASE ~(best[at].gain > 0)
    <3>1. UNCHANGED queue
      BY <2>1, <2>3
    <3> QED BY <2>1, <3>1, StageFrame
  <2>4. CASE best[at].gain > 0
    <3>1. queue' = Append(queue, best[at])
      BY <2>1, <2>4
    <3>2. /\ DOMAIN queue' = 1 .. Len(queue) + 1
          /\ \A i \in DOMAIN queue' : \/ i \in DOMAIN queue /\ queue'[i] = queue[i]
                                      \/ i = Len(queue) + 1 /\ queue'[i] = best[at]
      <4>1. queue' \in Seq(Entries) /\ Len(queue') = Len(queue) + 1
        BY <1>q, <2>2, <3>1, AppendOne
      <4>2. DOMAIN queue' = 1 .. Len(queue) + 1
        BY <4>1
      <4> QED BY <1>q, <2>2, <3>1, <4>2, AppendOne
    <3>3. ASSUME param.grow_policy = "DepthWise" PROVE best[at].depth = level + 1
      <4>1. \A i \in DOMAIN expand_set : expand_set[i].depth = level
        BY <1>b, <2>1, <3>3 DEF OrderInv
      <4> QED BY <2>2, <4>1, BestDepth
    <3>4. OrderInv'
      <4> SUFFICES ASSUME param.grow_policy = "DepthWise"
                   PROVE  /\ \A i, j \in DOMAIN queue' :
                               i <= j => queue'[i].depth <= queue'[j].depth
                          /\ \A i \in DOMAIN queue' : queue'[i].depth \in {level, level + 1}
                          /\ \A i \in DOMAIN expand_set : expand_set[i].depth = level
        BY <1>b, <2>1 DEF OrderInv
      <4>1. /\ \A i, j \in DOMAIN queue : i <= j => queue[i].depth <= queue[j].depth
            /\ \A i \in DOMAIN queue : queue[i].depth \in {level, level + 1}
            /\ \A i \in DOMAIN expand_set : expand_set[i].depth = level
        BY <1>b, <2>1 DEF OrderInv
      <4>2. \A i \in DOMAIN queue' : queue'[i].depth \in {level, level + 1}
        BY <3>2, <3>3, <4>1
      <4>3. ASSUME NEW i \in DOMAIN queue', NEW j \in DOMAIN queue', i <= j
            PROVE  queue'[i].depth <= queue'[j].depth
        <5>1. CASE j \in DOMAIN queue /\ queue'[j] = queue[j]
          <6>1. i \in DOMAIN queue
            BY <1>q, <3>2, <4>3, <5>1
          <6>2. queue'[i] = queue[i]
            BY <1>q, <3>2, <6>1
          <6> QED BY <4>1, <4>3, <5>1, <6>1, <6>2
        <5>2. CASE queue'[j] = best[at]
          <6>1. queue'[j].depth = level + 1
            BY <3>3, <5>2
          <6>2. queue'[i].depth \in {level, level + 1}
            BY <4>2
          <6> QED BY <1>q, <6>1, <6>2
        <5> QED BY <3>2, <5>1, <5>2
      <4> QED BY <4>1, <4>2, <4>3
    <3> QED BY <3>4
  <2> QED BY <2>3, <2>4
<1>8. CASE PushEnd
  <2>1. pc = "push" /\ pc' = "pop" /\ UNCHANGED <<param, queue>>
    BY <1>8 DEF PushEnd
  <2>2. OrderInv'
    <3>1. ASSUME param.grow_policy = "DepthWise"
          PROVE  \A i, j \in DOMAIN queue : queue[j].depth <= queue[i].depth + 1
      <4>1. \A i \in DOMAIN queue : queue[i].depth \in {level, level + 1}
        BY <1>b, <2>1, <3>1 DEF OrderInv
      <4> QED BY <1>q, <4>1
    <3> QED BY <1>b, <2>1, <3>1 DEF OrderInv
  <2> QED BY <2>2
<1>9. CASE NextTree
  <2>1. pc' = "reset" /\ queue' = <<>>
    BY <1>9 DEF NextTree
  <2> QED BY <1>b, <2>1 DEF OrderInv
<1>10. CASE ClearHist \/ ResetDone
  <2>1. /\ UNCHANGED <<param, queue, level, expand_set>> /\ pc = "reset"
        /\ pc' \in {"reset", "root"}
    BY <1>10 DEF ClearHist, ResetDone
  <2>2. pc \notin BatchPhases /\ pc' \notin BatchPhases /\ pc' # "done"
    BY <2>1 DEF BatchPhases, Working
  <2> QED BY <2>1, <2>2, StageFrame
<1>11. CASE \/ ApplySplit \/ SplitAll \/ AllocBuild \/ BuildHists \/ AllocSubtract
            \/ SubtractHists \/ EvaluateSplits \/ ReleaseParents
  <2>1. /\ UNCHANGED <<param, queue, level, expand_set>>
        /\ pc \in {"apply", "partition", "release"} \cup Working
        /\ pc' \in {"apply", "partition", "release", "push"} \cup Working
    BY <1>11 DEF ApplySplit, SplitAll, AllocBuild, BuildHists, AllocSubtract, SubtractHists,
      EvaluateSplits, ReleaseParents, Join, Working
  <2>2. pc \in BatchPhases /\ pc' \in BatchPhases
    BY <2>1 DEF BatchPhases, Working
  <2> QED BY <2>1, <2>2, StageFrame
<1>12. CASE UNCHANGED vars
  BY <1>12, StageFrame DEF vars
<1> QED BY <1>1, <1>2, <1>3, <1>4, <1>5, <1>6, <1>7, <1>8, <1>9, <1>10, <1>11, <1>12
     DEF Next, Grow, Finished

-----------------------------------------------------------------------------
(* The end of a tree. *)

(* When the best candidate is refused, so is every other: what refuses it   *)
(* is its gain or the number of leaves.                                     *)
LEMMA RestRefused ==
  ASSUME IInv, DepthInv, NEW i \in DOMAIN queue, ~IsValid(queue[i], num_leaves),
         NEW j \in DOMAIN queue, Before(queue[i], queue[j])
  PROVE  ~IsValid(queue[j], num_leaves)
<1>1. CASE param.max_leaves > 0 /\ num_leaves = param.max_leaves
  BY <1>1 DEF IsValid
<1>2. CASE ~(queue[i].gain >= param.min_split_loss)
  <2>1. queue[i].gain \in Nat /\ queue[j].gain \in Nat
    <3>1. queue[i] \in Entries /\ queue[j] \in Entries
      BY QueueEntry
    <3> QED BY <3>1, GrowerAssumption DEF Entries
  <2>2. queue[j].gain <= queue[i].gain
    BY <2>1 DEF Before
  <2>3. param.min_split_loss \in Nat
    BY GrowerAssumption DEF IInv, TypeOK
  <2>4. ~(queue[j].gain >= param.min_split_loss)
    BY <1>2, <2>1, <2>2, <2>3
  <2> QED BY <2>4 DEF IsValid
<1> QED BY <1>1, <1>2, WhyRefused

(* Growth ends with no valid candidate waiting, but for those below a level *)
(* that was cut.                                                            *)
LEMMA EndNext ==
  IInv /\ DepthInv /\ OrderInv /\ CutInv /\ RefusedInv /\ EndInv /\ [Next]_vars => EndInv'
<1> SUFFICES ASSUME IInv, DepthInv, OrderInv, CutInv, RefusedInv, EndInv, [Next]_vars
             PROVE  EndInv'
  OBVIOUS
<1>0. param' = param
  BY DEF Next, Grow, Finished, InitRoot, PopNothing, PopBest, PopLevel, PopFront, PopEnd,
    ApplySplit, SplitAll, AllocBuild, BuildHists, AllocSubtract, SubtractHists,
    EvaluateSplits, ReleaseParents, Push, PushEnd, NextTree, ClearHist, ResetDone, vars
<1>1. ASSUME queue' = <<>> PROVE ExhaustsCandidates'
  BY <1>1 DEF ExhaustsCandidates, Elems
<1>3. ASSUME pc' # "done" PROVE ExhaustsCandidates'
  BY <1>3 DEF ExhaustsCandidates
<1>4. CASE PopNothing
  BY <1>0, <1>1, <1>4 DEF PopNothing, Popped, EndInv
<1>5. CASE PopBest
  <2>1. /\ pc = "pop" /\ pc' = IF expand_set' = <<>> THEN "done" ELSE "apply"
        /\ param.grow_policy = "LossGuide"
    BY <1>5 DEF PopBest, Popped
  <2>2. PICK i \in DOMAIN queue :
          /\ \A j \in DOMAIN queue : Before(queue[i], queue[j])
          /\ queue' = SubSeq(queue, 1, i - 1) \o SubSeq(queue, i + 1, Len(queue))
          /\ IF IsValid(queue[i], num_leaves)
             THEN expand_set' = <<queue[i]>> /\ num_leaves' = num_leaves + 1
             ELSE expand_set' = <<>> /\ num_leaves' = num_leaves
    BY <1>5 DEF PopBest
  <2>3. CASE IsValid(queue[i], num_leaves)
    <3>1. expand_set' # <<>>
      <4>1. expand_set' = <<queue[i]>>
        BY <2>2, <2>3
      <4>2. Len(expand_set') = 1
        BY <4>1
      <4> QED BY <4>2
    <3>2. pc' # "done" /\ pc' # "fill"
      BY <2>1, <3>1
    <3> QED BY <1>3, <3>2 DEF EndInv
  <2>4. CASE ~IsValid(queue[i], num_leaves)
    <3>1. /\ DOMAIN queue' = 1 .. Len(queue) - 1
          /\ \A j \in DOMAIN queue' : queue'[j] = IF j < i THEN queue[j] ELSE queue[j + 1]
      BY <2>2, TakeOut DEF IInv, TypeOK
    <3>2. Len(queue) \in Nat /\ DOMAIN queue = 1 .. Len(queue)
      BY DEF IInv, TypeOK
    <3>3. \A j \in DOMAIN queue' : \E k \in DOMAIN queue : queue'[j] = queue[k]
      BY <3>1, <3>2
    <3>4. \A k \in DOMAIN queue : ~IsValid(queue[k], num_leaves)
      BY <2>2, <2>4, RestRefused
    <3>5. \A j \in DOMAIN queue' : ~IsValid(queue'[j], num_leaves)
      BY <3>3, <3>4
    <3>6. num_leaves' = num_leaves /\ pc' = "done"
      BY <2>1, <2>2, <2>4
    <3>7. \A j \in DOMAIN queue' : ~IsValid(queue[j], num_leaves)'
      BY <1>0, <3>5, <3>6 DEF IsValid
    <3>8. ExhaustsCandidates'
      BY <3>7 DEF ExhaustsCandidates, Elems
    <3> QED BY <3>6, <3>8 DEF EndInv
  <2> QED BY <2>3, <2>4
<1>6. CASE PopLevel \/ PopFront
  BY <1>0, <1>3, <1>6 DEF PopLevel, PopFront, EndInv
<1>7. CASE PopEnd
  <2>1. /\ pc = "fill" /\ param.grow_policy = "DepthWise" /\ ~MorePop
        /\ UNCHANGED <<queue, level, num_leaves, tree, segments>>
        /\ pc' = IF expand_set = <<>> THEN "done" ELSE "apply"
    BY <1>7 DEF PopEnd, Popped, EndInv
  <2>2. CASE expand_set # <<>>
    BY <1>3, <2>1, <2>2 DEF EndInv
  <2>3. CASE expand_set = <<>>
    <3> SUFFICES ASSUME NEW j \in DOMAIN queue, IsValid(queue[j], num_leaves)
                 PROVE  CutAbove(queue[j])
      <4>1. ASSUME NEW e, CutAbove(e) PROVE CutAbove(e)'
        BY <1>0, <2>1, <4>1 DEF CutAbove, Expanded, Unexpanded, Leaves
      <4>2. ASSUME NEW e PROVE IsValid(e, num_leaves)' = IsValid(e, num_leaves)
        BY <1>0, <2>1 DEF IsValid
      <4>3. ExhaustsCandidates'
        BY <2>1, <4>1, <4>2 DEF ExhaustsCandidates, Elems
      <4> QED BY <2>1, <2>3, <4>3 DEF EndInv
    <3>1. /\ queue \in Seq(Entries) /\ level \in Nat /\ queue[j].depth \in Nat
          /\ param.batch_size \in Nat \ {0} /\ 1 \in DOMAIN queue /\ 1 <= j /\ queue # <<>>
      <4>1. queue \in Seq(Entries) /\ level \in Nat /\ param.batch_size \in Nat \ {0}
        BY GrowerAssumption DEF IInv, TypeOK
      <4>2. queue[j] \in Entries /\ 1 \in DOMAIN queue /\ 1 <= j /\ queue # <<>>
        BY <4>1
      <4> QED BY <4>1, <4>2 DEF Entries
    <3>2. queue[1].depth # level
      <4>1. Len(expand_set) < param.batch_size
        BY <2>3, <3>1
      <4> QED BY <2>1, <3>1, <4>1 DEF MorePop
    <3>3. /\ queue[1].depth \in {level, level + 1} /\ queue[j].depth \in {level, level + 1}
          /\ queue[1].depth <= queue[j].depth
      BY <2>1, <3>1 DEF OrderInv, BatchPhases
    <3>4. queue[j].depth # level /\ queue[j].depth - 1 = level
      BY <3>1, <3>2, <3>3
    <3>5. Cardinality(Expanded(level)) >= param.batch_size
      BY <2>1, <3>4 DEF CutInv
    <3>6. Unexpanded(level) # {}
      BY <2>1, <2>3 DEF RefusedInv
    <3>7. param.min_split_loss > 0
      <4>1. \/ param.min_split_loss > 0
            \/ param.max_leaves > 0 /\ num_leaves = param.max_leaves
        BY <2>1, <2>3, <3>2 DEF RefusedInv
      <4>2. ~(param.max_leaves > 0 /\ num_leaves = param.max_leaves)
        BY DEF IsValid
      <4> QED BY <4>1, <4>2
    <3> QED BY <2>1, <3>4, <3>5, <3>6, <3>7 DEF CutAbove
  <2> QED BY <2>2, <2>3
<1>8. CASE \/ InitRoot \/ ApplySplit \/ SplitAll \/ AllocBuild \/ BuildHists \/ AllocSubtract
           \/ SubtractHists \/ EvaluateSplits \/ ReleaseParents \/ Push \/ PushEnd
           \/ NextTree \/ ClearHist \/ ResetDone
  <2>1. pc' # "done" /\ pc' # "fill"
    BY <1>8 DEF InitRoot, ApplySplit, SplitAll, AllocBuild, BuildHists, AllocSubtract,
      SubtractHists, EvaluateSplits, ReleaseParents, Push, PushEnd, NextTree, ClearHist,
      ResetDone, Join
  <2> QED BY <1>3, <2>1 DEF EndInv
<1>9. CASE UNCHANGED vars
  <2>1. UNCHANGED <<pc, param, queue, num_leaves, tree, segments>>
    BY <1>9 DEF vars
  <2>2. ASSUME NEW e, CutAbove(e) PROVE CutAbove(e)'
    BY <2>1, <2>2 DEF CutAbove, Expanded, Unexpanded, Leaves
  <2>3. ASSUME NEW e PROVE IsValid(e, num_leaves)' = IsValid(e, num_leaves)
    BY <2>1 DEF IsValid
  <2> QED BY <2>1, <2>2, <2>3 DEF EndInv, ExhaustsCandidates, Elems
<1> QED BY <1>4, <1>5, <1>6, <1>7, <1>8, <1>9 DEF Next, Grow, Finished

-----------------------------------------------------------------------------
(* Where the rows are. *)

(* There is one way to route the rows down a tree: a node comes after its   *)
(* parent.                                                                  *)
LEMMA OneRoute ==
  ASSUME IInv, Parented, NEW f, NEW g, Routes(f), Routes(g)
  PROVE  \A n \in DOMAIN tree : f[n] = g[n]
<1> SUFFICES ASSUME NEW m \in DOMAIN tree, f[m] # g[m] PROVE FALSE
  OBVIOUS
<1> DEFINE T == {n \in DOMAIN tree : f[n] # g[n]}
<1>1. PICK n \in T : \A k \in T : n <= k
  <2>1. T \in SUBSET Nat /\ T # {}
    BY DEF IInv, TypeOK
  <2> HIDE DEF T
  <2> QED BY <2>1, LeastOf
<1>2. \A k \in DOMAIN tree :
        /\ k = 0 => f[k] = g[k]
        /\ k # 0 /\ f[tree[k].parent] = g[tree[k].parent] => f[k] = g[k]
  <2> SUFFICES ASSUME NEW k \in DOMAIN tree
               PROVE  /\ k = 0 => f[k] = g[k]
                      /\ k # 0 /\ f[tree[k].parent] = g[tree[k].parent] => f[k] = g[k]
    OBVIOUS
  <2> DEFINE p == tree[k].parent
  <2>1. /\ f[k] = IF k = 0 THEN Rows ELSE IF tree[p].left = k THEN f[p] \cap tree[p].rule
                                                             ELSE f[p] \ tree[p].rule
        /\ g[k] = IF k = 0 THEN Rows ELSE IF tree[p].left = k THEN g[p] \cap tree[p].rule
                                                             ELSE g[p] \ tree[p].rule
    BY DEF Routes
  <2> HIDE DEF p
  <2>2. /\ k = 0 => f[k] = g[k]
        /\ k # 0 /\ f[p] = g[p] => f[k] = g[k]
    BY <2>1
  <2> QED BY <2>2 DEF p
<1>3. n # 0 /\ n \in DOMAIN tree
  BY <1>1, <1>2
<1>4. tree[n].parent \in DOMAIN tree /\ tree[n].parent < n /\ n \in Nat
      /\ tree[n].parent \in Nat
  BY <1>3 DEF Parented, IInv, TypeOK
<1>5. tree[n].parent \notin T
  <2> HIDE DEF T
  <2> QED BY <1>1, <1>4
<1> QED BY <1>1, <1>2, <1>3, <1>4, <1>5

(* A live node holds the rows that the tree, as far as it has grown, sends  *)
(* there.                                                                   *)
LEMMA RoutingNext == IInv /\ Parented /\ RoutingInv /\ [Next]_vars => RoutingInv'
<1> SUFFICES ASSUME IInv, Parented, RoutingInv, [Next]_vars PROVE RoutingInv'
  OBVIOUS
<1>1. PICK f \in [DOMAIN tree -> SUBSET Rows] :
        Routes(f) /\ \A n \in DOMAIN segments : segments[n] = f[n]
  BY DEF RoutingInv
<1>r. ASSUME tree' = tree, \A n \in DOMAIN segments' : segments'[n] = f[n] PROVE RoutingInv'
  <2>1. f \in [DOMAIN tree' -> SUBSET Rows]
    BY <1>1, <1>r
  <2>2. Routes(f)'
    <3>1. Routes(f)
      BY <1>1
    <3> QED BY <1>r, <3>1 DEF Routes
  <2> QED BY <1>r, <2>1, <2>2 DEF RoutingInv
<1>2. CASE ApplySplit
  <2> DEFINE e == expand_set[at]
             x == expand_set[at].nid
             l == NumNodes
             g == [n \in DOMAIN tree' |-> IF n = l THEN f[x] \cap e.rule
                                          ELSE IF n = l + 1 THEN f[x] \ e.rule ELSE f[n]]
  <2>1. /\ x \in DOMAIN tree /\ l \in Nat \ {0} /\ l \notin DOMAIN tree /\ l + 1 \notin DOMAIN tree
        /\ DOMAIN tree' = DOMAIN tree \cup {l, l + 1}
        /\ \A n \in DOMAIN tree : n # x => tree'[n] = tree[n]
        /\ tree'[x].left = l /\ tree'[x].rule = e.rule /\ tree'[x].parent = tree[x].parent
        /\ tree'[l].parent = x /\ tree'[l + 1].parent = x
        /\ \A n \in DOMAIN tree : tree[n].parent # x
    BY <1>2, ApplyEffect DEF Leaf
  <2>2. segments' = segments /\ DOMAIN segments \subseteq DOMAIN tree
    BY <1>2 DEF ApplySplit, IInv, TypeOK
  <2> HIDE DEF x, l, e
  <2>3. g \in [DOMAIN tree' -> SUBSET Rows]
    BY <2>1
  <2>4. /\ g[l] = f[x] \cap e.rule /\ g[l + 1] = f[x] \ e.rule
        /\ \A n \in DOMAIN tree : g[n] = f[n]
    BY <2>1
  <2> HIDE DEF g
  <2>5. ASSUME NEW n \in DOMAIN tree'
        PROVE  g[n] = IF n = 0 THEN Rows
                      ELSE IF tree'[tree'[n].parent].left = n
                      THEN g[tree'[n].parent] \cap tree'[tree'[n].parent].rule
                      ELSE g[tree'[n].parent] \ tree'[tree'[n].parent].rule
    <3>1. CASE n = l
      <4>1. l # 0 /\ tree'[n].parent = x /\ tree'[x].left = n /\ tree'[x].rule = e.rule
        BY <2>1, <3>1
      <4>2. g[n] = f[x] \cap e.rule /\ g[x] = f[x]
        BY <2>1, <2>4, <3>1
      <4> QED BY <3>1, <4>1, <4>2
    <3>2. CASE n = l + 1
      <4>1. l + 1 # 0 /\ l + 1 # l /\ x \in DOMAIN tree
        BY <2>1
      <4>2. tree'[n].parent = x /\ tree'[x].left # n /\ tree'[x].rule = e.rule
        BY <2>1, <3>2, <4>1
      <4>3. g[n] = f[x] \ e.rule /\ g[x] = f[x]
        BY <2>4, <3>2, <4>1
      <4> QED BY <3>2, <4>1, <4>2, <4>3
    <3>3. CASE n \in DOMAIN tree
      <4>1. f[n] = IF n = 0 THEN Rows
                   ELSE IF tree[tree[n].parent].left = n
                   THEN f[tree[n].parent] \cap tree[tree[n].parent].rule
                   ELSE f[tree[n].parent] \ tree[tree[n].parent].rule
        BY <1>1, <3>3 DEF Routes
      <4>2. CASE n = 0
        BY <2>4, <3>3, <4>1, <4>2
      <4>3. CASE n # 0
        <5>1. tree[n].parent \in DOMAIN tree /\ tree[n].parent # x
          BY <2>1, <3>3, <4>3 DEF Parented
        <5>2. tree'[n].parent = tree[n].parent /\ tree'[tree[n].parent] = tree[tree[n].parent]
          BY <2>1, <3>3, <5>1
        <5> QED BY <2>4, <3>3, <4>1, <4>3, <5>1, <5>2
      <4> QED BY <4>2, <4>3
    <3> QED BY <2>1, <3>1, <3>2, <3>3
  <2>7. \A n \in DOMAIN segments' : segments'[n] = g[n]
    BY <1>1, <2>2, <2>4
  <2> QED BY <2>3, <2>5, <2>7 DEF RoutingInv, Routes
<1>3. CASE SplitAll
  <2>1. PICK i \in todo : PartitionTask(i)
    BY <1>3 DEF SplitAll
  <2>2. pc = "partition" /\ i \in DOMAIN expand_set /\ tree' = tree
    BY <1>3, <2>1 DEF SplitAll, IInv, ControlInv
  <2> DEFINE n == expand_set[i].nid
             l == tree[n].left
             r == tree[n].right
  <2>3. /\ n \in DOMAIN tree /\ l \in DOMAIN tree /\ r \in DOMAIN tree /\ l # r
        /\ tree[l].parent = n /\ tree[r].parent = n /\ n \in DOMAIN segments
        /\ DOMAIN segments' = (DOMAIN segments \ {n}) \cup {l, r}
        /\ segments'[l] = segments[n] \cap tree[n].rule
        /\ segments'[r] = segments[n] \ tree[n].rule
        /\ \A m \in DOMAIN segments \ {n} : m \in DOMAIN segments' /\ segments'[m] = segments[m]
    BY <2>1, <2>2, PartitionEffect
  <2> HIDE DEF n, l, r
  <2>4. l # 0 /\ r # 0
    <3>1. n # None
      <4>1. n \in DOMAIN tree
        BY <2>3
      <4> QED BY <4>1 DEF IInv, TypeOK, None
    <3> QED BY <2>3, <3>1 DEF Parented
  <2>5. segments'[l] = f[l] /\ segments'[r] = f[r]
    <3>1. tree[n].left = l
      BY DEF l
    <3>2. f[l] = f[n] \cap tree[n].rule
      BY <1>1, <2>3, <2>4, <3>1 DEF Routes
    <3>3. f[r] = f[n] \ tree[n].rule
      BY <1>1, <2>3, <2>4, <3>1 DEF Routes
    <3> QED BY <1>1, <2>3, <3>2, <3>3
  <2>6. \A m \in DOMAIN segments' : segments'[m] = f[m]
    BY <1>1, <2>3, <2>5
  <2> QED BY <1>1, <1>r, <2>2, <2>6
<1>4. CASE NextTree
  <2>1. tree' = RootTree /\ segments' = RootSegments
    BY <1>4 DEF NextTree
  <2> DEFINE g == [n \in {0} |-> Rows]
  <2>2. /\ DOMAIN tree' = {0} /\ DOMAIN segments' = {0} /\ segments'[0] = Rows
    BY <2>1 DEF RootTree, RootSegments
  <2>3. g \in [DOMAIN tree' -> SUBSET Rows] /\ \A n \in DOMAIN segments' : segments'[n] = g[n]
    BY <2>2
  <2>4. \A n \in DOMAIN tree' : n = 0 /\ g[n] = Rows
    BY <2>2
  <2> HIDE DEF g
  <2> QED BY <2>3, <2>4 DEF RoutingInv, Routes
<1>5. CASE UNCHANGED <<tree, segments>>
  BY <1>1, <1>r, <1>5
<1>6. \/ ApplySplit \/ SplitAll \/ NextTree \/ UNCHANGED <<tree, segments>>
  BY DEF Next, Grow, Finished, InitRoot, PopNothing, PopBest, PopLevel, PopFront, PopEnd,
    AllocBuild, BuildHists, AllocSubtract, SubtractHists, EvaluateSplits, ReleaseParents,
    Push, PushEnd, ClearHist, ResetDone, vars
<1> QED BY <1>2, <1>3, <1>4, <1>5, <1>6

-----------------------------------------------------------------------------
(* The theorems. *)

(* The root alone, with nothing queued, satisfies every part.               *)
LEMMA InitGInv == Init => GInv
<1> SUFFICES ASSUME Init PROVE GInv
  OBVIOUS
<1>1. /\ pc = "root" /\ tree = RootTree /\ segments = RootSegments /\ param \in Params
      /\ DOMAIN hist = {} /\ queue = <<>> /\ expand_set = <<>> /\ valid = <<>> /\ best = <<>>
      /\ num_leaves = 1
  BY DEF Init
<1>2. DOMAIN tree = {0} /\ tree[0] = Leaf(None, 0) /\ DOMAIN segments = {0} /\ segments[0] = Rows
  BY <1>1 DEF RootTree, RootSegments
<1>3. LiveInv /\ Parented
  <2>1. Pending = {}
    BY <1>1 DEF Pending
  <2> QED BY <1>1, <2>1, FreshLive
<1>4. OwnersInv
  BY <1>1 DEF OwnersInv
<1>5. LeavesInv
  BY <1>1, GrowerAssumption DEF LeavesInv
<1>6. DepthInv
  BY <1>1, <1>2, GrowerAssumption DEF DepthInv, Leaf
<1>7. OrderInv /\ CutInv /\ RefusedInv
  BY <1>1 DEF OrderInv, CutInv, RefusedInv, BatchPhases, Working
<1>8. RoutingInv
  <2> DEFINE f == [n \in {0} |-> Rows]
  <2>1. f \in [DOMAIN tree -> SUBSET Rows] /\ \A n \in DOMAIN segments : segments[n] = f[n]
    BY <1>2
  <2>2. \A n \in DOMAIN tree : n = 0 /\ f[n] = Rows
    BY <1>2
  <2> HIDE DEF f
  <2> QED BY <2>1, <2>2 DEF RoutingInv, Routes
<1>9. EndInv
  BY <1>1 DEF EndInv, ExhaustsCandidates
<1> QED BY <1>3, <1>4, <1>5, <1>6, <1>7, <1>8, <1>9 DEF GInv

(* Every step preserves every part.                                         *)
LEMMA NextGInv == IInv /\ GInv /\ [Next]_vars => GInv'
BY LiveNext, OwnersNext, LeavesNext, DepthNext, OrderNext, CutNext,
  RefusedNext, RoutingNext, EndNext DEF GInv

(* The invariants of growth hold throughout training.                       *)
THEOREM GrowthInvariance == Spec => [](IInv /\ GInv)
<1>1. Init => IInv /\ GInv
  BY InitIInv, InitGInv
<1>2. IInv /\ GInv /\ [Next]_vars => (IInv /\ GInv)'
  BY NextIInv, NextGInv
<1> QED BY <1>1, <1>2, PTL DEF Spec

(* Between batches only leaves own histograms, whichever of the batch's     *)
(* candidates had their children looked at.                                 *)
THEOREM DeadReleased == Spec => []NoDeadHistogram
<1>1. IInv /\ GInv => NoDeadHistogram
  <2> SUFFICES ASSUME IInv, GInv, pc \in {"pop", "done"}, NEW n \in DOMAIN hist
               PROVE  n \in Leaves
    BY DEF NoDeadHistogram
  <2>1. \A i \in DOMAIN expand_set : ~Owner(i)
    BY DEF Owner, Working
  <2> QED BY <2>1 DEF GInv, OwnersInv, Leaves
<1> QED BY <1>1, GrowthInvariance, PTL

(* A finished tree has the leaves that were counted ahead of its batches,   *)
(* no more than max_leaves and none deeper than max_depth.                  *)
THEOREM WithinLimits == Spec => []LimitsRespected
<1>1. IInv /\ GInv => LimitsRespected
  <2> SUFFICES ASSUME IInv, GInv, pc = "done"
               PROVE  /\ num_leaves = Cardinality(Leaves)
                      /\ param.max_leaves > 0 => num_leaves <= param.max_leaves
                      /\ param.max_depth > 0 =>
                           \A n \in Leaves : tree[n].depth <= param.max_depth
    BY DEF LimitsRespected
  <2>1. num_leaves = Cardinality(Leaves)
    <3>1. num_leaves = Cardinality(Leaves) + 0
      BY DEF GInv, LeavesInv, Ahead
    <3>2. num_leaves \in Nat
      BY DEF IInv, TypeOK
    <3>3. Cardinality(Leaves) \in Nat
      <4>1. IsFiniteSet(DOMAIN tree)
        BY FS_Interval DEF IInv, TypeOK
      <4>2. Leaves \subseteq DOMAIN tree
        BY DEF Leaves
      <4> QED BY <4>1, <4>2, FS_Subset, FS_CardinalityType
    <3> QED BY <3>1, <3>3
  <2>2. param.max_depth > 0 => \A n \in Leaves : tree[n].depth <= param.max_depth
    BY DEF GInv, DepthInv, Leaves
  <2> QED BY <2>1, <2>2 DEF GInv, LeavesInv
<1> QED BY <1>1, GrowthInvariance, PTL

(* Depth-wise growth never expands a candidate while a shallower one that   *)
(* is still valid waits.                                                    *)
THEOREM LevelByLevel == Spec => []BreadthFirst
<1>1. IInv /\ GInv => BreadthFirst
  <2> SUFFICES ASSUME IInv, GInv, pc = "apply", param.grow_policy = "DepthWise",
                      NEW i \in DOMAIN expand_set, NEW j \in DOMAIN queue,
                      queue[j].depth < expand_set[i].depth
               PROVE  FALSE
    BY DEF BreadthFirst, Elems
  <2>1. "apply" \in BatchPhases
    BY DEF BatchPhases
  <2>2. queue[j].depth \in {level, level + 1} /\ expand_set[i].depth = level
    BY <2>1 DEF GInv, OrderInv
  <2>3. level \in Nat
    BY DEF IInv, TypeOK
  <2> QED BY <2>2, <2>3
<1> QED BY <1>1, GrowthInvariance, PTL

(* Loss-guided growth ends with no valid candidate waiting.  Depth-wise     *)
(* growth leaves one only below a level of more candidates than a batch     *)
(* takes, a full batch of which was expanded and the rest refused for their *)
(* gain: there the batch was empty and ended the tree.                      *)
THEOREM NothingLeft == Spec => []ExhaustsCandidates
<1>1. IInv /\ GInv => ExhaustsCandidates
  BY DEF GInv, EndInv
<1> QED BY <1>1, GrowthInvariance, PTL

(* The score a training row gets from the row sets is the one a traversal   *)
(* of the finished tree gives.                                              *)
THEOREM ScoresAgree == Spec => []ScoresMatchTraversal
<1>1. IInv /\ GInv => ScoresMatchTraversal
  <2> SUFFICES ASSUME IInv, GInv, pc = "done", NEW r \in Rows
               PROVE  UpdatePredictions(r) = {n \in Leaves : r \in Routed[n]}
    BY DEF ScoresMatchTraversal
  <2>1. PICK f \in [DOMAIN tree -> SUBSET Rows] :
          Routes(f) /\ \A n \in DOMAIN segments : segments[n] = f[n]
    BY DEF GInv, RoutingInv
  <2>2. \A n \in DOMAIN tree : Routed[n] = f[n]
    <3> DEFINE Eq(g) == g = [n \in DOMAIN tree |->
                  IF n = 0 THEN Rows
                  ELSE LET p == tree[n].parent
                       IN IF tree[p].left = n THEN g[p] \cap tree[p].rule
                                              ELSE g[p] \ tree[p].rule]
    <3>1. Eq(f)
      BY <2>1 DEF Routes
    <3>2. Routed = CHOOSE g : Eq(g)
      BY DEF Routed
    <3> HIDE DEF Eq
    <3>3. Eq(Routed)
      BY <3>1, <3>2
    <3>4. Routes(Routed)
      BY <3>3 DEF Eq, Routes
    <3> QED BY <2>1, <3>4, OneRoute DEF GInv
  <2>3. DOMAIN segments = Leaves
    <3>1. Pending = {}
      BY DEF Pending
    <3>2. DOMAIN segments \subseteq DOMAIN tree
      BY DEF IInv, TypeOK
    <3> QED BY <3>1, <3>2 DEF GInv, LiveInv, Leaves
  <2>4. \A n \in Leaves : segments[n] = Routed[n]
    BY <2>1, <2>2, <2>3 DEF Leaves
  <2> QED BY <2>3, <2>4 DEF UpdatePredictions
<1> QED BY <1>1, GrowthInvariance, PTL
=============================================================================
