-------------------------- MODULE TreeGrowerProofs ---------------------------
(***************************************************************************)
(* Proofs about TreeGrower for every set of rows, every setting and every  *)
(* bound: the histogram of a node that may still be expanded counts its    *)
(* rows, the row sets of the live nodes partition the rows, and each step  *)
(* of the grower is a step of LeafSplitting.                               *)
(*                                                                         *)
(* HistMatchesRows alone is not inductive.  The histogram of a subtracted  *)
(* child is right because its parent's histogram was right before the rows *)
(* moved and has not been touched since, and because its sibling's is      *)
(* complete; and no task disturbs another because the nodes they write are *)
(* children of different members of the batch.  IInv says so phase by      *)
(* phase.                                                                  *)
(***************************************************************************)
EXTENDS TreeGrower, TLAPS, FiniteSetTheorems, SequenceTheorems

Ids(s) == {s[i].nid : i \in DOMAIN s}
Distinct(s) == \A i, j \in DOMAIN s : s[i].nid = s[j].nid => i = j

(* Children are listed by their parents and name them.                      *)
TreeShape ==
  \A n \in DOMAIN tree :
    /\ tree[n].left # None =>
         /\ tree[n].left \in DOMAIN tree /\ tree[n].right \in DOMAIN tree
         /\ tree[n].left # tree[n].right
         /\ tree[tree[n].left].parent = n /\ tree[tree[n].right].parent = n
    /\ tree[n].parent # None =>
         /\ tree[n].parent \in DOMAIN tree
         /\ tree[tree[n].parent].left # None

(* The live nodes share all the rows out between them.                     *)
SegmentsInv ==
  /\ DOMAIN segments \subseteq DOMAIN tree
  /\ \A n \in DOMAIN segments : segments[n] # {} /\ segments[n] \subseteq Rows
  /\ \A m, n \in DOMAIN segments : m # n => segments[m] \cap segments[n] = {}
  /\ \A r \in Rows : \E n \in DOMAIN segments : r \in segments[n]
  /\ \A n \in DOMAIN segments :
       tree[n].left # None => /\ tree[n].left \notin DOMAIN segments
                              /\ tree[n].right \notin DOMAIN segments

(* Facts about one node or candidate take the tree, the row sets and the    *)
(* histograms as arguments, so that they can be moved from state to state.  *)

(* The histogram of node n counts its rows.                                *)
Good(n, sg, hs) ==
  /\ n \in DOMAIN hs /\ n \in DOMAIN sg
  /\ hs[n] = Counts(sg[n])

(* An unexpanded leaf whose histogram is right and whose split, if it has  *)
(* one, gives rows to both sides.                                          *)
Candidate(e, tr, sg, hs) ==
  /\ Good(e.nid, sg, hs)
  /\ tr[e.nid].left = None
  /\ e.gain > 0 => e.rule # {} /\ e.rule \subseteq sg[e.nid] /\ e.rule # sg[e.nid]

LeafChildren(n, tr) ==
  /\ n \in DOMAIN tr
  /\ tr[n].left # None
  /\ tr[tr[n].left].left = None /\ tr[tr[n].right].left = None

(* Expanded in the tree, its rows not yet dealt out.                       *)
Applied(e, tr, sg, hs) ==
  /\ LeafChildren(e.nid, tr)
  /\ Good(e.nid, sg, hs)
  /\ tr[e.nid].rule # {} /\ tr[e.nid].rule \subseteq sg[e.nid]
  /\ tr[e.nid].rule # sg[e.nid]

(* Its rows are with its children.                                         *)
Divided(e, tr, sg) ==
  /\ LeafChildren(e.nid, tr)
  /\ tr[e.nid].left \in DOMAIN sg /\ tr[e.nid].right \in DOMAIN sg

(* The histogram of an expanded node still counts the rows of both sides.  *)
ParentHist(e, tr, sg, hs) ==
  /\ e.nid \in DOMAIN hs
  /\ hs[e.nid] = Counts(sg[tr[e.nid].left] \cup sg[tr[e.nid].right])

QueueInv ==
  /\ Distinct(queue)
  /\ \A i \in DOMAIN queue : Candidate(queue[i], tree, segments, hist) /\ queue[i].gain > 0
  /\ \A i \in DOMAIN queue, j \in DOMAIN expand_set :
       /\ queue[i].nid # expand_set[j].nid
       /\ pc # "push" => tree[queue[i].nid].parent # expand_set[j].nid
  /\ \A i \in DOMAIN queue, j \in DOMAIN best :
       queue[i].nid = best[j].nid => pc = "push" /\ j < at

Working == {"alloc_build", "build", "alloc_subtract", "subtract", "evaluate"}

BatchInv ==
  /\ Distinct(expand_set)
  /\ \A i, j \in DOMAIN expand_set : tree[expand_set[i].nid].parent # expand_set[j].nid
  /\ \A i \in DOMAIN expand_set :
       /\ pc = "fill" \/ (pc = "apply" /\ i >= at) =>
            Candidate(expand_set[i], tree, segments, hist) /\ expand_set[i].gain > 0
       /\ (pc = "apply" /\ i < at) \/ (pc = "partition" /\ i \in todo) =>
            Applied(expand_set[i], tree, segments, hist)
       /\ (pc = "partition" /\ i \notin todo) \/ pc \in Working \cup {"release", "push"} =>
            Divided(expand_set[i], tree, segments)
       /\ (pc = "partition" /\ i \notin todo) \/ pc \in Working =>
            ParentHist(expand_set[i], tree, segments, hist)
  /\ Distinct(valid)
  /\ \A j \in DOMAIN valid : \E i \in DOMAIN expand_set :
       valid[j] = expand_set[i] /\ (pc = "apply" => i < at)

PlanInv ==
  /\ \A j \in DOMAIN plan :
       /\ j \in DOMAIN valid
       /\ LET node == tree[valid[j].nid]
          IN /\ plan[j].parent = valid[j].nid
             /\ \/ plan[j].built = node.left /\ plan[j].subtracted = node.right
                \/ plan[j].built = node.right /\ plan[j].subtracted = node.left
       /\ pc \in Working => plan[j].built \in DOMAIN hist
       /\ (pc = "build" /\ j \notin todo) \/ pc \in {"alloc_subtract", "subtract", "evaluate"} =>
            hist[plan[j].built] = Counts(segments[plan[j].built])
       /\ (pc = "alloc_subtract" /\ j < at) \/ pc \in {"subtract", "evaluate"} =>
            plan[j].subtracted \in DOMAIN hist
       /\ (pc = "subtract" /\ j \notin todo) \/ pc = "evaluate" =>
            hist[plan[j].subtracted] = Counts(segments[plan[j].subtracted])

BestInv ==
  /\ Distinct(best)
  /\ \A i \in DOMAIN best :
       /\ Candidate(best[i], tree, segments, hist)
       /\ \E k \in DOMAIN valid : /\ tree[best[i].nid].parent = valid[k].nid
                                  /\ pc = "evaluate" => k < at

(* Where the loops stand and what is empty between batches.                *)
ControlInv ==
  /\ pc \in {"root", "pop", "done", "reset"} => expand_set = <<>>
  /\ pc \in {"root", "pop", "done", "reset", "fill"} => valid = <<>>
  /\ pc \in {"root", "pop", "done", "reset", "fill", "apply", "partition"} => plan = <<>>
  /\ pc \notin {"evaluate", "release", "push"} => best = <<>>
  /\ pc \in {"apply", "release"} => at <= Len(expand_set)
  /\ pc \in {"alloc_build", "alloc_subtract", "evaluate"} => at <= Len(valid)
  /\ pc = "partition" => todo \subseteq DOMAIN expand_set
  /\ pc \in {"build", "subtract"} => todo \subseteq DOMAIN plan
  /\ pc \in {"partition", "build", "subtract"} => at = 1
  /\ pc = "alloc_build" => Len(plan) = at - 1
  /\ pc \in {"build", "alloc_subtract", "subtract", "evaluate"} => Len(plan) = Len(valid)
  /\ pc \in {"root", "reset"} => /\ tree = RootTree /\ segments = RootSegments
                                 /\ queue = <<>>

IInv ==
  /\ TypeOK /\ TreeShape /\ SegmentsInv /\ QueueInv
  /\ BatchInv /\ PlanInv /\ BestInv /\ ControlInv

-----------------------------------------------------------------------------
(* Histograms as counts. *)

(* Subtracting the counts of one side of a split leaves those of the other. *)
LEMMA SubtractCounts ==
  ASSUME NEW A, NEW B, A \cap B = {}
  PROVE  Difference(Counts(A \cup B), Counts(B)) = Counts(A)
BY DEF Difference, Counts

(* A histogram built from rows has the type of a histogram, and its rows    *)
(* are the ones it counts.                                                  *)
LEMMA CountsType ==
  ASSUME NEW A
  PROVE  /\ Counts(A) \in [Rows -> Int]
         /\ {r \in Rows : Counts(A)[r] # 0} = A \cap Rows
BY DEF Counts

(* A subtracted histogram is a histogram.                                   *)
LEMMA DifferenceType ==
  ASSUME NEW p \in [Rows -> Int], NEW b \in [Rows -> Int]
  PROVE  Difference(p, b) \in [Rows -> Int]
BY DEF Difference

(* A split found in the histogram of a node separates that node's rows.     *)
LEMMA SplitsSeparate ==
  ASSUME NEW A \in SUBSET Rows, NEW s \in Splits(Counts(A))
  PROVE  /\ s \in [gain : 0 .. MaxGain, rule : SUBSET Rows]
         /\ s.gain > 0 => s.rule # {} /\ s.rule \subseteq A /\ s.rule # A
BY CountsType, GrowerAssumption DEF Splits

(* Allocation gives the node a buffer and leaves the others alone.          *)
LEMMA AllocateEffect ==
  ASSUME TypeOK, NEW n \in Nat, Allocate(n)
  PROVE  /\ DOMAIN hist' = DOMAIN hist \cup {n}
         /\ \A m \in DOMAIN hist : hist'[m] = hist[m]
         /\ DOMAIN hist' \subseteq Nat
         /\ \A m \in DOMAIN hist' : hist'[m] \in [Rows -> Int]
         /\ free' \in Seq([Rows -> Int]) /\ Len(free') <= MaxCached
<1>1. CASE n \in DOMAIN hist
  BY <1>1 DEF Allocate, TypeOK
<1>2. CASE n \notin DOMAIN hist /\ free = <<>>
  BY <1>2 DEF Allocate, TypeOK, Put, Zero
<1>3. CASE n \notin DOMAIN hist /\ free # <<>>
  <2> DEFINE v == free[Len(free)]
  <2>1. free \in Seq([Rows -> Int]) /\ Len(free) <= MaxCached /\ MaxCached \in Nat
    BY GrowerAssumption DEF TypeOK
  <2>2. v \in [Rows -> Int]
    BY <1>3, <2>1
  <2>3. hist' = Put(hist, n, v) /\ free' = SubSeq(free, 1, Len(free) - 1)
    BY <1>3 DEF Allocate
  <2>4. free' \in Seq([Rows -> Int]) /\ Len(free') <= MaxCached
    BY <1>3, <2>1, <2>3, SubSeqProperties
  <2>5. DOMAIN hist \subseteq Nat /\ \A m \in DOMAIN hist : hist[m] \in [Rows -> Int]
    BY DEF TypeOK
  <2> HIDE DEF v
  <2> QED BY <1>3, <2>2, <2>3, <2>4, <2>5 DEF Put
<1> QED BY <1>1, <1>2, <1>3

(* Release takes the buffer from the node and leaves the others alone.      *)
LEMMA ReleaseEffect ==
  ASSUME TypeOK, NEW n, Release(n)
  PROVE  /\ DOMAIN hist' = DOMAIN hist \ {n}
         /\ \A m \in DOMAIN hist' : hist'[m] = hist[m]
         /\ DOMAIN hist' \subseteq Nat
         /\ \A m \in DOMAIN hist' : hist'[m] \in [Rows -> Int]
         /\ free' \in Seq([Rows -> Int]) /\ Len(free') <= MaxCached
<1>1. /\ DOMAIN hist' = DOMAIN hist \ {n}
      /\ \A m \in DOMAIN hist' : hist'[m] = hist[m]
  BY DEF Release, Drop
<1>2. free' \in Seq([Rows -> Int]) /\ Len(free') <= MaxCached
  <2>1. free \in Seq([Rows -> Int]) /\ Len(free) <= MaxCached /\ MaxCached \in Nat
    BY GrowerAssumption DEF TypeOK
  <2>2. CASE n \in DOMAIN hist /\ Len(free) < MaxCached
    <3>1. free' = Append(free, hist[n]) /\ hist[n] \in [Rows -> Int]
      BY <2>2 DEF Release, TypeOK
    <3> QED BY <2>1, <2>2, <3>1
  <2>3. CASE ~(n \in DOMAIN hist /\ Len(free) < MaxCached)
    <3>1. free' = free
      BY <2>3 DEF Release
    <3> QED BY <2>1, <3>1
  <2> QED BY <2>2, <2>3
<1> QED BY <1>1, <1>2 DEF TypeOK

-----------------------------------------------------------------------------
(* The inductive invariant, action by action. *)

(* The root alone, with no histogram, satisfies the invariant.              *)
LEMMA InitIInv == Init => IInv
<1> SUFFICES ASSUME Init PROVE IInv
  OBVIOUS
<1>1. NumNodes = 1
  <2>1. DOMAIN tree = {0}
    BY DEF Init, RootTree
  <2> QED BY <2>1, FS_Singleton DEF NumNodes
<1>2. TypeOK
  BY <1>1, GrowerAssumption DEF Init, TypeOK, Phases, RootTree, RootSegments, Leaf, None
<1>3. TreeShape
  BY DEF Init, TreeShape, RootTree, Leaf
<1>4. SegmentsInv
  BY GrowerAssumption DEF Init, SegmentsInv, RootTree, RootSegments, Leaf
<1>5. QueueInv /\ BatchInv /\ PlanInv /\ BestInv
  BY DEF Init, QueueInv, BatchInv, PlanInv, BestInv, Distinct, Working
<1>6. ControlInv
  BY DEF Init, ControlInv
<1> QED BY <1>2, <1>3, <1>4, <1>5, <1>6 DEF IInv

(* Steps that move neither rows nor nodes keep the shape of both.           *)
LEMMA SameTree ==
  ASSUME TreeShape, SegmentsInv, UNCHANGED <<tree, segments>>
  PROVE  TreeShape' /\ SegmentsInv'
BY DEF TreeShape, SegmentsInv

(* init_root: the root gets a histogram of all rows and may wait in the queue. *)
LEMMA InitRootStep == IInv /\ InitRoot => IInv'
<1> SUFFICES ASSUME IInv, InitRoot PROVE IInv'
  OBVIOUS
<1>1. /\ pc = "root" /\ pc' = "pop"
      /\ UNCHANGED <<param, trees, tree, segments, level, expand_set, valid, plan, best, at, todo>>
  BY DEF InitRoot
<1>2. /\ tree = RootTree /\ segments = RootSegments /\ queue = <<>>
      /\ expand_set = <<>> /\ valid = <<>> /\ plan = <<>> /\ best = <<>>
  BY <1>1 DEF IInv, ControlInv
<1>3. /\ segments[0] = Rows /\ 0 \in DOMAIN segments /\ 0 \in DOMAIN tree
      /\ tree[0] = Leaf(None, 0)
  BY <1>2 DEF RootTree, RootSegments
<1>4. hist' = Put(hist, 0, Counts(Rows))
  BY <1>3 DEF InitRoot
<1>5. /\ DOMAIN hist' \subseteq Nat /\ 0 \in DOMAIN hist' /\ hist'[0] = Counts(Rows)
      /\ \A n \in DOMAIN hist' : hist'[n] \in [Rows -> Int]
  BY <1>4, CountsType DEF Put, IInv, TypeOK
<1>6. free' \in Seq([Rows -> Int]) /\ Len(free') <= MaxCached
  <2>1. free \in Seq([Rows -> Int]) /\ Len(free) <= MaxCached /\ MaxCached \in Nat
    BY GrowerAssumption DEF IInv, TypeOK
  <2>2. CASE free = <<>>
    BY <2>1, <2>2 DEF InitRoot
  <2>3. CASE free # <<>>
    <3>1. free' = SubSeq(free, 1, Len(free) - 1)
      BY <2>3 DEF InitRoot
    <3> QED BY <2>1, <2>3, <3>1, SubSeqProperties
  <2> QED BY <2>2, <2>3
<1>7. PICK s \in Splits(Counts(Rows)) :
        queue' = IF s.gain > 0 THEN <<Entry(0, s)>> ELSE <<>>
  BY <1>5 DEF InitRoot
<1>8. /\ s \in [gain : 0 .. MaxGain, rule : SUBSET Rows]
      /\ s.gain > 0 => s.rule # {} /\ s.rule \subseteq Rows /\ s.rule # Rows
  BY SplitsSeparate
<1> DEFINE e == [nid |-> 0, depth |-> 0, gain |-> s.gain, rule |-> s.rule]
<1>9. /\ e \in Entries /\ e.nid = 0 /\ e.gain = s.gain /\ e.rule = s.rule
      /\ Entry(0, s) = e
  BY <1>3, <1>8 DEF Entry, Entries, Leaf
<1>10. queue' = <<>> \/ (queue' = <<e>> /\ e.gain > 0)
  BY <1>7, <1>9
<1> HIDE DEF e
<1>11. TypeOK'
  <2>1. <<e>> \in Seq(Entries)
    BY <1>9
  <2>2. num_leaves' = 1
    BY DEF InitRoot
  <2>3. queue' \in Seq(Entries)
    <3>1. <<>> \in Seq(Entries)
      OBVIOUS
    <3> QED BY <1>10, <2>1, <3>1, Zenon
  <2>4. pc' \in Phases /\ num_leaves' \in Nat \ {0}
    BY <1>1, <2>2 DEF Phases
  <2> QED BY <1>1, <1>5, <1>6, <2>3, <2>4 DEF IInv, TypeOK, NumNodes
<1>12. TreeShape' /\ SegmentsInv'
  BY <1>1, SameTree DEF IInv
<1>13. QueueInv'
  <2>1. expand_set' = <<>> /\ best' = <<>>
    BY <1>1, <1>2
  <2>2. (Candidate(e, tree', segments', hist') /\ e.gain > 0) \/ queue' = <<>>
    BY <1>1, <1>2, <1>3, <1>5, <1>8, <1>9, <1>10 DEF Candidate, Good, Leaf
  <2> QED BY <1>10, <2>1, <2>2 DEF QueueInv, Distinct, Candidate, Good
<1>14. BatchInv' /\ PlanInv' /\ BestInv'
  BY <1>1, <1>2 DEF BatchInv, PlanInv, BestInv, Distinct, Working
<1>15. ControlInv'
  BY <1>1, <1>2 DEF ControlInv
<1> QED BY <1>11, <1>12, <1>13, <1>14, <1>15 DEF IInv

(* An empty queue ends the tree.                                            *)
LEMMA PopNothingStep == IInv /\ PopNothing => IInv'
<1> SUFFICES ASSUME IInv, PopNothing PROVE IInv'
  OBVIOUS
<1>1. /\ pc = "pop" /\ pc' = "done" /\ at' = 1 /\ expand_set' = <<>>
      /\ UNCHANGED <<param, trees, tree, segments, hist, free, queue, level,
                     num_leaves, valid, plan, best, todo>>
  BY DEF PopNothing, Popped
<1>2. expand_set = <<>> /\ valid = <<>> /\ plan = <<>> /\ best = <<>>
  BY <1>1 DEF IInv, ControlInv
<1>3. TypeOK'
  BY <1>1 DEF IInv, TypeOK, Phases, NumNodes
<1>4. TreeShape' /\ SegmentsInv'
  BY <1>1, SameTree DEF IInv
<1>5. QueueInv'
  BY <1>1, <1>2 DEF IInv, QueueInv, Distinct, Candidate, Good
<1>6. BatchInv' /\ PlanInv' /\ BestInv'
  BY <1>1, <1>2 DEF BatchInv, PlanInv, BestInv, Distinct, Working
<1>7. ControlInv'
  BY <1>1, <1>2 DEF ControlInv
<1> QED BY <1>3, <1>4, <1>5, <1>6, <1>7 DEF IInv

(* Taking one element out of a sequence.                                    *)
LEMMA TakeOut ==
  ASSUME NEW S, NEW q \in Seq(S), NEW i \in DOMAIN q
  PROVE  LET t == SubSeq(q, 1, i - 1) \o SubSeq(q, i + 1, Len(q))
         IN /\ t \in Seq(S)
            /\ DOMAIN t = 1 .. Len(q) - 1
            /\ \A j \in DOMAIN t : t[j] = IF j < i THEN q[j] ELSE q[j + 1]
<1> DEFINE a == SubSeq(q, 1, i - 1)
           b == SubSeq(q, i + 1, Len(q))
<1>1. i \in 1 .. Len(q) /\ Len(q) \in Nat
  OBVIOUS
<1>2. a \in Seq(S) /\ Len(a) = i - 1 /\ \A j \in 1 .. i - 1 : a[j] = q[j]
  BY <1>1, SubSeqProperties
<1>3. b \in Seq(S) /\ Len(b) = Len(q) - i /\ \A j \in 1 .. Len(q) - i : b[j] = q[i + j]
  BY <1>1, SubSeqProperties
<1>4. /\ a \o b \in Seq(S) /\ Len(a \o b) = Len(q) - 1
      /\ \A j \in 1 .. Len(q) - 1 : (a \o b)[j] = IF j <= i - 1 THEN a[j] ELSE b[j - (i - 1)]
  <2> HIDE DEF a, b
  <2>1. a \in Seq(S) /\ b \in Seq(S)
    BY <1>2, <1>3
  <2>2. /\ a \o b \in Seq(S) /\ Len(a \o b) = Len(a) + Len(b)
        /\ \A j \in 1 .. Len(a) + Len(b) :
             (a \o b)[j] = IF j <= Len(a) THEN a[j] ELSE b[j - Len(a)]
    BY <2>1, ConcatProperties
  <2>3. Len(a) = i - 1 /\ Len(a) + Len(b) = Len(q) - 1
    BY <1>1, <1>2, <1>3
  <2> QED BY <2>2, <2>3
<1>5. ASSUME NEW j \in 1 .. Len(q) - 1
      PROVE  (a \o b)[j] = IF j < i THEN q[j] ELSE q[j + 1]
  <2> HIDE DEF a, b
  <2>1. (a \o b)[j] = IF j <= i - 1 THEN a[j] ELSE b[j - (i - 1)]
    BY <1>4
  <2>2. CASE j <= i - 1
    BY <1>1, <1>2, <2>1, <2>2
  <2>3. CASE ~(j <= i - 1)
    <3>1. j - (i - 1) \in 1 .. Len(q) - i /\ i + (j - (i - 1)) = j + 1
      BY <1>1, <2>3
    <3>2. b[j - (i - 1)] = q[j + 1]
      BY <1>3, <3>1
    <3> QED BY <1>1, <2>1, <2>3, <3>2
  <2> QED BY <2>2, <2>3
<1>6. DOMAIN (a \o b) = 1 .. Len(q) - 1
  <2> HIDE DEF a, b
  <2> QED BY <1>4
<1> QED BY <1>4, <1>5, <1>6

(* An unexpanded leaf is nobody's parent.                                   *)
LEMMA LeafIsNoParent ==
  ASSUME TypeOK, TreeShape, NEW n \in DOMAIN tree, tree[n].left = None,
         NEW m \in DOMAIN tree
  PROVE  tree[m].parent # n
<1>1. n # None
  BY DEF TypeOK, None
<1> QED BY <1>1 DEF TreeShape

(* What every waiting candidate is.                                         *)
LEMMA QueueEntry ==
  ASSUME IInv, NEW i \in DOMAIN queue
  PROVE  /\ queue[i] \in Entries /\ queue[i].gain > 0
         /\ Candidate(queue[i], tree, segments, hist)
         /\ queue[i].nid \in DOMAIN tree
<1>1. queue[i] \in Entries
  BY DEF IInv, TypeOK
<1>2. queue[i].gain > 0 /\ Candidate(queue[i], tree, segments, hist)
  BY DEF IInv, QueueInv
<1>3. queue[i].nid \in DOMAIN tree
  BY <1>2 DEF Candidate, Good, IInv, TypeOK
<1> QED BY <1>1, <1>2, <1>3

(* Loss-guide pop: one candidate leaves the queue, expanded or dropped.     *)
LEMMA PopBestStep == IInv /\ PopBest => IInv'
<1> SUFFICES ASSUME IInv, PopBest PROVE IInv'
  OBVIOUS
<1>1. /\ pc = "pop"
      /\ UNCHANGED <<param, trees, tree, segments, hist, free, level, valid, plan, best, todo>>
  BY DEF PopBest
<1>2. expand_set = <<>> /\ valid = <<>> /\ plan = <<>> /\ best = <<>>
  BY <1>1 DEF IInv, ControlInv
<1>3. PICK i \in DOMAIN queue :
        /\ queue' = SubSeq(queue, 1, i - 1) \o SubSeq(queue, i + 1, Len(queue))
        /\ IF IsValid(queue[i], num_leaves)
           THEN expand_set' = <<queue[i]>> /\ num_leaves' = num_leaves + 1
           ELSE expand_set' = <<>> /\ num_leaves' = num_leaves
  BY DEF PopBest
<1> DEFINE e == queue[i]
<1>4. e \in Entries /\ e.gain > 0 /\ Candidate(e, tree, segments, hist) /\ e.nid \in DOMAIN tree
  BY QueueEntry
<1>5. /\ queue' \in Seq(Entries)
      /\ DOMAIN queue' = 1 .. Len(queue) - 1
      /\ \A j \in DOMAIN queue' : queue'[j] = IF j < i THEN queue[j] ELSE queue[j + 1]
  BY <1>3, TakeOut DEF IInv, TypeOK
<1>6. \A j \in DOMAIN queue' : \E k \in DOMAIN queue :
        k # i /\ queue'[j] = queue[k] /\ k = IF j < i THEN j ELSE j + 1
  <2>1. DOMAIN queue = 1 .. Len(queue) /\ Len(queue) \in Nat
    BY DEF IInv, TypeOK
  <2> QED BY <1>5, <2>1
<1>7. /\ expand_set' = <<e>> \/ expand_set' = <<>>
      /\ at' = 1 /\ pc' = IF expand_set' = <<>> THEN "done" ELSE "apply"
  BY <1>3 DEF PopBest, Popped
<1>8. \/ expand_set' = <<e>> /\ Len(expand_set') = 1 /\ pc' = "apply"
      \/ expand_set' = <<>> /\ pc' = "done"
  <2>1. <<e>> # <<>> /\ Len(<<e>>) = 1
    OBVIOUS
  <2> HIDE DEF e
  <2> QED BY <1>7, <2>1
<1>9. TypeOK'
  <2>1. expand_set' \in Seq(Entries)
    <3>1. <<e>> \in Seq(Entries)
      BY <1>4
    <3>2. <<>> \in Seq(Entries)
      OBVIOUS
    <3> QED BY <1>7, <3>1, <3>2, Zenon
  <2>2. num_leaves' \in Nat \ {0}
    <3>1. num_leaves \in Nat \ {0}
      BY DEF IInv, TypeOK
    <3>2. num_leaves' = num_leaves \/ num_leaves' = num_leaves + 1
      BY <1>3
    <3> QED BY <3>1, <3>2
  <2>3. pc' \in Phases /\ at' = 1 /\ queue' \in Seq(Entries)
    BY <1>5, <1>7 DEF Phases
  <2> HIDE DEF e
  <2> QED BY <1>1, <2>1, <2>2, <2>3 DEF IInv, TypeOK, NumNodes
<1>10. TreeShape' /\ SegmentsInv'
  BY <1>1, SameTree DEF IInv
<1>11. QueueInv'
  <2>1. Distinct(queue')
    <3>1. Distinct(queue)
      BY DEF IInv, QueueInv
    <3> SUFFICES ASSUME NEW j \in DOMAIN queue', NEW k \in DOMAIN queue',
                        queue'[j].nid = queue'[k].nid
                 PROVE  j = k
      BY DEF Distinct
    <3>2. DOMAIN queue' \subseteq Nat /\ i \in Nat
      BY <1>5 DEF IInv, TypeOK
    <3> QED BY <1>6, <3>1, <3>2 DEF Distinct
  <2>2. \A j \in DOMAIN queue' : Candidate(queue'[j], tree', segments', hist') /\ queue'[j].gain > 0
    BY <1>1, <1>6 DEF IInv, QueueInv, Candidate, Good
  <2>3. \A j \in DOMAIN queue' : /\ queue'[j].nid # e.nid
                                 /\ tree[queue'[j].nid].parent # e.nid
    <3> SUFFICES ASSUME NEW j \in DOMAIN queue'
                 PROVE  queue'[j].nid # e.nid /\ tree[queue'[j].nid].parent # e.nid
      OBVIOUS
    <3>1. PICK k \in DOMAIN queue : k # i /\ queue'[j] = queue[k]
      BY <1>6
    <3>2. queue[k].nid # e.nid
      BY <3>1 DEF IInv, QueueInv, Distinct
    <3>3. queue[k].nid \in DOMAIN tree
      BY QueueEntry
    <3>4. tree[queue[k].nid].parent # e.nid
      BY <1>4, <3>3, LeafIsNoParent DEF IInv, Candidate
    <3> QED BY <3>1, <3>2, <3>4
  <2>4. \A k \in DOMAIN expand_set' : expand_set'[k] = e
    BY <1>7
  <2>5. best' = <<>>
    BY <1>1, <1>2
  <2> HIDE DEF e
  <2> QED BY <1>1, <2>1, <2>2, <2>3, <2>4, <2>5 DEF QueueInv
<1>12. BatchInv'
  <2>1. Candidate(e, tree', segments', hist')
    BY <1>1, <1>4 DEF Candidate, Good
  <2>2. valid' = <<>>
    BY <1>1, <1>2
  <2>3. CASE expand_set' = <<e>> /\ pc' = "apply"
    <3>1. tree'[e.nid].parent # e.nid
      BY <1>1, <1>4, LeafIsNoParent DEF IInv, Candidate
    <3> HIDE DEF e
    <3> QED BY <1>4, <1>7, <2>1, <2>2, <2>3, <3>1 DEF BatchInv, Distinct, Working, Candidate, Good
  <2>4. CASE expand_set' = <<>>
    BY <2>2, <2>4 DEF BatchInv, Distinct
  <2> QED BY <1>8, <2>3, <2>4
<1>13. PlanInv' /\ BestInv'
  BY <1>1, <1>2 DEF PlanInv, BestInv, Distinct
<1>14. ControlInv'
  BY <1>1, <1>2, <1>7, <1>8 DEF ControlInv
<1> QED BY <1>9, <1>10, <1>11, <1>12, <1>13, <1>14 DEF IInv

(* A depth-wise batch starts empty.                                         *)
LEMMA PopLevelStep == IInv /\ PopLevel => IInv'
<1> SUFFICES ASSUME IInv, PopLevel PROVE IInv'
  OBVIOUS
<1>1. /\ pc = "pop" /\ pc' = "fill" /\ expand_set' = <<>>
      /\ UNCHANGED <<param, trees, tree, segments, hist, free, queue, num_leaves, valid,
                     plan, best, at, todo>>
  BY DEF PopLevel
<1>2. expand_set = <<>> /\ valid = <<>> /\ plan = <<>> /\ best = <<>>
  BY <1>1 DEF IInv, ControlInv
<1>3. level' \in Nat
  <2>1. queue # <<>> /\ queue \in Seq(Entries) /\ level' = queue[1].depth
    BY DEF PopLevel, IInv, TypeOK
  <2>2. queue[1] \in Entries
    BY <2>1
  <2> QED BY <2>1, <2>2 DEF Entries
<1>4. TypeOK'
  BY <1>1, <1>3 DEF IInv, TypeOK, Phases, NumNodes
<1>5. TreeShape' /\ SegmentsInv'
  BY <1>1, SameTree DEF IInv
<1>6. QueueInv'
  BY <1>1, <1>2 DEF IInv, QueueInv, Distinct, Candidate, Good
<1>7. BatchInv' /\ PlanInv' /\ BestInv'
  BY <1>1, <1>2 DEF BatchInv, PlanInv, BestInv, Distinct, Working
<1>8. ControlInv'
  BY <1>1, <1>2 DEF ControlInv
<1> QED BY <1>4, <1>5, <1>6, <1>7, <1>8 DEF IInv

(* The elements of a sequence with one appended.                            *)
LEMMA AppendOne ==
  ASSUME NEW S, NEW s \in Seq(S), NEW x \in S
  PROVE  /\ Append(s, x) \in Seq(S)
         /\ Len(Append(s, x)) = Len(s) + 1
         /\ \A k \in DOMAIN Append(s, x) :
              \/ k \in DOMAIN s /\ Append(s, x)[k] = s[k]
              \/ k = Len(s) + 1 /\ Append(s, x)[k] = x
OBVIOUS

(* Depth-wise pop: the front candidate joins the batch or is dropped.       *)
LEMMA PopFrontStep == IInv /\ PopFront => IInv'
<1> SUFFICES ASSUME IInv, PopFront PROVE IInv'
  OBVIOUS
<1>1. /\ pc = "fill" /\ queue # <<>> /\ queue' = Tail(queue)
      /\ UNCHANGED <<pc, param, trees, tree, segments, hist, free, level, valid, plan,
                     best, at, todo>>
      /\ IF IsValid(queue[1], num_leaves)
         THEN expand_set' = Append(expand_set, queue[1]) /\ num_leaves' = num_leaves + 1
         ELSE expand_set' = expand_set /\ num_leaves' = num_leaves
  BY DEF PopFront, MorePop
<1>2. valid = <<>> /\ plan = <<>> /\ best = <<>>
  BY <1>1 DEF IInv, ControlInv
<1> DEFINE e == queue[1]
<1>3. queue \in Seq(Entries) /\ expand_set \in Seq(Entries) /\ 1 \in DOMAIN queue
  BY <1>1 DEF IInv, TypeOK
<1>4. e \in Entries /\ e.gain > 0 /\ Candidate(e, tree, segments, hist) /\ e.nid \in DOMAIN tree
  BY <1>3, QueueEntry
<1>5. /\ queue' \in Seq(Entries)
      /\ \A j \in DOMAIN queue' : j + 1 \in DOMAIN queue /\ j \in Nat /\ j # 0
                                  /\ queue'[j] = queue[j + 1]
  BY <1>1, <1>3
<1>6. /\ expand_set' \in Seq(Entries)
      /\ \A k \in DOMAIN expand_set' :
           \/ k \in DOMAIN expand_set /\ expand_set'[k] = expand_set[k]
           \/ k = Len(expand_set) + 1 /\ expand_set'[k] = e
  <2> HIDE DEF e
  <2>1. expand_set' = Append(expand_set, e) \/ expand_set' = expand_set
    BY <1>1 DEF e
  <2>2. e \in Entries
    BY <1>4
  <2>3. expand_set \in Seq(Entries)
    BY <1>3
  <2> DEFINE t == Append(expand_set, e)
  <2>4. /\ t \in Seq(Entries)
        /\ \A k \in DOMAIN t :
             \/ k \in DOMAIN expand_set /\ t[k] = expand_set[k]
             \/ k = Len(expand_set) + 1 /\ t[k] = e
    BY <2>2, <2>3, AppendOne
  <2> HIDE DEF t
  <2>5. expand_set' = t \/ expand_set' = expand_set
    BY <2>1 DEF t
  <2> QED BY <2>3, <2>4, <2>5
<1>7. TypeOK'
  <2>1. num_leaves' \in Nat \ {0}
    <3>1. num_leaves \in Nat \ {0}
      BY DEF IInv, TypeOK
    <3>2. num_leaves' = num_leaves \/ num_leaves' = num_leaves + 1
      BY <1>1
    <3> QED BY <3>1, <3>2
  <2> QED BY <1>1, <1>5, <1>6, <2>1 DEF IInv, TypeOK, NumNodes
<1>8. TreeShape' /\ SegmentsInv'
  BY <1>1, SameTree DEF IInv
<1>9. \A j \in DOMAIN queue' : /\ queue'[j].nid # e.nid
                               /\ tree[queue'[j].nid].parent # e.nid
  <2> SUFFICES ASSUME NEW j \in DOMAIN queue'
               PROVE  queue'[j].nid # e.nid /\ tree[queue'[j].nid].parent # e.nid
    OBVIOUS
  <2>1. j + 1 \in DOMAIN queue /\ j + 1 # 1 /\ queue'[j] = queue[j + 1]
    BY <1>5
  <2>2. queue[j + 1].nid # e.nid
    BY <1>3, <2>1 DEF IInv, QueueInv, Distinct
  <2>3. queue[j + 1].nid \in DOMAIN tree
    BY <2>1, QueueEntry
  <2>4. tree[queue[j + 1].nid].parent # e.nid
    BY <1>4, <2>3, LeafIsNoParent DEF IInv, Candidate
  <2> QED BY <2>1, <2>2, <2>4
<1>10. QueueInv'
  <2>1. Distinct(queue')
    <3>1. Distinct(queue)
      BY DEF IInv, QueueInv
    <3> QED BY <1>5, <3>1 DEF Distinct
  <2>2. \A j \in DOMAIN queue' : Candidate(queue'[j], tree', segments', hist') /\ queue'[j].gain > 0
    BY <1>1, <1>5 DEF IInv, QueueInv, Candidate, Good
  <2>3. \A j \in DOMAIN queue', k \in DOMAIN expand_set :
          /\ queue'[j].nid # expand_set[k].nid
          /\ tree[queue'[j].nid].parent # expand_set[k].nid
    BY <1>1, <1>5 DEF IInv, QueueInv
  <2>4. best' = <<>>
    BY <1>1, <1>2
  <2> HIDE DEF e
  <2> QED BY <1>1, <1>6, <1>9, <2>1, <2>2, <2>3, <2>4 DEF QueueInv
<1>11. BatchInv'
  <2>1. Candidate(e, tree', segments', hist')
    BY <1>1, <1>4 DEF Candidate, Good
  <2>2. valid' = <<>>
    BY <1>1, <1>2
  <2>3. Distinct(expand_set')
    <3>1. Distinct(expand_set) /\ \A k \in DOMAIN expand_set : expand_set[k].nid # e.nid
      BY <1>3 DEF IInv, BatchInv, QueueInv
    <3> HIDE DEF e
    <3> QED BY <1>3, <1>6, <3>1 DEF Distinct
  <2>4. \A k \in DOMAIN expand_set : Candidate(expand_set[k], tree', segments', hist') /\ expand_set[k].gain > 0
    BY <1>1 DEF IInv, BatchInv, Candidate, Good
  <2> HIDE DEF e
  <2>5. \A k \in DOMAIN expand_set' : Candidate(expand_set'[k], tree', segments', hist') /\ expand_set'[k].gain > 0
    <3>1. e.gain > 0 /\ Candidate(e, tree', segments', hist')
      BY <1>4, <2>1 DEF e
    <3> SUFFICES ASSUME NEW k \in DOMAIN expand_set'
                 PROVE  Candidate(expand_set'[k], tree', segments', hist') /\ expand_set'[k].gain > 0
      OBVIOUS
    <3> QED BY <1>6, <3>1, <2>4 DEF Candidate, Good
  <2>6. \A j, k \in DOMAIN expand_set' :
          tree'[expand_set'[j].nid].parent # expand_set'[k].nid
    <3> SUFFICES ASSUME NEW j \in DOMAIN expand_set', NEW k \in DOMAIN expand_set'
                 PROVE  tree[expand_set'[j].nid].parent # expand_set'[k].nid
      BY <1>1
    <3>1. /\ expand_set'[j].nid \in DOMAIN tree /\ expand_set'[k].nid \in DOMAIN tree
          /\ tree[expand_set'[k].nid].left = None
      BY <1>1, <2>5 DEF Candidate, Good, IInv, TypeOK
    <3> QED BY <3>1, LeafIsNoParent DEF IInv
  <2> QED BY <1>1, <2>2, <2>3, <2>5, <2>6 DEF BatchInv, Distinct, Working
<1>12. PlanInv' /\ BestInv'
  BY <1>1, <1>2 DEF PlanInv, BestInv, Distinct
<1>13. ControlInv'
  BY <1>1, <1>2 DEF ControlInv
<1> QED BY <1>7, <1>8, <1>10, <1>11, <1>12, <1>13 DEF IInv

(* A depth-wise batch ends: growth goes on with it or, if empty, stops.     *)
LEMMA PopEndStep == IInv /\ PopEnd => IInv'
<1> SUFFICES ASSUME IInv, PopEnd PROVE IInv'
  OBVIOUS
<1>1. /\ pc = "fill" /\ at' = 1 /\ pc' = IF expand_set = <<>> THEN "done" ELSE "apply"
      /\ UNCHANGED <<param, trees, tree, segments, hist, free, queue, level, expand_set,
                     num_leaves, valid, plan, best, todo>>
  BY DEF PopEnd, Popped
<1>2. valid = <<>> /\ plan = <<>> /\ best = <<>>
  BY <1>1 DEF IInv, ControlInv
<1>3. TypeOK'
  <2>1. pc' \in Phases /\ at' \in Nat \ {0}
    BY <1>1 DEF Phases
  <2> QED BY <1>1, <2>1 DEF IInv, TypeOK, NumNodes
<1>4. TreeShape' /\ SegmentsInv'
  BY <1>1, SameTree DEF IInv
<1>5. QueueInv'
  BY <1>1, <1>2 DEF IInv, QueueInv, Distinct, Candidate, Good
<1>6. BatchInv'
  <2>1. expand_set \in Seq(Entries)
    BY DEF IInv, TypeOK
  <2> QED BY <1>1, <1>2, <2>1 DEF IInv, BatchInv, Distinct, Working, Candidate, Good
<1>7. PlanInv' /\ BestInv'
  BY <1>1, <1>2 DEF PlanInv, BestInv, Distinct, Working
<1>8. ControlInv'
  <2>1. expand_set # <<>> => Len(expand_set) >= 1
    BY DEF IInv, TypeOK
  <2> QED BY <1>1, <1>2, <2>1 DEF ControlInv
<1> QED BY <1>3, <1>4, <1>5, <1>6, <1>7, <1>8 DEF IInv

(* The ids of the nodes are 0 .. NumNodes - 1, and NumNodes is new.         *)
LEMMA NodeIds ==
  ASSUME NEW k \in Nat
  PROVE  Cardinality(0 .. k - 1) = k
<1>1. Cardinality(0 .. k - 1) = IF 0 > k - 1 THEN 0 ELSE (k - 1) - 0 + 1
  BY FS_Interval
<1> QED BY <1>1

(* apply_split gives a member of the batch two new leaves.                  *)
LEMMA ApplySplitStep == IInv /\ ApplySplit => IInv'
<1> SUFFICES ASSUME IInv, ApplySplit PROVE IInv'
  OBVIOUS
<1> DEFINE e == expand_set[at]
           x == expand_set[at].nid
           l == NumNodes
           last == at = Len(expand_set)
<1>1. /\ pc = "apply"
      /\ UNCHANGED <<param, trees, segments, hist, free, queue, level, expand_set,
                     num_leaves, plan, best>>
  BY DEF ApplySplit
<1>2. /\ tree' = [n \in DOMAIN tree \cup {l, l + 1} |->
                    IF n \in {l, l + 1} THEN Leaf(x, tree[x].depth + 1)
                    ELSE IF n = x
                    THEN [tree[n] EXCEPT !.left = l, !.right = l + 1, !.rule = e.rule]
                    ELSE tree[n]]
      /\ valid' = IF IsChildValid(e, num_leaves) THEN Append(valid, e) ELSE valid
      /\ at' = IF last THEN 1 ELSE at + 1
      /\ todo' = IF last THEN DOMAIN expand_set ELSE {}
      /\ pc' = IF last THEN "partition" ELSE pc
  BY DEF ApplySplit
<1>3. /\ at \in DOMAIN expand_set /\ expand_set \in Seq(Entries) /\ e \in Entries
      /\ at \in Nat \ {0} /\ Len(expand_set) \in Nat
      /\ plan = <<>> /\ best = <<>> /\ valid \in Seq(Entries)
  BY <1>1 DEF IInv, ControlInv, TypeOK
<1>4. e.gain > 0 /\ Candidate(e, tree, segments, hist)
  BY <1>1, <1>3 DEF IInv, BatchInv
<1>5. x \in DOMAIN tree /\ x \in DOMAIN segments /\ tree[x].left = None /\ x \in Nat
  BY <1>3, <1>4 DEF Candidate, Good, IInv, TypeOK, Entries
<1>6. l \in Nat \ {0} /\ DOMAIN tree = 0 .. l - 1 /\ l \notin DOMAIN tree
      /\ l + 1 \notin DOMAIN tree
  BY DEF IInv, TypeOK
<1> HIDE DEF l, last, e, x
<1>7. /\ DOMAIN tree' = 0 .. (l + 2) - 1
      /\ NumNodes' = l + 2
  <2>1. DOMAIN tree' = DOMAIN tree \cup {l, l + 1}
    BY <1>2
  <2>2. DOMAIN tree' = 0 .. (l + 2) - 1
    BY <1>6, <2>1
  <2>3. Cardinality(0 .. (l + 2) - 1) = l + 2
    BY <1>6, NodeIds
  <2> QED BY <2>2, <2>3 DEF NumNodes
<1>8. /\ \A n \in DOMAIN tree : n \in DOMAIN tree'
      /\ \A n \in DOMAIN tree : n # x => tree'[n] = tree[n]
      /\ tree'[x] = [tree[x] EXCEPT !.left = l, !.right = l + 1, !.rule = e.rule]
      /\ tree'[l] = Leaf(x, tree[x].depth + 1) /\ tree'[l + 1] = Leaf(x, tree[x].depth + 1)
      /\ DOMAIN tree' = DOMAIN tree \cup {l, l + 1}
  BY <1>2, <1>5, <1>6
<1>9. /\ tree'[x].left = l /\ tree'[x].right = l + 1 /\ tree'[x].rule = e.rule
      /\ tree'[x].parent = tree[x].parent /\ tree'[x].depth = tree[x].depth
      /\ tree'[l].left = None /\ tree'[l].parent = x
      /\ tree'[l + 1].left = None /\ tree'[l + 1].parent = x
  <2>1. tree[x] \in [parent : {None} \cup Nat, left : {None} \cup Nat,
                     right : {None} \cup Nat, depth : Nat, rule : SUBSET Rows]
    BY <1>5 DEF IInv, TypeOK
  <2> QED BY <1>8, <2>1 DEF Leaf
<1>10. TypeOK'
  <2>1. \A n \in DOMAIN tree' :
          tree'[n] \in [parent : {None} \cup Nat, left : {None} \cup Nat,
                        right : {None} \cup Nat, depth : Nat, rule : SUBSET Rows]
    <3>1. \A n \in DOMAIN tree :
            tree[n] \in [parent : {None} \cup Nat, left : {None} \cup Nat,
                         right : {None} \cup Nat, depth : Nat, rule : SUBSET Rows]
      BY DEF IInv, TypeOK
    <3>2. e.rule \in SUBSET Rows
      BY <1>3 DEF Entries
    <3>3. tree[x].depth \in Nat /\ tree[x].depth + 1 \in Nat
      BY <1>5, <3>1
    <3>4. ASSUME NEW d \in Nat
          PROVE  Leaf(x, d) \in [parent : {None} \cup Nat, left : {None} \cup Nat,
                                right : {None} \cup Nat, depth : Nat, rule : SUBSET Rows]
      BY <1>5 DEF Leaf
    <3>5. [tree[x] EXCEPT !.left = l, !.right = l + 1, !.rule = e.rule]
            \in [parent : {None} \cup Nat, left : {None} \cup Nat,
                right : {None} \cup Nat, depth : Nat, rule : SUBSET Rows]
      <4>1. tree[x] \in [parent : {None} \cup Nat, left : {None} \cup Nat,
                        right : {None} \cup Nat, depth : Nat, rule : SUBSET Rows]
        BY <1>5, <3>1
      <4>2. l \in {None} \cup Nat /\ l + 1 \in {None} \cup Nat
        BY <1>6
      <4> QED BY <4>1, <4>2, <3>2
    <3> SUFFICES ASSUME NEW n \in DOMAIN tree'
                 PROVE  tree'[n] \in [parent : {None} \cup Nat, left : {None} \cup Nat,
                                     right : {None} \cup Nat, depth : Nat, rule : SUBSET Rows]
      OBVIOUS
    <3>6. CASE n \in {l, l + 1}
      BY <1>8, <3>3, <3>4, <3>6
    <3>7. CASE n = x
      BY <1>8, <3>5, <3>7
    <3>8. CASE n \in DOMAIN tree /\ n # x
      BY <1>8, <3>1, <3>8
    <3> QED BY <1>8, <3>6, <3>7, <3>8
  <2>2. valid' \in Seq(Entries)
    <3>1. Append(valid, e) \in Seq(Entries)
      BY <1>3, AppendOne
    <3> QED BY <1>2, <1>3, <3>1
  <2>3. at' \in Nat \ {0} /\ todo' \subseteq Nat /\ pc' \in Phases
    <3>1. DOMAIN expand_set \subseteq Nat
      BY <1>3
    <3>2. pc' = "partition" \/ pc' = "apply"
      BY <1>1, <1>2
    <3>3. at' = 1 \/ at' = at + 1
      BY <1>2
    <3>4. todo' = {} \/ todo' = DOMAIN expand_set
      BY <1>2
    <3> QED BY <1>3, <3>1, <3>2, <3>3, <3>4 DEF Phases
  <2>4. DOMAIN segments' \subseteq DOMAIN tree'
    BY <1>1, <1>8 DEF IInv, TypeOK
  <2>5. NumNodes' \in Nat \ {0} /\ DOMAIN tree' = 0 .. NumNodes' - 1
    BY <1>6, <1>7
  <2> QED BY <1>1, <2>1, <2>2, <2>3, <2>4, <2>5 DEF IInv, TypeOK
<1>11. \A n \in DOMAIN tree : tree[n].parent # x
  BY <1>5, LeafIsNoParent DEF IInv
<1>12. TreeShape'
  <2> SUFFICES ASSUME NEW n \in DOMAIN tree'
               PROVE  /\ tree'[n].left # None =>
                           /\ tree'[n].left \in DOMAIN tree' /\ tree'[n].right \in DOMAIN tree'
                           /\ tree'[n].left # tree'[n].right
                           /\ tree'[tree'[n].left].parent = n
                           /\ tree'[tree'[n].right].parent = n
                      /\ tree'[n].parent # None =>
                           /\ tree'[n].parent \in DOMAIN tree'
                           /\ tree'[tree'[n].parent].left # None
    BY DEF TreeShape
  <2>1. l # None
    BY <1>6 DEF None
  <2>2. CASE n \in {l, l + 1}
    BY <1>5, <1>8, <1>9, <2>1, <2>2
  <2>3. CASE n = x
    <3>1. tree[x].parent # None =>
            /\ tree[x].parent \in DOMAIN tree /\ tree[x].parent # x
            /\ tree[tree[x].parent].left # None
      BY <1>5, <1>11 DEF IInv, TreeShape
    <3>2. tree[x].parent # None =>
            tree'[x].parent \in DOMAIN tree' /\ tree'[tree'[x].parent].left # None
      BY <1>8, <1>9, <3>1
    <3>3. l # l + 1 /\ l \in DOMAIN tree' /\ l + 1 \in DOMAIN tree'
      BY <1>6, <1>8
    <3> QED BY <1>9, <2>3, <3>2, <3>3
  <2>4. CASE n \in DOMAIN tree /\ n # x
    <3>1. tree'[n] = tree[n]
      BY <1>8, <2>4
    <3>2. \A m \in DOMAIN tree : tree'[m].parent = tree[m].parent
      BY <1>8, <1>9
    <3>3. \A m \in DOMAIN tree : tree[m].left # None => tree'[m].left # None
      BY <1>8, <1>9, <2>1
    <3> QED BY <1>8, <2>4, <3>1, <3>2, <3>3 DEF IInv, TreeShape
  <2> QED BY <1>8, <2>2, <2>3, <2>4
<1>13. SegmentsInv'
  <2>1. /\ DOMAIN segments \subseteq DOMAIN tree
        /\ \A n \in DOMAIN segments : segments[n] # {} /\ segments[n] \subseteq Rows
        /\ \A m, n \in DOMAIN segments : m # n => segments[m] \cap segments[n] = {}
        /\ \A r \in Rows : \E n \in DOMAIN segments : r \in segments[n]
    BY DEF IInv, SegmentsInv
  <2>2. l \notin DOMAIN segments /\ l + 1 \notin DOMAIN segments
    BY <1>6, <2>1
  <2>3. ASSUME NEW n \in DOMAIN segments
        PROVE  tree'[n].left # None => /\ tree'[n].left \notin DOMAIN segments
                                       /\ tree'[n].right \notin DOMAIN segments
    <3>1. CASE n = x
      BY <1>9, <2>2, <3>1
    <3>2. CASE n # x
      BY <1>8, <2>1, <2>3, <3>2 DEF IInv, SegmentsInv
    <3> QED BY <3>1, <3>2
  <2> QED BY <1>1, <1>8, <2>1, <2>3 DEF SegmentsInv
<1>14. QueueInv'
  <2>1. \A i \in DOMAIN queue : /\ queue[i].nid \in DOMAIN tree /\ queue[i].nid # x
                                /\ tree'[queue[i].nid] = tree[queue[i].nid]
    BY <1>3, <1>8, QueueEntry DEF IInv, QueueInv, x
  <2>2. best' = <<>> /\ pc' # "push"
    BY <1>1, <1>2, <1>3
  <2> QED BY <1>1, <2>1, <2>2 DEF IInv, QueueInv, Candidate, Good
<1>15. \A i \in DOMAIN expand_set : i # at => expand_set[i].nid # x
  BY <1>3 DEF IInv, BatchInv, Distinct, x
<1>16. \A i \in DOMAIN expand_set : /\ expand_set[i].nid \in DOMAIN tree
                                    /\ tree'[expand_set[i].nid].parent
                                         = tree[expand_set[i].nid].parent
  <2> SUFFICES ASSUME NEW i \in DOMAIN expand_set
               PROVE  expand_set[i].nid \in DOMAIN tree
    BY <1>8, <1>9
  <2>1. i \in Nat
    BY <1>3
  <2>2. CASE i < at
    BY <1>1, <2>2 DEF IInv, BatchInv, Applied, LeafChildren
  <2>3. CASE i >= at
    <3>1. Candidate(expand_set[i], tree, segments, hist)
      BY <1>1, <2>3 DEF IInv, BatchInv
    <3> QED BY <3>1 DEF Candidate, Good, IInv, TypeOK
  <2> QED BY <1>3, <2>1, <2>2, <2>3
<1>17. Applied(e, tree', segments', hist')
  <2>1. e.nid = x
    BY DEF e, x
  <2>2. Good(e.nid, segments', hist')
    BY <1>1, <1>4 DEF Candidate, Good
  <2>3. e.rule # {} /\ e.rule \subseteq segments[x] /\ e.rule # segments[x]
    BY <1>4, <2>1 DEF Candidate
  <2>4. LeafChildren(x, tree')
    <3>1. l # None
      BY <1>6 DEF None
    <3> QED BY <1>5, <1>8, <1>9, <3>1 DEF LeafChildren
  <2> QED BY <1>1, <1>9, <2>1, <2>2, <2>3, <2>4 DEF Applied
<1>18. ASSUME NEW i \in DOMAIN expand_set, i < at
       PROVE  Applied(expand_set[i], tree', segments', hist')
  <2> DEFINE n == expand_set[i].nid
  <2>1. Applied(expand_set[i], tree, segments, hist)
    BY <1>1, <1>18 DEF IInv, BatchInv
  <2>2. n # x /\ n \in DOMAIN tree /\ tree'[n] = tree[n]
    BY <1>3, <1>8, <1>15, <1>16, <1>18
  <2>3. /\ tree[n].left \in DOMAIN tree /\ tree[n].right \in DOMAIN tree
        /\ tree[tree[n].left].parent = n /\ tree[tree[n].right].parent = n
    BY <2>1, <2>2 DEF IInv, TreeShape, Applied, LeafChildren
  <2>4. tree[x].parent # n
    BY <1>3 DEF IInv, BatchInv, x
  <2>5. tree'[tree[n].left] = tree[tree[n].left] /\ tree'[tree[n].right] = tree[tree[n].right]
    BY <1>8, <2>3, <2>4
  <2> QED BY <1>1, <1>8, <2>1, <2>2, <2>5 DEF Applied, Good, LeafChildren
<1>19. ASSUME NEW i \in DOMAIN expand_set, i > at
       PROVE  Candidate(expand_set[i], tree', segments', hist') /\ expand_set[i].gain > 0
  <2>1. Candidate(expand_set[i], tree, segments, hist) /\ expand_set[i].gain > 0
    BY <1>1, <1>3, <1>19 DEF IInv, BatchInv
  <2>2. tree'[expand_set[i].nid] = tree[expand_set[i].nid]
    BY <1>3, <1>8, <1>15, <1>16, <1>19
  <2> QED BY <1>1, <2>1, <2>2 DEF Candidate, Good
<1>20. \A i \in DOMAIN expand_set : i \in Nat /\ i <= Len(expand_set)
  BY <1>3
<1>21. BatchInv'
  <2>1. \A i \in DOMAIN expand_set :
          /\ i > at => Candidate(expand_set[i], tree', segments', hist') /\ expand_set[i].gain > 0
          /\ i <= at => Applied(expand_set[i], tree', segments', hist')
    BY <1>3, <1>17, <1>18, <1>19, <1>20 DEF e
  <2>2. Distinct(expand_set)'
    BY <1>1 DEF IInv, BatchInv, Distinct
  <2>3. (\A i, j \in DOMAIN expand_set : tree[expand_set[i].nid].parent # expand_set[j].nid)'
    BY <1>1, <1>16 DEF IInv, BatchInv
  <2>4. \A i \in DOMAIN expand_set' :
         /\ pc' = "fill" \/ (pc' = "apply" /\ i >= at') =>
              Candidate(expand_set'[i], tree', segments', hist') /\ expand_set'[i].gain > 0
         /\ (pc' = "apply" /\ i < at') \/ (pc' = "partition" /\ i \in todo') =>
              Applied(expand_set'[i], tree', segments', hist')
         /\ ~(pc' = "partition" /\ i \notin todo') /\ pc' \notin Working \cup {"release", "push"}
    <3>1. CASE last
      BY <1>1, <1>2, <1>3, <1>20, <2>1, <3>1 DEF last, Working
    <3>2. CASE ~last
      <4>1. pc' = "apply" /\ at' = at + 1
        BY <1>1, <1>2, <3>2
      <4>2. \A i \in DOMAIN expand_set : (i >= at + 1 <=> i > at) /\ (i < at + 1 <=> i <= at)
        BY <1>3, <1>20
      <4> QED BY <1>1, <2>1, <4>1, <4>2 DEF Working
    <3> QED BY <3>1, <3>2
  <2>5. Distinct(valid')
        /\ \A j \in DOMAIN valid' : \E i \in DOMAIN expand_set : valid'[j] = expand_set[i] /\ i <= at
    <3>1. Distinct(valid)
          /\ \A j \in DOMAIN valid : \E i \in DOMAIN expand_set : valid[j] = expand_set[i] /\ i < at
      BY <1>1 DEF IInv, BatchInv
    <3>2. \A j \in DOMAIN valid : valid[j].nid # e.nid
      BY <1>3, <1>15, <1>20, <3>1 DEF x, e
    <3>3. CASE valid' = valid
      BY <1>3, <1>20, <3>1, <3>3
    <3>4. CASE valid' = Append(valid, e)
      <4> DEFINE t == Append(valid, e)
      <4>1. \A k \in DOMAIN t :
              \/ k \in DOMAIN valid /\ t[k] = valid[k]
              \/ k = Len(valid) + 1 /\ t[k] = e
        BY <1>3, AppendOne
      <4> HIDE DEF t
      <4>2. valid' = t
        BY <3>4 DEF t
      <4>3. Distinct(t)
        BY <3>1, <3>2, <4>1 DEF Distinct
      <4>4. \A j \in DOMAIN t : \E i \in DOMAIN expand_set : t[j] = expand_set[i] /\ i <= at
        <5> SUFFICES ASSUME NEW j \in DOMAIN t
                     PROVE  \E i \in DOMAIN expand_set : t[j] = expand_set[i] /\ i <= at
          OBVIOUS
        <5>1. CASE j \in DOMAIN valid /\ t[j] = valid[j]
          BY <1>3, <1>20, <3>1, <5>1
        <5>2. CASE t[j] = e
          BY <1>3, <5>2 DEF e
        <5> QED BY <4>1, <5>1, <5>2
      <4> QED BY <4>2, <4>3, <4>4
    <3> QED BY <1>2, <3>3, <3>4
  <2>6. pc' = "apply" => at' = at + 1
    BY <1>1, <1>2
  <2>7. \A j \in DOMAIN valid' : \E i \in DOMAIN expand_set' :
          valid'[j] = expand_set'[i] /\ (pc' = "apply" => i < at')
    BY <1>1, <1>3, <1>20, <2>5, <2>6
  <2> QED BY <2>2, <2>3, <2>4, <2>5, <2>7 DEF BatchInv
<1>22. PlanInv' /\ BestInv'
  BY <1>1, <1>3 DEF PlanInv, BestInv, Distinct
<1>23. ControlInv'
  <2>1. ~last => at + 1 <= Len(expand_set)
    BY <1>1, <1>3 DEF last
  <2> QED BY <1>1, <1>2, <1>3, <2>1 DEF ControlInv, last
<1> QED BY <1>10, <1>12, <1>13, <1>14, <1>21, <1>22, <1>23 DEF IInv

-----------------------------------------------------------------------------
(* The phases that allocate and fill the children's histograms. *)

(* What a child of a member of the batch is, and what it is not: a waiting  *)
(* candidate, a member of the batch, or a child of another member.          *)
LEMMA ChildOfValid ==
  ASSUME IInv, pc \in Working, NEW j \in DOMAIN valid,
         NEW b \in {tree[valid[j].nid].left, tree[valid[j].nid].right}
  PROVE  /\ b \in DOMAIN tree /\ b \in Nat /\ b \in DOMAIN segments
         /\ tree[b].left = None /\ tree[b].parent = valid[j].nid
         /\ \A i \in DOMAIN queue : queue[i].nid # b
         /\ \A i \in DOMAIN expand_set : expand_set[i].nid # b
         /\ \A k \in DOMAIN valid : k # j =>
              b # tree[valid[k].nid].left /\ b # tree[valid[k].nid].right
<1>1. PICK i \in DOMAIN expand_set : valid[j] = expand_set[i]
  BY DEF IInv, BatchInv
<1>2. Divided(expand_set[i], tree, segments)
  BY DEF IInv, BatchInv
<1>3. b \in DOMAIN segments /\ b \in DOMAIN tree /\ tree[b].left = None
      /\ tree[b].parent = valid[j].nid
  <2> DEFINE n == valid[j].nid
  <2>1. n = expand_set[i].nid
    BY <1>1
  <2> HIDE DEF n
  <2>2. /\ n \in DOMAIN tree /\ tree[n].left # None
        /\ tree[tree[n].left].left = None /\ tree[tree[n].right].left = None
        /\ tree[n].left \in DOMAIN segments /\ tree[n].right \in DOMAIN segments
    BY <1>2, <2>1 DEF Divided, LeafChildren
  <2>3. /\ tree[n].left \in DOMAIN tree /\ tree[n].right \in DOMAIN tree
        /\ tree[tree[n].left].parent = n /\ tree[tree[n].right].parent = n
    BY <2>2 DEF IInv, TreeShape
  <2>4. b \in {tree[n].left, tree[n].right}
    BY DEF n
  <2>5. /\ b \in DOMAIN segments /\ b \in DOMAIN tree /\ tree[b].left = None
        /\ tree[b].parent = n
    BY <2>2, <2>3, <2>4
  <2> QED BY <2>5 DEF n
<1>4. b \in Nat
  BY <1>3 DEF IInv, TypeOK
<1>5. \A k \in DOMAIN queue : queue[k].nid # b
  BY <1>1, <1>3 DEF IInv, QueueInv, Working
<1>6. \A k \in DOMAIN expand_set : expand_set[k].nid # b
  BY <1>1, <1>3 DEF IInv, BatchInv
<1>7. ASSUME NEW k \in DOMAIN valid, k # j
      PROVE  b # tree[valid[k].nid].left /\ b # tree[valid[k].nid].right
  <2>1. PICK m \in DOMAIN expand_set : valid[k] = expand_set[m]
    BY DEF IInv, BatchInv
  <2>2. Divided(expand_set[m], tree, segments)
    BY DEF IInv, BatchInv
  <2>3. /\ tree[tree[valid[k].nid].left].parent = valid[k].nid
        /\ tree[tree[valid[k].nid].right].parent = valid[k].nid
    BY <2>1, <2>2 DEF Divided, LeafChildren, IInv, TreeShape
  <2>4. valid[k].nid # valid[j].nid
    BY <1>7 DEF IInv, BatchInv, Distinct
  <2> QED BY <1>3, <2>3, <2>4
<1> QED BY <1>3, <1>4, <1>5, <1>6, <1>7

(* A step of these phases that leaves the histograms of the candidates and  *)
(* of the batch alone.                                                      *)
LEMMA WorkingFrame ==
  ASSUME IInv, pc \in Working, pc' \in Working,
         UNCHANGED <<tree, segments, queue, expand_set, valid>>,
         best' = <<>>,
         \A n \in {queue[i].nid : i \in DOMAIN queue}
                    \cup {expand_set[i].nid : i \in DOMAIN expand_set} :
           n \in DOMAIN hist => n \in DOMAIN hist' /\ hist'[n] = hist[n]
  PROVE  TreeShape' /\ SegmentsInv' /\ QueueInv' /\ BatchInv' /\ BestInv'
<1>1. TreeShape' /\ SegmentsInv'
  BY SameTree DEF IInv
<1>2. \A i \in DOMAIN queue : Candidate(queue[i], tree', segments', hist') /\ queue[i].gain > 0
  BY DEF IInv, QueueInv, Candidate, Good
<1>3. QueueInv'
  BY <1>2 DEF IInv, QueueInv, Distinct, Working
<1>4. \A i \in DOMAIN expand_set : Divided(expand_set[i], tree', segments')
  BY DEF IInv, BatchInv, Divided, LeafChildren
<1>5. \A i \in DOMAIN expand_set : ParentHist(expand_set[i], tree', segments', hist')
  BY DEF IInv, BatchInv, ParentHist
<1>6. BatchInv'
  <2>1. pc' \notin {"fill", "apply", "partition"}
    BY DEF Working
  <2> QED BY <1>4, <1>5, <2>1 DEF IInv, BatchInv, Distinct
<1>7. BestInv'
  BY DEF BestInv, Distinct
<1> QED BY <1>1, <1>3, <1>6, <1>7

(* The planned nodes of different members of the batch differ.              *)
LEMMA PlanNodes ==
  ASSUME IInv, pc \in Working, NEW j \in DOMAIN plan
  PROVE  /\ j \in DOMAIN valid /\ plan[j].parent = valid[j].nid
         /\ plan[j].built \in {tree[valid[j].nid].left, tree[valid[j].nid].right}
         /\ plan[j].subtracted \in {tree[valid[j].nid].left, tree[valid[j].nid].right}
         /\ plan[j].built # plan[j].subtracted
         /\ \A k \in DOMAIN plan : k # j =>
              /\ plan[j].built \notin {plan[k].built, plan[k].subtracted}
              /\ plan[j].subtracted \notin {plan[k].built, plan[k].subtracted}
<1>1. /\ j \in DOMAIN valid /\ plan[j].parent = valid[j].nid
      /\ plan[j].built \in {tree[valid[j].nid].left, tree[valid[j].nid].right}
      /\ plan[j].subtracted \in {tree[valid[j].nid].left, tree[valid[j].nid].right}
  BY DEF IInv, PlanInv
<1>2. plan[j].built # plan[j].subtracted
  <2>1. PICK i \in DOMAIN expand_set : valid[j] = expand_set[i]
    BY <1>1 DEF IInv, BatchInv
  <2>2. Divided(expand_set[i], tree, segments)
    BY DEF IInv, BatchInv
  <2>3. tree[valid[j].nid].left # tree[valid[j].nid].right
    BY <2>1, <2>2 DEF Divided, LeafChildren, IInv, TreeShape
  <2> QED BY <2>3 DEF IInv, PlanInv
<1>3. ASSUME NEW k \in DOMAIN plan, k # j
      PROVE  /\ plan[j].built \notin {plan[k].built, plan[k].subtracted}
             /\ plan[j].subtracted \notin {plan[k].built, plan[k].subtracted}
  <2>1. /\ k \in DOMAIN valid
        /\ plan[k].built \in {tree[valid[k].nid].left, tree[valid[k].nid].right}
        /\ plan[k].subtracted \in {tree[valid[k].nid].left, tree[valid[k].nid].right}
    BY DEF IInv, PlanInv
  <2>2. /\ plan[j].built # tree[valid[k].nid].left /\ plan[j].built # tree[valid[k].nid].right
        /\ plan[j].subtracted # tree[valid[k].nid].left
        /\ plan[j].subtracted # tree[valid[k].nid].right
    BY <1>1, <1>3, <2>1, ChildOfValid
  <2> QED BY <2>1, <2>2
<1> QED BY <1>1, <1>2, <1>3

(* Allocation never takes the buffer of a candidate or of a parent.         *)
LEMMA AllocBuildStep == IInv /\ AllocBuild => IInv'
<1> SUFFICES ASSUME IInv, AllocBuild PROVE IInv'
  OBVIOUS
<1> DEFINE n == valid[at].nid
           last == at = Len(valid)
<1>1. /\ pc = "alloc_build"
      /\ UNCHANGED <<param, trees, tree, segments, queue, level, expand_set,
                     num_leaves, valid, best>>
  BY DEF AllocBuild
<1>2. PICK b \in {tree[n].left, tree[n].right} :
        /\ Allocate(b)
        /\ plan' = Append(plan, [parent |-> n, built |-> b,
                     subtracted |-> IF b = tree[n].left THEN tree[n].right ELSE tree[n].left])
  BY DEF AllocBuild
<1>3. /\ at' = IF last THEN 1 ELSE at + 1
      /\ todo' = IF last THEN DOMAIN valid ELSE {}
      /\ pc' = IF last THEN "build" ELSE pc
  BY DEF AllocBuild
<1>4. /\ at \in DOMAIN valid /\ at \in Nat \ {0} /\ valid \in Seq(Entries)
      /\ DOMAIN valid = 1 .. Len(valid) /\ Len(valid) \in Nat
      /\ best = <<>> /\ Len(plan) = at - 1
      /\ plan \in Seq([parent : Nat, built : Nat, subtracted : Nat])
  BY <1>1 DEF IInv, ControlInv, TypeOK
<1>5. pc \in Working /\ pc' \in Working
  BY <1>1, <1>3 DEF Working
<1> DEFINE c == IF b = tree[n].left THEN tree[n].right ELSE tree[n].left
           p == [parent |-> n, built |-> b, subtracted |-> c]
<1>6. /\ b \in Nat /\ c \in Nat /\ n \in Nat
      /\ (b = tree[n].left /\ c = tree[n].right) \/ (b = tree[n].right /\ c = tree[n].left)
  <2>1. c \in {tree[n].left, tree[n].right}
    BY <1>2
  <2>2. b \in Nat /\ c \in Nat
    BY <1>4, <1>5, <2>1, ChildOfValid
  <2>3. valid[at] \in Entries
    BY <1>4
  <2> QED BY <1>2, <2>2, <2>3 DEF Entries
<1>7. /\ DOMAIN hist' = DOMAIN hist \cup {b}
      /\ \A m \in DOMAIN hist : hist'[m] = hist[m]
      /\ DOMAIN hist' \subseteq Nat
      /\ \A m \in DOMAIN hist' : hist'[m] \in [Rows -> Int]
      /\ free' \in Seq([Rows -> Int]) /\ Len(free') <= MaxCached
  BY <1>2, <1>6, AllocateEffect DEF IInv
<1>8. plan' \in Seq([parent : Nat, built : Nat, subtracted : Nat])
      /\ Len(plan') = at
      /\ \A j \in DOMAIN plan' : \/ j \in DOMAIN plan /\ plan'[j] = plan[j]
                                 \/ j = at /\ plan'[j] = p
  <2>1. p \in [parent : Nat, built : Nat, subtracted : Nat]
    BY <1>6
  <2>2. plan' = Append(plan, p)
    BY <1>2
  <2> HIDE DEF p
  <2> QED BY <1>4, <2>1, <2>2, AppendOne
<1>9. TypeOK'
  <2>1. pc' \in Phases /\ at' \in Nat \ {0} /\ todo' \subseteq Nat
    BY <1>1, <1>3, <1>4 DEF Phases
  <2> QED BY <1>1, <1>7, <1>8, <2>1 DEF IInv, TypeOK, NumNodes
<1>10. TreeShape' /\ SegmentsInv' /\ QueueInv' /\ BatchInv' /\ BestInv'
  BY <1>1, <1>4, <1>5, <1>7, WorkingFrame
<1>11. PlanInv'
  <2> SUFFICES ASSUME NEW j \in DOMAIN plan'
               PROVE  /\ j \in DOMAIN valid
                      /\ plan'[j].parent = valid[j].nid
                      /\ LET node == tree[valid[j].nid]
                         IN \/ plan'[j].built = node.left /\ plan'[j].subtracted = node.right
                            \/ plan'[j].built = node.right /\ plan'[j].subtracted = node.left
                      /\ plan'[j].built \in DOMAIN hist'
    <3>1. pc' \in {"alloc_build", "build"}
      BY <1>1, <1>3
    <3>2. pc' = "build" => todo' = DOMAIN valid
      BY <1>1, <1>3
    <3> QED BY <1>1, <3>1, <3>2 DEF PlanInv
  <2>1. CASE j \in DOMAIN plan /\ plan'[j] = plan[j]
    BY <1>5, <1>7, <2>1 DEF IInv, PlanInv
  <2>2. CASE j = at /\ plan'[j] = p
    BY <1>4, <1>6, <1>7, <2>2
  <2> QED BY <1>8, <2>1, <2>2
<1>12. ControlInv'
  <2>1. last => Len(plan') = Len(valid')
    BY <1>1, <1>8
  <2>2. ~last => at + 1 <= Len(valid')
    BY <1>1, <1>4
  <2>3. DOMAIN plan' = 1 .. Len(plan')
    BY <1>8
  <2>4. CASE last
    BY <1>1, <1>3, <1>4, <2>1, <2>3, <2>4 DEF ControlInv
  <2>5. CASE ~last
    BY <1>1, <1>3, <1>4, <1>8, <2>2, <2>5 DEF ControlInv
  <2> QED BY <2>4, <2>5
<1> QED BY <1>9, <1>10, <1>11, <1>12 DEF IInv

(* A build task leaves a histogram that counts the rows of its node.        *)
LEMMA BuildHistsStep == IInv /\ BuildHists => IInv'
<1> SUFFICES ASSUME IInv, BuildHists PROVE IInv'
  OBVIOUS
<1>1. /\ pc = "build"
      /\ UNCHANGED <<param, trees, tree, segments, free, queue, level, expand_set,
                     num_leaves, valid, plan, best, at>>
  BY DEF BuildHists
<1>2. PICK i \in todo : BuildTask(i) /\ Join(i, "alloc_subtract")
  BY DEF BuildHists
<1> DEFINE b == plan[i].built
<1>3. /\ i \in DOMAIN plan /\ best = <<>> /\ at = 1 /\ Len(plan) = Len(valid)
      /\ todo \subseteq DOMAIN plan
      /\ valid \in Seq(Entries) /\ plan \in Seq([parent : Nat, built : Nat, subtracted : Nat])
  BY <1>1, <1>2 DEF IInv, ControlInv, TypeOK
<1>4. /\ todo' = todo \ {i} /\ pc' \in {"build", "alloc_subtract"}
      /\ pc' = "alloc_subtract" => todo' = {}
  BY <1>1, <1>2 DEF Join
<1>5. pc \in Working /\ pc' \in Working
  BY <1>1, <1>4 DEF Working
<1>6. b \in Nat /\ hist' = Put(hist, b, Counts(segments[b]))
  <2>1. plan[i] \in [parent : Nat, built : Nat, subtracted : Nat]
    <3>1. plan \in Seq([parent : Nat, built : Nat, subtracted : Nat]) /\ i \in 1 .. Len(plan)
      BY <1>3
    <3> QED BY <3>1, ElementOfSeq
  <2> QED BY <1>2, <2>1 DEF BuildTask
<1>7. /\ DOMAIN hist' = DOMAIN hist \cup {b}
      /\ \A m \in DOMAIN hist : m # b => hist'[m] = hist[m]
      /\ hist'[b] = Counts(segments[b])
      /\ DOMAIN hist' \subseteq Nat
      /\ \A m \in DOMAIN hist' : hist'[m] \in [Rows -> Int]
  <2> HIDE DEF b
  <2> QED BY <1>6, CountsType DEF Put, IInv, TypeOK
<1>8. TypeOK'
  <2>1. pc' \in Phases /\ todo' \subseteq Nat
    BY <1>4 DEF Phases, IInv, TypeOK
  <2> QED BY <1>1, <1>7, <2>1 DEF IInv, TypeOK, NumNodes
<1>9. /\ b \in {tree[valid[i].nid].left, tree[valid[i].nid].right} /\ i \in DOMAIN valid
      /\ \A k \in DOMAIN plan : k # i => b # plan[k].built
  BY <1>3, <1>5, PlanNodes
<1>10. TreeShape' /\ SegmentsInv' /\ QueueInv' /\ BatchInv' /\ BestInv'
  <2>1. /\ \A k \in DOMAIN queue : queue[k].nid # b
        /\ \A k \in DOMAIN expand_set : expand_set[k].nid # b
    BY <1>5, <1>9, ChildOfValid
  <2>2. best' = <<>>
    BY <1>1, <1>3
  <2> HIDE DEF b
  <2> QED BY <1>1, <1>5, <1>7, <2>1, <2>2, WorkingFrame
<1>11. PlanInv'
  <2> SUFFICES ASSUME NEW j \in DOMAIN plan
               PROVE  /\ plan[j].built \in DOMAIN hist'
                      /\ j \notin todo' => hist'[plan[j].built] = Counts(segments[plan[j].built])
    <3>1. pc' = "alloc_subtract" => at' = 1 /\ \A j \in DOMAIN plan : ~(j < at')
      BY <1>1, <1>3
    <3> QED BY <1>1, <1>3, <1>4, <3>1 DEF IInv, PlanInv
  <2>1. plan[j].built \in DOMAIN hist
    BY <1>5 DEF IInv, PlanInv
  <2>2. CASE j = i
    BY <1>7, <2>2
  <2>3. CASE j # i
    BY <1>1, <1>4, <1>7, <1>9, <2>1, <2>3 DEF IInv, PlanInv
  <2> QED BY <2>2, <2>3
<1>12. ControlInv'
  <2>1. Len(valid) >= 1
    BY <1>3
  <2> QED BY <1>1, <1>3, <1>4, <2>1 DEF ControlInv
<1> QED BY <1>8, <1>10, <1>11, <1>12 DEF IInv

(* Allocation for the siblings keeps what has been built.                   *)
LEMMA AllocSubtractStep == IInv /\ AllocSubtract => IInv'
<1> SUFFICES ASSUME IInv, AllocSubtract PROVE IInv'
  OBVIOUS
<1> DEFINE b == plan[at].subtracted
           last == at = Len(plan)
<1>1. /\ pc = "alloc_subtract" /\ Allocate(b)
      /\ UNCHANGED <<param, trees, tree, segments, queue, level, expand_set,
                     num_leaves, valid, plan, best>>
  BY DEF AllocSubtract
<1>2. /\ at' = IF last THEN 1 ELSE at + 1
      /\ todo' = IF last THEN DOMAIN plan ELSE {}
      /\ pc' = IF last THEN "subtract" ELSE pc
  BY DEF AllocSubtract
<1>3. /\ at \in DOMAIN plan /\ at \in Nat \ {0} /\ Len(plan) = Len(valid) /\ best = <<>>
      /\ valid \in Seq(Entries) /\ plan \in Seq([parent : Nat, built : Nat, subtracted : Nat])
      /\ at <= Len(valid)
  BY <1>1 DEF IInv, ControlInv, TypeOK
<1>4. pc \in Working /\ pc' \in Working
  BY <1>1, <1>2 DEF Working
<1>5. b \in Nat
  <2>1. plan[at] \in [parent : Nat, built : Nat, subtracted : Nat]
    <3>1. plan \in Seq([parent : Nat, built : Nat, subtracted : Nat]) /\ at \in 1 .. Len(plan)
      BY <1>3
    <3> QED BY <3>1, ElementOfSeq
  <2> QED BY <2>1
<1>6. /\ DOMAIN hist' = DOMAIN hist \cup {b}
      /\ \A m \in DOMAIN hist : hist'[m] = hist[m]
      /\ DOMAIN hist' \subseteq Nat
      /\ \A m \in DOMAIN hist' : hist'[m] \in [Rows -> Int]
      /\ free' \in Seq([Rows -> Int]) /\ Len(free') <= MaxCached
  BY <1>1, <1>5, AllocateEffect DEF IInv
<1> HIDE DEF last
<1>7. TypeOK'
  <2>1. pc' \in Phases /\ at' \in Nat \ {0} /\ todo' \subseteq Nat
    <3>1. DOMAIN plan \subseteq Nat
      BY <1>3
    <3> QED BY <1>1, <1>2, <1>3, <3>1 DEF Phases
  <2> QED BY <1>1, <1>6, <2>1 DEF IInv, TypeOK, NumNodes
<1>8. TreeShape' /\ SegmentsInv' /\ QueueInv' /\ BatchInv' /\ BestInv'
  BY <1>1, <1>3, <1>4, <1>6, WorkingFrame
<1>9. PlanInv'
  <2> SUFFICES ASSUME NEW j \in DOMAIN plan
               PROVE  /\ plan[j].built \in DOMAIN hist'
                      /\ hist'[plan[j].built] = Counts(segments[plan[j].built])
                      /\ last \/ j < at + 1 => plan[j].subtracted \in DOMAIN hist'
    <3>1. CASE last
      BY <1>1, <1>2, <3>1 DEF IInv, PlanInv
    <3>2. CASE ~last
      BY <1>1, <1>2, <3>2 DEF IInv, PlanInv
    <3> QED BY <3>1, <3>2
  <2>1. plan[j].built \in DOMAIN hist /\ hist[plan[j].built] = Counts(segments[plan[j].built])
    BY <1>1, <1>4 DEF IInv, PlanInv
  <2>2. CASE j < at
    BY <1>1, <1>6, <2>1, <2>2 DEF IInv, PlanInv
  <2>3. CASE j = at
    BY <1>6, <2>1, <2>3
  <2>4. CASE j > at
    <3>1. j \in Nat /\ at \in Nat /\ Len(plan) \in Nat /\ j <= Len(plan)
      BY <1>3
    <3>2. ~last /\ ~(j < at + 1)
      BY <2>4, <3>1 DEF last
    <3> QED BY <1>6, <2>1, <3>2
  <2> QED BY <1>3, <2>2, <2>3, <2>4
<1>10. ControlInv'
  <2>1. ~last => at + 1 <= Len(valid)
    BY <1>3 DEF last
  <2>2. CASE last
    BY <1>1, <1>2, <1>3, <2>2 DEF ControlInv
  <2>3. CASE ~last
    BY <1>1, <1>2, <1>3, <2>1, <2>3 DEF ControlInv
  <2> QED BY <2>2, <2>3
<1> QED BY <1>7, <1>8, <1>9, <1>10 DEF IInv

(* A subtract task finds parent and sibling intact and leaves the counts of *)
(* its node.                                                                *)
LEMMA SubtractHistsStep == IInv /\ SubtractHists => IInv'
<1> SUFFICES ASSUME IInv, SubtractHists PROVE IInv'
  OBVIOUS
<1>1. /\ pc = "subtract"
      /\ UNCHANGED <<param, trees, tree, segments, free, queue, level, expand_set,
                     num_leaves, valid, plan, best, at>>
  BY DEF SubtractHists
<1>2. PICK i \in todo : SubtractTask(i) /\ Join(i, "evaluate")
  BY DEF SubtractHists
<1> DEFINE c == plan[i].subtracted
           b == plan[i].built
           n == plan[i].parent
<1>3. /\ i \in DOMAIN plan /\ best = <<>> /\ at = 1 /\ Len(plan) = Len(valid)
      /\ todo \subseteq DOMAIN plan
      /\ valid \in Seq(Entries) /\ plan \in Seq([parent : Nat, built : Nat, subtracted : Nat])
  BY <1>1, <1>2 DEF IInv, ControlInv, TypeOK
<1>4. /\ todo' = todo \ {i} /\ pc' \in {"subtract", "evaluate"}
      /\ pc' = "evaluate" => todo' = {}
  BY <1>1, <1>2 DEF Join
<1>5. pc \in Working /\ pc' \in Working
  BY <1>1, <1>4 DEF Working
<1>6. /\ i \in DOMAIN valid /\ n = valid[i].nid /\ b # c
      /\ b \in {tree[n].left, tree[n].right} /\ c \in {tree[n].left, tree[n].right}
      /\ \A k \in DOMAIN plan : k # i => c # plan[k].built /\ c # plan[k].subtracted
  BY <1>3, <1>5, PlanNodes
<1>7. b \in DOMAIN segments /\ c \in DOMAIN segments /\ c \in Nat
  BY <1>5, <1>6, ChildOfValid
<1>8. /\ b \in DOMAIN hist /\ hist[b] = Counts(segments[b])
      /\ n \in DOMAIN hist /\ hist[n] = Counts(segments[c] \cup segments[b])
  <2>1. b \in DOMAIN hist /\ hist[b] = Counts(segments[b])
    BY <1>1, <1>3, <1>5 DEF IInv, PlanInv
  <2>2. PICK k \in DOMAIN expand_set : valid[i] = expand_set[k]
    BY <1>6 DEF IInv, BatchInv
  <2>3. /\ n \in DOMAIN hist
        /\ hist[n] = Counts(segments[tree[n].left] \cup segments[tree[n].right])
    BY <1>5, <1>6, <2>2 DEF IInv, BatchInv, ParentHist
  <2>4. segments[tree[n].left] \cup segments[tree[n].right] = segments[c] \cup segments[b]
    BY <1>6
  <2> QED BY <2>1, <2>3, <2>4
<1>9. hist' = Put(hist, c, Counts(segments[c]))
  <2>1. segments[c] \cap segments[b] = {}
    BY <1>6, <1>7 DEF IInv, SegmentsInv
  <2> QED BY <1>2, <1>8, <2>1, SubtractCounts DEF SubtractTask
<1> HIDE DEF c, b, n
<1>10. /\ DOMAIN hist' = DOMAIN hist \cup {c}
       /\ \A m \in DOMAIN hist : m # c => hist'[m] = hist[m]
       /\ hist'[c] = Counts(segments[c])
       /\ DOMAIN hist' \subseteq Nat
       /\ \A m \in DOMAIN hist' : hist'[m] \in [Rows -> Int]
  BY <1>7, <1>9, CountsType DEF Put, IInv, TypeOK
<1>11. TypeOK'
  <2>1. pc' \in Phases /\ todo' \subseteq Nat
    BY <1>4 DEF Phases, IInv, TypeOK
  <2> QED BY <1>1, <1>10, <2>1 DEF IInv, TypeOK, NumNodes
<1>12. TreeShape' /\ SegmentsInv' /\ QueueInv' /\ BatchInv' /\ BestInv'
  <2>1. /\ \A k \in DOMAIN queue : queue[k].nid # c
        /\ \A k \in DOMAIN expand_set : expand_set[k].nid # c
    BY <1>5, <1>6, ChildOfValid
  <2>2. best' = <<>>
    BY <1>1, <1>3
  <2> QED BY <1>1, <1>5, <1>10, <2>1, <2>2, WorkingFrame
<1>13. PlanInv'
  <2> SUFFICES ASSUME NEW j \in DOMAIN plan
               PROVE  /\ plan[j].built \in DOMAIN hist'
                      /\ hist'[plan[j].built] = Counts(segments[plan[j].built])
                      /\ plan[j].subtracted \in DOMAIN hist'
                      /\ j \notin todo' =>
                           hist'[plan[j].subtracted] = Counts(segments[plan[j].subtracted])
    BY <1>1, <1>4 DEF IInv, PlanInv
  <2>1. /\ plan[j].built \in DOMAIN hist
        /\ hist[plan[j].built] = Counts(segments[plan[j].built])
        /\ plan[j].subtracted \in DOMAIN hist
        /\ j \notin todo => hist[plan[j].subtracted] = Counts(segments[plan[j].subtracted])
    BY <1>1, <1>5 DEF IInv, PlanInv
  <2>2. CASE j = i
    BY <1>6, <1>10, <2>1, <2>2 DEF b, c
  <2>3. CASE j # i
    BY <1>4, <1>6, <1>10, <2>1, <2>3
  <2> QED BY <2>2, <2>3
<1>14. ControlInv'
  <2>1. Len(valid) >= 1
    BY <1>3
  <2> QED BY <1>1, <1>3, <1>4, <2>1 DEF ControlInv
<1> QED BY <1>11, <1>12, <1>13, <1>14 DEF IInv

-----------------------------------------------------------------------------
(* The end of a batch. *)

(* The children evaluated become candidates with right histograms.          *)
LEMMA EvaluateSplitsStep == IInv /\ EvaluateSplits => IInv'
<1> SUFFICES ASSUME IInv, EvaluateSplits PROVE IInv'
  OBVIOUS
<1> DEFINE n == valid[at].nid
           l == tree[n].left
           r == tree[n].right
           last == at = Len(valid)
<1>1. /\ pc = "evaluate"
      /\ UNCHANGED <<param, trees, tree, segments, hist, free, queue, level,
                     expand_set, num_leaves, valid, plan, todo>>
      /\ at' = IF last THEN 1 ELSE at + 1
      /\ pc' = IF last THEN "release" ELSE pc
  BY DEF EvaluateSplits
<1>2. PICK s \in Splits(hist[l]), t \in Splits(hist[r]) :
        best' = best \o <<Entry(l, s), Entry(r, t)>>
  BY DEF EvaluateSplits
<1>3. /\ at \in DOMAIN valid /\ at \in Nat \ {0} /\ Len(plan) = Len(valid)
      /\ valid \in Seq(Entries) /\ plan \in Seq([parent : Nat, built : Nat, subtracted : Nat])
      /\ at \in DOMAIN plan /\ best \in Seq(Entries) /\ DOMAIN valid = 1 .. Len(valid)
      /\ Len(valid) \in Nat
  BY <1>1 DEF IInv, ControlInv, TypeOK
<1>4. pc \in Working
  BY <1>1 DEF Working
<1>5. /\ l \in DOMAIN tree /\ l \in Nat /\ l \in DOMAIN segments
      /\ tree[l].left = None /\ tree[l].parent = n
      /\ \A i \in DOMAIN queue : queue[i].nid # l
      /\ r \in DOMAIN tree /\ r \in Nat /\ r \in DOMAIN segments
      /\ tree[r].left = None /\ tree[r].parent = n
      /\ \A i \in DOMAIN queue : queue[i].nid # r
  BY <1>3, <1>4, ChildOfValid
<1>6. /\ plan[at].built \in DOMAIN hist /\ plan[at].subtracted \in DOMAIN hist
      /\ hist[plan[at].built] = Counts(segments[plan[at].built])
      /\ hist[plan[at].subtracted] = Counts(segments[plan[at].subtracted])
      /\ \/ plan[at].built = l /\ plan[at].subtracted = r
         \/ plan[at].built = r /\ plan[at].subtracted = l
      /\ plan[at].built # plan[at].subtracted
  BY <1>1, <1>3, <1>4, PlanNodes DEF IInv, PlanInv
<1>7. Good(l, segments, hist) /\ Good(r, segments, hist) /\ l # r
  BY <1>5, <1>6 DEF Good
<1> DEFINE d == Entry(l, s)
           e == Entry(r, t)
<1>8. /\ d \in Entries /\ d.nid = l /\ Candidate(d, tree, segments, hist)
      /\ e \in Entries /\ e.nid = r /\ Candidate(e, tree, segments, hist)
  <2>1. ASSUME NEW c \in DOMAIN tree, c \in Nat, Good(c, segments, hist), tree[c].left = None,
               NEW u \in Splits(hist[c])
        PROVE  /\ Entry(c, u) \in Entries /\ Entry(c, u).nid = c
               /\ Candidate(Entry(c, u), tree, segments, hist)
    <3>1. u \in Splits(Counts(segments[c])) /\ segments[c] \in SUBSET Rows
      BY <2>1 DEF Good, IInv, TypeOK
    <3>2. /\ u \in [gain : 0 .. MaxGain, rule : SUBSET Rows]
          /\ u.gain > 0 => u.rule # {} /\ u.rule \subseteq segments[c] /\ u.rule # segments[c]
      BY <3>1, SplitsSeparate
    <3>3. tree[c].depth \in Nat
      BY DEF IInv, TypeOK
    <3> QED BY <2>1, <3>2, <3>3 DEF Entry, Entries, Candidate
  <2> QED BY <1>2, <1>5, <1>7, <2>1
<1> HIDE DEF d, e
<1>9. /\ best' \in Seq(Entries)
      /\ \A k \in DOMAIN best' : \/ k \in DOMAIN best /\ best'[k] = best[k]
                                 \/ k = Len(best) + 1 /\ best'[k] = d
                                 \/ k = Len(best) + 2 /\ best'[k] = e
  <2>1. best' = best \o <<d, e>>
    BY <1>2 DEF d, e
  <2>2. <<d, e>> \in Seq(Entries) /\ Len(<<d, e>>) = 2
    BY <1>8
  <2> DEFINE u == <<d, e>>
  <2>3. u[1] = d /\ u[2] = e
    OBVIOUS
  <2> HIDE DEF u
  <2>4. /\ best \o u \in Seq(Entries) /\ Len(best \o u) = Len(best) + 2
        /\ \A k \in 1 .. Len(best) + 2 :
             (best \o u)[k] = IF k <= Len(best) THEN best[k] ELSE u[k - Len(best)]
    BY <1>3, <2>2, ConcatProperties DEF u
  <2>5. ASSUME NEW k \in DOMAIN (best \o u)
        PROVE  \/ k \in DOMAIN best /\ (best \o u)[k] = best[k]
               \/ k = Len(best) + 1 /\ (best \o u)[k] = d
               \/ k = Len(best) + 2 /\ (best \o u)[k] = e
    <3>1. Len(best) \in Nat /\ DOMAIN best = 1 .. Len(best)
          /\ k \in 1 .. Len(best) + 2
      BY <1>3, <2>4
    <3>2. CASE k <= Len(best)
      BY <2>4, <3>1, <3>2
    <3>3. CASE k = Len(best) + 1
      <4>1. (best \o u)[k] = u[1]
        BY <2>4, <3>1, <3>3
      <4> QED BY <2>3, <3>3, <4>1
    <3>4. CASE k = Len(best) + 2
      <4>1. (best \o u)[k] = u[2]
        BY <2>4, <3>1, <3>4
      <4> QED BY <2>3, <3>4, <4>1
    <3> QED BY <3>1, <3>2, <3>3, <3>4
  <2>6. best' = best \o u
    BY <2>1 DEF u
  <2> QED BY <2>4, <2>5, <2>6
<1>10. TypeOK'
  <2>1. at' \in Nat \ {0}
    <3>1. at \in Nat \ {0}
      BY <1>3
    <3> QED BY <1>1, <3>1
  <2>2. pc' \in Phases
    BY <1>1 DEF Phases
  <2> QED BY <1>1, <1>9, <2>1, <2>2 DEF IInv, TypeOK, NumNodes
<1>11. TreeShape' /\ SegmentsInv'
  BY <1>1, SameTree DEF IInv
<1>12. \A k \in DOMAIN best : tree[best[k].nid].parent # n /\ best[k].nid # l /\ best[k].nid # r
  <2> SUFFICES ASSUME NEW k \in DOMAIN best PROVE tree[best[k].nid].parent # n
    BY <1>5
  <2>1. PICK m \in DOMAIN valid : tree[best[k].nid].parent = valid[m].nid /\ m < at
    BY <1>1 DEF IInv, BestInv
  <2>2. m \in Nat /\ m # at
    <3>1. m \in Nat /\ at \in Nat
      BY <1>3
    <3> QED BY <2>1, <3>1
  <2>3. Distinct(valid)
    BY DEF IInv, BatchInv
  <2>4. valid[m].nid # n
    BY <1>3, <2>2, <2>3 DEF Distinct
  <2> QED BY <2>1, <2>4
<1>13. BestInv'
  <2>1. Distinct(best')
    <3>1. Distinct(best)
      BY DEF IInv, BestInv
    <3> SUFFICES ASSUME NEW i \in DOMAIN best', NEW j \in DOMAIN best',
                        best'[i].nid = best'[j].nid
                 PROVE  i = j
      BY DEF Distinct
    <3> HIDE DEF l, r
    <3>2. CASE i \in DOMAIN best /\ best'[i] = best[i]
      BY <1>7, <1>8, <1>9, <1>12, <3>1, <3>2 DEF Distinct
    <3>3. CASE j \in DOMAIN best /\ best'[j] = best[j]
      BY <1>7, <1>8, <1>9, <1>12, <3>1, <3>3 DEF Distinct
    <3>4. CASE /\ (i = Len(best) + 1 /\ best'[i] = d) \/ (i = Len(best) + 2 /\ best'[i] = e)
               /\ (j = Len(best) + 1 /\ best'[j] = d) \/ (j = Len(best) + 2 /\ best'[j] = e)
      BY <1>7, <1>8, <3>4
    <3> QED BY <1>9, <3>2, <3>3, <3>4
  <2>2. ASSUME NEW k \in DOMAIN best'
        PROVE  /\ Candidate(best'[k], tree', segments', hist')
               /\ \E m \in DOMAIN valid : /\ tree[best'[k].nid].parent = valid[m].nid
                                          /\ m <= at
    <3>1. CASE best'[k] = d \/ best'[k] = e
      <4>1. Candidate(best'[k], tree, segments, hist)
        BY <1>8, <3>1
      <4>2. tree[best'[k].nid].parent = valid[at].nid
        BY <1>5, <1>8, <3>1
      <4> QED BY <1>1, <1>3, <4>1, <4>2
    <3>2. CASE k \in DOMAIN best /\ best'[k] = best[k]
      <4>1. Candidate(best[k], tree, segments, hist)
        BY <3>2 DEF IInv, BestInv
      <4>2. PICK m \in DOMAIN valid : tree[best[k].nid].parent = valid[m].nid /\ m < at
        BY <1>1, <3>2 DEF IInv, BestInv
      <4>3. Candidate(best'[k], tree', segments', hist')
        BY <1>1, <3>2, <4>1 DEF Candidate, Good
      <4>4. m \in Nat /\ at \in Nat
        BY <1>3
      <4> QED BY <1>1, <3>2, <4>2, <4>3, <4>4
    <3> QED BY <1>9, <3>1, <3>2
  <2>3. pc' = "evaluate" => at' = at + 1
    BY <1>1
  <2>4. \A m \in DOMAIN valid : m <= at => (pc' = "evaluate" => m < at')
    BY <1>3, <2>3
  <2> QED BY <1>1, <2>1, <2>2, <2>4 DEF BestInv
<1>14. QueueInv'
  <2>1. \A i \in DOMAIN queue, j \in DOMAIN best' : queue[i].nid # best'[j].nid
    <3>1. \A i \in DOMAIN queue, j \in DOMAIN best : queue[i].nid # best[j].nid
      BY <1>1 DEF IInv, QueueInv
    <3> QED BY <1>5, <1>8, <1>9, <3>1
  <2>2. pc # "push" /\ pc' # "push"
    BY <1>1
  <2> QED BY <1>1, <2>1, <2>2 DEF IInv, QueueInv, Distinct, Candidate, Good
<1>15. BatchInv'
  <2>1. pc' \in Working \cup {"release"}
    BY <1>1 DEF Working
  <2>2. \A i \in DOMAIN expand_set : /\ Divided(expand_set[i], tree', segments')
                                     /\ ParentHist(expand_set[i], tree', segments', hist')
    BY <1>1, <1>4 DEF IInv, BatchInv, Divided, LeafChildren, ParentHist
  <2>3. pc' \notin {"fill", "apply", "partition"}
    BY <2>1 DEF Working
  <2> QED BY <1>1, <2>2, <2>3 DEF IInv, BatchInv, Distinct
<1>16. PlanInv'
  BY <1>1 DEF IInv, PlanInv, Working
<1>17. ControlInv'
  <2>1. ~last => at + 1 <= Len(valid)
    BY <1>3
  <2>2. 1 <= Len(expand_set)
    <3>1. PICK i \in DOMAIN expand_set : valid[at] = expand_set[i]
      BY <1>3 DEF IInv, BatchInv
    <3> QED BY <3>1 DEF IInv, TypeOK
  <2>3. CASE last
    BY <1>1, <1>3, <2>2, <2>3 DEF IInv, ControlInv
  <2>4. CASE ~last
    BY <1>1, <1>3, <2>1, <2>4 DEF IInv, ControlInv
  <2> QED BY <2>3, <2>4
<1> QED BY <1>10, <1>11, <1>13, <1>14, <1>15, <1>16, <1>17 DEF IInv

(* Releasing a parent disturbs no candidate.                                *)
LEMMA ReleaseParentsStep == IInv /\ ReleaseParents => IInv'
<1> SUFFICES ASSUME IInv, ReleaseParents PROVE IInv'
  OBVIOUS
<1> DEFINE n == expand_set[at].nid
           last == at = Len(expand_set)
<1>1. /\ pc = "release" /\ Release(n)
      /\ UNCHANGED <<param, trees, tree, segments, queue, level, expand_set,
                     num_leaves, valid, plan, best, todo>>
      /\ at' = IF last THEN 1 ELSE at + 1
      /\ pc' = IF last THEN "push" ELSE pc
  BY DEF ReleaseParents
<1>2. /\ at \in DOMAIN expand_set /\ at \in Nat \ {0} /\ expand_set \in Seq(Entries)
      /\ Len(expand_set) \in Nat /\ best \in Seq(Entries) /\ queue \in Seq(Entries)
  BY <1>1 DEF IInv, ControlInv, TypeOK
<1>3. /\ DOMAIN hist' = DOMAIN hist \ {n}
      /\ \A m \in DOMAIN hist' : hist'[m] = hist[m]
      /\ DOMAIN hist' \subseteq Nat
      /\ \A m \in DOMAIN hist' : hist'[m] \in [Rows -> Int]
      /\ free' \in Seq([Rows -> Int]) /\ Len(free') <= MaxCached
  BY <1>1, ReleaseEffect DEF IInv
<1>4. TypeOK'
  <2>1. pc' \in Phases /\ at' \in Nat \ {0}
    BY <1>1, <1>2 DEF Phases
  <2> QED BY <1>1, <1>3, <2>1 DEF IInv, TypeOK, NumNodes
<1>5. TreeShape' /\ SegmentsInv'
  BY <1>1, SameTree DEF IInv
<1>6. tree[n].left # None
  BY <1>1, <1>2 DEF IInv, BatchInv, Divided, LeafChildren
<1> HIDE DEF n, last
<1>7. ASSUME NEW e, Candidate(e, tree, segments, hist)
      PROVE  Candidate(e, tree', segments', hist')
  BY <1>1, <1>3, <1>6, <1>7 DEF Candidate, Good
<1>8. \A i \in DOMAIN queue : Candidate(queue[i], tree', segments', hist')
  BY <1>7 DEF IInv, QueueInv
<1>9. \A i \in DOMAIN best : Candidate(best[i], tree', segments', hist')
  BY <1>7 DEF IInv, BestInv
<1>10. QueueInv'
  BY <1>1, <1>8 DEF IInv, QueueInv, Distinct
<1>11. BatchInv'
  <2>1. \A i \in DOMAIN expand_set : Divided(expand_set[i], tree', segments')
    BY <1>1 DEF IInv, BatchInv, Divided, LeafChildren
  <2> QED BY <1>1, <2>1 DEF IInv, BatchInv, Distinct, Working
<1>12. PlanInv'
  BY <1>1 DEF IInv, PlanInv, Working
<1>13. BestInv'
  BY <1>1, <1>9 DEF IInv, BestInv, Distinct
<1>14. ControlInv'
  <2>1. ~last => at + 1 <= Len(expand_set)
    BY <1>1, <1>2 DEF last, IInv, ControlInv
  <2> QED BY <1>1, <2>1 DEF IInv, ControlInv
<1> QED BY <1>4, <1>5, <1>10, <1>11, <1>12, <1>13, <1>14 DEF IInv

(* A child found to gain moves to the queue.                                *)
LEMMA PushStep == IInv /\ Push => IInv'
<1> SUFFICES ASSUME IInv, Push PROVE IInv'
  OBVIOUS
<1> DEFINE e == best[at]
<1>1. /\ pc = "push" /\ at <= Len(best) /\ at' = at + 1
      /\ queue' = IF e.gain > 0 THEN Append(queue, e) ELSE queue
      /\ UNCHANGED <<pc, param, trees, tree, segments, hist, free, level, expand_set,
                     num_leaves, valid, plan, best, todo>>
  BY DEF Push
<1>2. /\ at \in DOMAIN best /\ at \in Nat \ {0} /\ best \in Seq(Entries) /\ e \in Entries
      /\ queue \in Seq(Entries) /\ DOMAIN best \subseteq Nat
  BY <1>1 DEF IInv, TypeOK
<1>3. Candidate(e, tree, segments, hist)
  BY <1>2 DEF IInv, BestInv
<1>4. \A i \in DOMAIN queue : queue[i].nid # e.nid
  BY <1>1, <1>2 DEF IInv, QueueInv
<1>5. \A j \in DOMAIN expand_set : e.nid # expand_set[j].nid
  BY <1>1, <1>3 DEF IInv, BatchInv, Divided, LeafChildren, Candidate
<1>6. \A j \in DOMAIN best : e.nid = best[j].nid => j < at + 1
  BY <1>2 DEF IInv, BestInv, Distinct
<1> HIDE DEF e
<1>7. /\ queue' \in Seq(Entries)
      /\ \A k \in DOMAIN queue' : \/ k \in DOMAIN queue /\ queue'[k] = queue[k]
                                  \/ k = Len(queue) + 1 /\ queue'[k] = e /\ e.gain > 0
  <2>1. CASE e.gain > 0
    BY <1>1, <1>2, <2>1, AppendOne
  <2>2. CASE ~(e.gain > 0)
    BY <1>1, <1>2, <2>2
  <2> QED BY <2>1, <2>2
<1>8. TypeOK'
  BY <1>1, <1>2, <1>7, SMTT(40) DEF IInv, TypeOK, NumNodes
<1>9. TreeShape' /\ SegmentsInv'
  BY <1>1, SameTree DEF IInv
<1>10. QueueInv'
  <2>1. Distinct(queue')
    <3>1. Distinct(queue)
      BY DEF IInv, QueueInv
    <3> QED BY <1>4, <1>7, <3>1 DEF Distinct
  <2>2. ASSUME NEW i \in DOMAIN queue'
        PROVE  /\ Candidate(queue'[i], tree', segments', hist') /\ queue'[i].gain > 0
               /\ \A j \in DOMAIN expand_set : queue'[i].nid # expand_set[j].nid
               /\ \A j \in DOMAIN best : queue'[i].nid = best[j].nid => j < at + 1
    <3>1. CASE queue'[i] = e /\ e.gain > 0
      BY <1>1, <1>3, <1>5, <1>6, <3>1 DEF Candidate, Good
    <3>2. CASE i \in DOMAIN queue /\ queue'[i] = queue[i]
      <4>1. /\ Candidate(queue[i], tree, segments, hist) /\ queue[i].gain > 0
            /\ \A j \in DOMAIN expand_set : queue[i].nid # expand_set[j].nid
            /\ \A j \in DOMAIN best : queue[i].nid = best[j].nid => j < at
        BY <1>1, <3>2 DEF IInv, QueueInv
      <4>2. Candidate(queue'[i], tree', segments', hist')
        BY <1>1, <3>2, <4>1 DEF Candidate, Good
      <4> QED BY <1>2, <3>2, <4>1, <4>2
    <3> QED BY <1>7, <3>1, <3>2
  <2> QED BY <1>1, <2>1, <2>2 DEF QueueInv
<1>11. BatchInv'
  <2>1. \A i \in DOMAIN expand_set : Divided(expand_set[i], tree', segments')
    BY <1>1 DEF IInv, BatchInv, Divided, LeafChildren
  <2> QED BY <1>1, <2>1 DEF IInv, BatchInv, Distinct, Working
<1>12. PlanInv'
  BY <1>1 DEF IInv, PlanInv, Working
<1>13. BestInv'
  BY <1>1 DEF IInv, BestInv, Distinct, Candidate, Good
<1>14. ControlInv'
  BY <1>1 DEF IInv, ControlInv
<1> QED BY <1>8, <1>9, <1>10, <1>11, <1>12, <1>13, <1>14 DEF IInv

(* The end of a batch leaves only waiting candidates.                       *)
LEMMA PushEndStep == IInv /\ PushEnd => IInv'
<1> SUFFICES ASSUME IInv, PushEnd PROVE IInv'
  OBVIOUS
<1>1. /\ pc = "push" /\ pc' = "pop" /\ at' = 1
      /\ valid' = <<>> /\ plan' = <<>> /\ best' = <<>> /\ expand_set' = <<>>
      /\ UNCHANGED <<param, trees, tree, segments, hist, free, queue, level,
                     num_leaves, todo>>
  BY DEF PushEnd
<1>2. TypeOK'
  <2>1. /\ valid' \in Seq(Entries) /\ best' \in Seq(Entries) /\ expand_set' \in Seq(Entries)
        /\ plan' \in Seq([parent : Nat, built : Nat, subtracted : Nat])
    BY <1>1
  <2> QED BY <1>1, <2>1 DEF IInv, TypeOK, Phases, NumNodes
<1>3. TreeShape' /\ SegmentsInv'
  BY <1>1, SameTree DEF IInv
<1>4. QueueInv'
  BY <1>1 DEF IInv, QueueInv, Distinct, Candidate, Good
<1>5. BatchInv' /\ PlanInv' /\ BestInv'
  BY <1>1 DEF BatchInv, PlanInv, BestInv, Distinct, Working
<1>6. ControlInv'
  BY <1>1 DEF ControlInv
<1> QED BY <1>2, <1>3, <1>4, <1>5, <1>6 DEF IInv

-----------------------------------------------------------------------------
(* Between trees. *)

(* The invariant of a tree that has only its root.                          *)
LEMMA FreshTree ==
  ASSUME TypeOK', pc' \in {"reset", "root"}, tree' = RootTree, segments' = RootSegments,
         queue' = <<>>, expand_set' = <<>>, valid' = <<>>, plan' = <<>>, best' = <<>>
  PROVE  IInv'
<1>1. TreeShape' /\ SegmentsInv'
  BY GrowerAssumption DEF TreeShape, SegmentsInv, RootTree, RootSegments, Leaf
<1>2. QueueInv' /\ BatchInv' /\ PlanInv' /\ BestInv'
  BY DEF QueueInv, BatchInv, PlanInv, BestInv, Distinct, Working
<1>3. ControlInv'
  BY DEF ControlInv
<1> QED BY <1>1, <1>2, <1>3 DEF IInv

(* A reset starts again from the root.                                      *)
LEMMA NextTreeStep == IInv /\ NextTree => IInv'
<1> SUFFICES ASSUME IInv, NextTree PROVE IInv'
  OBVIOUS
<1>1. /\ pc = "done" /\ pc' = "reset" /\ trees < MaxTrees /\ trees' = trees + 1
      /\ tree' = RootTree /\ segments' = RootSegments /\ queue' = <<>>
      /\ UNCHANGED <<param, hist, free, level, expand_set, num_leaves, valid, plan,
                     best, at, todo>>
  BY DEF NextTree
<1>2. expand_set = <<>> /\ valid = <<>> /\ plan = <<>> /\ best = <<>>
  BY <1>1 DEF IInv, ControlInv
<1>3. TypeOK'
  <2>1. DOMAIN tree' = {0}
    BY <1>1 DEF RootTree
  <2>2. NumNodes' = 1
    BY <2>1, FS_Singleton DEF NumNodes
  <2>3. trees' \in 1 .. MaxTrees
    BY <1>1, GrowerAssumption DEF IInv, TypeOK
  <2>4. \A n \in DOMAIN tree' :
          tree'[n] \in [parent : {None} \cup Nat, left : {None} \cup Nat,
                        right : {None} \cup Nat, depth : Nat, rule : SUBSET Rows]
    BY <1>1 DEF RootTree, Leaf, None
  <2>5. /\ DOMAIN segments' \subseteq DOMAIN tree'
        /\ \A n \in DOMAIN segments' : segments'[n] \in SUBSET Rows
    BY <1>1 DEF RootTree, RootSegments
  <2>6. queue' \in Seq(Entries) /\ pc' \in Phases
    BY <1>1 DEF Phases
  <2>7. NumNodes' \in Nat \ {0} /\ DOMAIN tree' = 0 .. NumNodes' - 1
    BY <2>1, <2>2
  <2> QED BY <1>1, <2>3, <2>4, <2>5, <2>6, <2>7 DEF IInv, TypeOK
<1> QED BY <1>1, <1>2, <1>3, FreshTree

(* Clearing the histograms of the old tree keeps the free list in bounds.   *)
LEMMA ClearHistStep == IInv /\ ClearHist => IInv'
<1> SUFFICES ASSUME IInv, ClearHist PROVE IInv'
  OBVIOUS
<1>1. /\ pc = "reset"
      /\ UNCHANGED <<pc, param, trees, tree, segments, queue, level, expand_set,
                     num_leaves, valid, plan, best, at, todo>>
  BY DEF ClearHist
<1>2. /\ tree = RootTree /\ segments = RootSegments /\ queue = <<>>
      /\ expand_set = <<>> /\ valid = <<>> /\ plan = <<>> /\ best = <<>>
  BY <1>1 DEF IInv, ControlInv
<1>3. PICK n \in DOMAIN hist : Release(n)
  BY DEF ClearHist
<1>4. TypeOK'
  BY <1>1, <1>3, ReleaseEffect DEF IInv, TypeOK, NumNodes
<1> QED BY <1>1, <1>2, <1>4, FreshTree

(* A cleared grower is ready for the next root.                             *)
LEMMA ResetDoneStep == IInv /\ ResetDone => IInv'
<1> SUFFICES ASSUME IInv, ResetDone PROVE IInv'
  OBVIOUS
<1>1. /\ pc = "reset" /\ pc' = "root"
      /\ UNCHANGED <<param, trees, tree, segments, hist, free, queue, level,
                     expand_set, num_leaves, valid, plan, best, at, todo>>
  BY DEF ResetDone
<1>2. /\ tree = RootTree /\ segments = RootSegments /\ queue = <<>>
      /\ expand_set = <<>> /\ valid = <<>> /\ plan = <<>> /\ best = <<>>
  BY <1>1 DEF IInv, ControlInv
<1>3. TypeOK'
  BY <1>1 DEF IInv, TypeOK, Phases, NumNodes
<1> QED BY <1>1, <1>2, <1>3, FreshTree

(* A step that changes nothing keeps the invariant.                         *)
LEMMA StutterStep == IInv /\ UNCHANGED vars => IInv'
<1> SUFFICES ASSUME IInv, UNCHANGED vars PROVE IInv'
  OBVIOUS
<1>1. TypeOK'
  BY DEF IInv, TypeOK, NumNodes, vars
<1>2. TreeShape' /\ SegmentsInv'
  BY SameTree DEF IInv, vars
<1>3. QueueInv'
  BY DEF IInv, QueueInv, Distinct, Candidate, Good, vars
<1>4. BatchInv'
  <2>1. UNCHANGED <<pc, tree, segments, hist, expand_set, valid, at, todo>>
    BY DEF vars
  <2>2. \A i \in DOMAIN expand_set :
          /\ Candidate(expand_set[i], tree, segments, hist)
               <=> Candidate(expand_set'[i], tree', segments', hist')
          /\ Applied(expand_set[i], tree, segments, hist)
               <=> Applied(expand_set'[i], tree', segments', hist')
          /\ Divided(expand_set[i], tree, segments)
               <=> Divided(expand_set'[i], tree', segments')
          /\ ParentHist(expand_set[i], tree, segments, hist)
               <=> ParentHist(expand_set'[i], tree', segments', hist')
    BY <2>1
  <2> QED BY <2>1, <2>2 DEF IInv, BatchInv, Distinct
<1>5. PlanInv'
  BY DEF IInv, PlanInv, vars
<1>6. BestInv'
  BY DEF IInv, BestInv, Distinct, Candidate, Good, vars
<1>7. ControlInv'
  BY DEF IInv, ControlInv, vars
<1> QED BY <1>1, <1>2, <1>3, <1>4, <1>5, <1>6, <1>7 DEF IInv

-----------------------------------------------------------------------------
(* The rows of a node dealt to its children. *)

(* What one task of split_all does to the row sets.                         *)
LEMMA PartitionEffect ==
  ASSUME IInv, pc = "partition", NEW i \in DOMAIN expand_set, i \in todo, PartitionTask(i)
  PROVE  LET n == expand_set[i].nid
             l == tree[n].left
             r == tree[n].right
         IN /\ n \in DOMAIN tree /\ l \in DOMAIN tree /\ r \in DOMAIN tree /\ l # r
            /\ tree[n].left # None /\ tree[l].left = None /\ tree[r].left = None
            /\ tree[l].parent = n /\ tree[r].parent = n
            /\ n \in DOMAIN segments /\ l \notin DOMAIN segments /\ r \notin DOMAIN segments
            /\ DOMAIN segments' = (DOMAIN segments \ {n}) \cup {l, r}
            /\ segments'[l] = segments[n] \cap tree[n].rule
            /\ segments'[r] = segments[n] \ tree[n].rule
            /\ segments'[l] # {} /\ segments'[r] # {}
            /\ segments'[l] \cup segments'[r] = segments[n]
            /\ segments'[l] \cap segments'[r] = {}
            /\ \A m \in DOMAIN segments \ {n} : m \in DOMAIN segments' /\ segments'[m] = segments[m]
<1> DEFINE n == expand_set[i].nid
           l == tree[n].left
           r == tree[n].right
           A == segments[n] \cap tree[n].rule
           B == segments[n] \ tree[n].rule
<1>1. Applied(expand_set[i], tree, segments, hist)
  BY DEF IInv, BatchInv
<1>2. segments' = Put(Put(Drop(segments, n), l, A), r, B)
  BY DEF PartitionTask
<1>3. /\ n \in DOMAIN tree /\ tree[n].left # None /\ tree[l].left = None /\ tree[r].left = None
      /\ n \in DOMAIN segments
      /\ A # {} /\ B # {} /\ A \cup B = segments[n] /\ A \cap B = {}
  BY <1>1 DEF Applied, LeafChildren, Good
<1>4. /\ l \in DOMAIN tree /\ r \in DOMAIN tree /\ l # r
      /\ tree[l].parent = n /\ tree[r].parent = n
  BY <1>3 DEF IInv, TreeShape
<1>5. l \notin DOMAIN segments /\ r \notin DOMAIN segments
  BY <1>3 DEF IInv, SegmentsInv
<1> HIDE DEF n, l, r, A, B
<1>6. /\ DOMAIN segments' = (DOMAIN segments \ {n}) \cup {l, r}
      /\ segments'[l] = A /\ segments'[r] = B
      /\ \A m \in DOMAIN segments \ {n} : m \in DOMAIN segments' /\ segments'[m] = segments[m]
  BY <1>2, <1>4, <1>5 DEF Put, Drop
<1> QED BY <1>3, <1>4, <1>5, <1>6 DEF n, l, r, A, B

(* A task of split_all deals the rows of one member of the batch to its     *)
(* children and leaves the others' rows alone.                              *)
LEMMA SplitAllStep == IInv /\ SplitAll => IInv'
<1> SUFFICES ASSUME IInv, SplitAll PROVE IInv'
  OBVIOUS
<1>1. /\ pc = "partition"
      /\ UNCHANGED <<param, trees, tree, hist, free, queue, level, expand_set,
                     num_leaves, valid, plan, best, at>>
  BY DEF SplitAll
<1>2. PICK i \in todo :
        PartitionTask(i) /\ Join(i, IF valid = <<>> THEN "release" ELSE "alloc_build")
  BY DEF SplitAll
<1> DEFINE n == expand_set[i].nid
           l == tree[n].left
           r == tree[n].right
<1>3. /\ i \in DOMAIN expand_set /\ todo \subseteq DOMAIN expand_set /\ at = 1
      /\ plan = <<>> /\ best = <<>> /\ expand_set \in Seq(Entries) /\ valid \in Seq(Entries)
  BY <1>1, <1>2 DEF IInv, ControlInv, TypeOK
<1>4. /\ todo' = todo \ {i} /\ pc' \in {"partition", "release", "alloc_build"}
      /\ pc' # "partition" => todo' = {}
      /\ pc' = "alloc_build" => valid # <<>>
  BY <1>1, <1>2 DEF Join
<1>5. /\ n \in DOMAIN tree /\ l \in DOMAIN tree /\ r \in DOMAIN tree /\ l # r
      /\ tree[n].left # None /\ tree[l].left = None /\ tree[r].left = None
      /\ tree[l].parent = n /\ tree[r].parent = n
      /\ n \in DOMAIN segments /\ l \notin DOMAIN segments /\ r \notin DOMAIN segments
      /\ DOMAIN segments' = (DOMAIN segments \ {n}) \cup {l, r}
      /\ segments'[l] # {} /\ segments'[r] # {}
      /\ segments'[l] \cup segments'[r] = segments[n]
      /\ segments'[l] \cap segments'[r] = {}
      /\ \A m \in DOMAIN segments \ {n} : m \in DOMAIN segments' /\ segments'[m] = segments[m]
  BY <1>1, <1>2, <1>3, PartitionEffect
<1>6. hist[n] = Counts(segments[n]) /\ n \in DOMAIN hist
  BY <1>1, <1>2, <1>3 DEF IInv, BatchInv, Applied, Good
<1> HIDE DEF n, l, r
<1>7. TypeOK'
  <2>1. pc' \in Phases /\ todo' \subseteq Nat
    BY <1>4 DEF Phases, IInv, TypeOK
  <2>2. \A m \in DOMAIN segments' : segments'[m] \in SUBSET Rows /\ m \in DOMAIN tree
    BY <1>5 DEF IInv, TypeOK
  <2> QED BY <1>1, <2>1, <2>2 DEF IInv, TypeOK, NumNodes
<1>8. TreeShape'
  BY <1>1 DEF IInv, TreeShape
<1>9. SegmentsInv'
  <2>1. /\ DOMAIN segments \subseteq DOMAIN tree
        /\ \A m \in DOMAIN segments : segments[m] # {} /\ segments[m] \subseteq Rows
        /\ \A m, k \in DOMAIN segments : m # k => segments[m] \cap segments[k] = {}
        /\ \A w \in Rows : \E m \in DOMAIN segments : w \in segments[m]
    BY DEF IInv, SegmentsInv
  <2>2. \A m \in DOMAIN segments' : segments'[m] # {} /\ segments'[m] \subseteq Rows
    BY <1>5, <2>1
  <2>3. \A m, k \in DOMAIN segments' : m # k => segments'[m] \cap segments'[k] = {}
    <3>1. ASSUME NEW m \in DOMAIN segments \ {n}
          PROVE  segments[m] \cap segments'[l] = {} /\ segments[m] \cap segments'[r] = {}
      <4>1. segments[m] \cap segments[n] = {}
        BY <1>5, <2>1
      <4> QED BY <1>5, <4>1
    <3> QED BY <1>5, <2>1, <3>1
  <2>4. ASSUME NEW w \in Rows PROVE \E m \in DOMAIN segments' : w \in segments'[m]
    <3>1. PICK m \in DOMAIN segments : w \in segments[m]
      BY <2>1
    <3>2. CASE m = n
      BY <1>5, <3>1, <3>2
    <3>3. CASE m # n
      BY <1>5, <3>1, <3>3
    <3> QED BY <3>2, <3>3
  <2>5. ASSUME NEW m \in DOMAIN segments', tree[m].left # None
        PROVE  tree[m].left \notin DOMAIN segments' /\ tree[m].right \notin DOMAIN segments'
    <3>1. m \in DOMAIN segments /\ m # n /\ m \in DOMAIN tree
      BY <1>5, <2>1, <2>5
    <3>2. tree[m].left \notin DOMAIN segments /\ tree[m].right \notin DOMAIN segments
      BY <2>5, <3>1 DEF IInv, SegmentsInv
    <3>3. tree[tree[m].left].parent = m /\ tree[tree[m].right].parent = m
      BY <2>5, <3>1 DEF IInv, TreeShape
    <3> QED BY <1>5, <3>1, <3>2, <3>3
  <2> QED BY <1>1, <1>5, <2>1, <2>2, <2>3, <2>4, <2>5 DEF SegmentsInv
<1>10. \A j \in DOMAIN queue : /\ Candidate(queue[j], tree', segments', hist')
                               /\ queue[j].gain > 0
  <2> SUFFICES ASSUME NEW j \in DOMAIN queue
               PROVE  Candidate(queue[j], tree', segments', hist')
    BY DEF IInv, QueueInv
  <2>1. Candidate(queue[j], tree, segments, hist)
    BY DEF IInv, QueueInv
  <2>2. queue[j].nid # n
    BY <1>5, <2>1 DEF Candidate
  <2>3. segments'[queue[j].nid] = segments[queue[j].nid] /\ queue[j].nid \in DOMAIN segments'
    BY <1>5, <2>1, <2>2 DEF Candidate, Good
  <2> QED BY <1>1, <2>1, <2>3 DEF Candidate, Good
<1>11. QueueInv'
  <2>1. best' = <<>> /\ pc # "push" /\ pc' # "push"
    BY <1>1, <1>3, <1>4
  <2> QED BY <1>1, <1>10, <2>1 DEF IInv, QueueInv, Distinct
<1>12. ASSUME NEW j \in DOMAIN expand_set, j # i
       PROVE  /\ expand_set[j].nid # n
              /\ expand_set[j].nid # l /\ expand_set[j].nid # r
              /\ tree[n].parent # expand_set[j].nid
  BY <1>3, <1>5, <1>12 DEF IInv, BatchInv, Distinct, n
<1>13. ASSUME NEW j \in DOMAIN expand_set, j \in todo'
       PROVE  Applied(expand_set[j], tree', segments', hist')
  <2>1. Applied(expand_set[j], tree, segments, hist) /\ j # i
    BY <1>1, <1>4, <1>13 DEF IInv, BatchInv
  <2> DEFINE m == expand_set[j].nid
  <2>2. m \in DOMAIN segments /\ m # n
    BY <1>12, <2>1 DEF Applied, Good
  <2>3. segments'[m] = segments[m] /\ m \in DOMAIN segments'
    BY <1>5, <2>2
  <2> QED BY <1>1, <2>1, <2>3 DEF Applied, LeafChildren, Good
<1>14. ASSUME NEW j \in DOMAIN expand_set, j \notin todo'
       PROVE  /\ Divided(expand_set[j], tree', segments')
              /\ ParentHist(expand_set[j], tree', segments', hist')
  <2>1. CASE j = i
    BY <1>1, <1>5, <1>6, <2>1 DEF Divided, ParentHist, LeafChildren, n, l, r
  <2>2. CASE j # i
    <3> DEFINE m == expand_set[j].nid
    <3>1. /\ Divided(expand_set[j], tree, segments)
          /\ ParentHist(expand_set[j], tree, segments, hist)
      BY <1>1, <1>4, <1>14, <2>2 DEF IInv, BatchInv
    <3>2. /\ tree[m].left \in DOMAIN segments /\ tree[m].right \in DOMAIN segments
          /\ tree[m].left # None /\ m \in DOMAIN tree
      BY <3>1 DEF Divided, LeafChildren
    <3>3. tree[tree[m].left].parent = m /\ tree[tree[m].right].parent = m
      BY <3>2 DEF IInv, TreeShape
    <3>4. tree[m].left # n /\ tree[m].right # n
      BY <1>12, <2>2, <3>3
    <3>5. /\ segments'[tree[m].left] = segments[tree[m].left]
          /\ segments'[tree[m].right] = segments[tree[m].right]
          /\ tree[m].left \in DOMAIN segments' /\ tree[m].right \in DOMAIN segments'
      BY <1>5, <3>2, <3>4
    <3> QED BY <1>1, <3>1, <3>5 DEF Divided, ParentHist, LeafChildren
  <2> QED BY <2>1, <2>2
<1>15. BatchInv'
  <2>1. /\ Distinct(expand_set)' /\ Distinct(valid)'
        /\ (\A j, k \in DOMAIN expand_set : tree[expand_set[j].nid].parent # expand_set[k].nid)'
    BY <1>1 DEF IInv, BatchInv, Distinct
  <2>2. \A j \in DOMAIN valid' : \E k \in DOMAIN expand_set' : valid'[j] = expand_set'[k]
    BY <1>1 DEF IInv, BatchInv
  <2>3. pc' # "fill" /\ pc' # "apply" /\ (pc' # "partition" => todo' = {})
    BY <1>4
  <2>4. \A j \in DOMAIN expand_set' :
          /\ (pc' = "partition" /\ j \in todo') => Applied(expand_set'[j], tree', segments', hist')
          /\ j \notin todo' => /\ Divided(expand_set'[j], tree', segments')
                              /\ ParentHist(expand_set'[j], tree', segments', hist')
    BY <1>1, <1>13, <1>14
  <2>5. \A j \in DOMAIN expand_set' :
         /\ pc' = "fill" \/ (pc' = "apply" /\ j >= at') =>
              Candidate(expand_set'[j], tree', segments', hist') /\ expand_set'[j].gain > 0
         /\ (pc' = "apply" /\ j < at') \/ (pc' = "partition" /\ j \in todo') =>
              Applied(expand_set'[j], tree', segments', hist')
         /\ (pc' = "partition" /\ j \notin todo') \/ pc' \in Working \cup {"release", "push"} =>
              Divided(expand_set'[j], tree', segments')
         /\ (pc' = "partition" /\ j \notin todo') \/ pc' \in Working =>
              ParentHist(expand_set'[j], tree', segments', hist')
    <3>1. pc' \in Working \cup {"release", "push"} => pc' # "partition"
      BY DEF Working
    <3>2. pc' \in Working => pc' # "partition"
      BY DEF Working
    <3> QED BY <2>3, <2>4, <3>1, <3>2
  <2> QED BY <2>1, <2>2, <2>3, <2>5 DEF BatchInv
<1>16. PlanInv' /\ BestInv'
  BY <1>1, <1>3 DEF PlanInv, BestInv, Distinct
<1>17. ControlInv'
  <2>1. 1 <= Len(expand_set)
    BY <1>3
  <2>2. valid # <<>> => 1 <= Len(valid)
    BY <1>3
  <2> QED BY <1>1, <1>3, <1>4, <2>1, <2>2 DEF IInv, ControlInv
<1> QED BY <1>7, <1>8, <1>9, <1>11, <1>15, <1>16, <1>17 DEF IInv

-----------------------------------------------------------------------------
(* The theorems. *)

(* Every step keeps the inductive invariant.                                *)
LEMMA NextIInv == IInv /\ [Next]_vars => IInv'
<1> SUFFICES ASSUME IInv, [Next]_vars PROVE IInv'
  OBVIOUS
<1>1. CASE Grow
  BY <1>1, InitRootStep, PopNothingStep, PopBestStep, PopLevelStep, PopFrontStep,
     PopEndStep, ApplySplitStep, SplitAllStep, AllocBuildStep, BuildHistsStep,
     AllocSubtractStep, SubtractHistsStep, EvaluateSplitsStep, ReleaseParentsStep,
     PushStep, PushEndStep, NextTreeStep, ClearHistStep, ResetDoneStep DEF Grow
<1>2. CASE UNCHANGED vars
  BY <1>2, StutterStep
<1> QED BY <1>1, <1>2 DEF Next, Finished

(* The inductive invariant holds in every state the grower reaches.         *)
THEOREM Invariance == Spec => []IInv
BY InitIInv, NextIInv, PTL DEF Spec

(* The variables keep their types; the free list stays within its cap.      *)
THEOREM TypeCorrect == Spec => []TypeOK
<1>1. IInv => TypeOK
  BY DEF IInv
<1> QED BY Invariance, <1>1, PTL

(* Whatever buffer allocate hands out and in whatever order the tasks of a  *)
(* phase run, the histogram of every node that may still be expanded counts *)
(* each of the node's rows exactly once.                                    *)
THEOREM HistCorrect == Spec => []HistMatchesRows
<1>1. IInv => HistMatchesRows
  <2> SUFFICES ASSUME IInv,
                      NEW e \in Elems(queue) \cup Elems(best)
                                \cup (IF pc \in {"fill", "apply"} THEN Elems(expand_set) ELSE {})
               PROVE  Good(e.nid, segments, hist)
    BY DEF HistMatchesRows, Good
  <2>1. CASE e \in Elems(queue)
    BY <2>1 DEF IInv, QueueInv, Candidate, Elems
  <2>2. CASE e \in Elems(best)
    BY <2>2 DEF IInv, BestInv, Candidate, Elems
  <2>3. CASE pc \in {"fill", "apply"} /\ e \in Elems(expand_set)
    <3>1. PICK i \in DOMAIN expand_set : e = expand_set[i]
      BY <2>3 DEF Elems
    <3>2. i < at \/ i >= at
      BY DEF IInv, TypeOK
    <3> QED BY <2>3, <3>1, <3>2 DEF IInv, BatchInv, Candidate, Applied
  <2> QED BY <2>1, <2>2, <2>3
<1> QED BY Invariance, <1>1, PTL

(* At every moment, also between the tasks of split_all, each row is in the *)
(* row set of exactly one live node and no live node is empty.              *)
THEOREM RowsPartitioned == Spec => []Splitting!Partition
<1>1. IInv => Splitting!Partition
  BY DEF IInv, SegmentsInv, Splitting!Partition
<1> QED BY Invariance, <1>1, PTL

(* What the grower does to the row sets, LeafSplitting does: the start maps *)
(* to its start, a task of split_all to a Split, the end of growth to Stop, *)
(* the reset for another tree to NextTree, and every other step to a        *)
(* stutter.  (That growth ends is checked by TLC.)                          *)
THEOREM SplittingSafety == Spec => Splitting!Init /\ [][Splitting!Next]_Splitting!vars
<1> DEFINE leaves == {segments[n] : n \in DOMAIN segments}
<1>1. Init => Splitting!Init
  BY DEF Init, Splitting!Init, RootSegments
<1>2. IInv /\ [Next]_vars => [Splitting!Next]_Splitting!vars
  <2> SUFFICES ASSUME IInv, [Next]_vars
               PROVE  Splitting!Next \/ UNCHANGED Splitting!vars
    OBVIOUS
  <2>1. CASE SplitAll
    <3>1. PICK i \in todo :
            PartitionTask(i) /\ Join(i, IF valid = <<>> THEN "release" ELSE "alloc_build")
      BY <2>1 DEF SplitAll
    <3>2. pc = "partition" /\ i \in DOMAIN expand_set /\ trees' = trees /\ tree' = tree
      BY <2>1 DEF SplitAll, IInv, ControlInv
    <3> DEFINE n == expand_set[i].nid
               l == tree[n].left
               r == tree[n].right
    <3>3. /\ n \in DOMAIN segments
          /\ DOMAIN segments' = (DOMAIN segments \ {n}) \cup {l, r}
          /\ segments'[l] # {} /\ segments'[r] # {}
          /\ segments'[l] \cup segments'[r] = segments[n]
          /\ segments'[l] \cap segments'[r] = {}
          /\ \A m \in DOMAIN segments \ {n} : m \in DOMAIN segments' /\ segments'[m] = segments[m]
          /\ l \notin DOMAIN segments /\ r \notin DOMAIN segments
      BY <3>1, <3>2, PartitionEffect
    <3> HIDE DEF n, l, r
    <3>4. \A m \in DOMAIN segments : m # n => segments[m] # segments[n]
      BY <3>3 DEF IInv, SegmentsInv
    <3>5. leaves' = (leaves \ {segments[n]}) \cup {segments'[l], segments[n] \ segments'[l]}
      <4>1. segments[n] \ segments'[l] = segments'[r]
        BY <3>3
      <4>2. ASSUME NEW s \in leaves'
            PROVE  s \in (leaves \ {segments[n]}) \cup {segments'[l], segments'[r]}
        BY <3>3, <3>4
      <4>3. ASSUME NEW s \in (leaves \ {segments[n]}) \cup {segments'[l], segments'[r]}
            PROVE  s \in leaves'
        BY <3>3
      <4> HIDE DEF leaves
      <4> QED BY <4>1, <4>2, <4>3
    <3>6. segments'[l] \in (SUBSET segments[n]) \ {{}, segments[n]}
      BY <3>3
    <3>7. ~(pc = "done") /\ ~(pc' = "done")
      BY <3>1, <3>2 DEF Join
    <3>8. segments[n] \in leaves
      BY <3>3
    <3>9. \E leaf \in leaves : \E left \in (SUBSET leaf) \ {{}, leaf} :
            leaves' = (leaves \ {leaf}) \cup {left, leaf \ left}
      <4> HIDE DEF leaves
      <4> QED BY <3>5, <3>6, <3>8
    <3> QED BY <3>2, <3>7, <3>9 DEF Splitting!Next, Splitting!Split
  <2>2. CASE PopNothing \/ PopBest \/ PopEnd
    <3>1. pc # "done" /\ UNCHANGED <<segments, trees>>
      BY <2>2 DEF PopNothing, PopBest, PopEnd
    <3> QED BY <3>1 DEF Splitting!Next, Splitting!Stop, Splitting!vars
  <2>3. CASE NextTree
    <3>1. leaves' = {Rows}
      BY <2>3 DEF NextTree, RootSegments
    <3>2. pc = "done" /\ pc' # "done" /\ trees < MaxTrees /\ trees' = trees + 1
      BY <2>3 DEF NextTree
    <3> QED BY <3>1, <3>2 DEF Splitting!Next, Splitting!NextTree
  <2>4. CASE \/ InitRoot \/ PopLevel \/ PopFront \/ ApplySplit \/ AllocBuild \/ BuildHists
             \/ AllocSubtract \/ SubtractHists \/ EvaluateSplits \/ ReleaseParents
             \/ Push \/ PushEnd \/ ClearHist \/ ResetDone
    <3>1. UNCHANGED <<segments, trees>>
      BY <2>4 DEF InitRoot, PopLevel, PopFront, ApplySplit, AllocBuild, BuildHists,
                  AllocSubtract, SubtractHists, EvaluateSplits, ReleaseParents,
                  Push, PushEnd, ClearHist, ResetDone
    <3>2. pc # "done" /\ pc' # "done"
      BY <2>4 DEF InitRoot, PopLevel, PopFront, ApplySplit, AllocBuild, BuildHists, Join,
                  AllocSubtract, SubtractHists, EvaluateSplits, ReleaseParents,
                  Push, PushEnd, ClearHist, ResetDone
    <3> QED BY <3>1, <3>2 DEF Splitting!vars
  <2>5. CASE UNCHANGED vars
    BY <2>5 DEF vars, Splitting!vars
  <2> QED BY <2>1, <2>2, <2>3, <2>4, <2>5 DEF Next, Grow, Finished
<1> QED BY Invariance, <1>1, <1>2, PTL DEF Spec
=============================================================================
