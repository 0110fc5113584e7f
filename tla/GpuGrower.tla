------------------------------ MODULE GpuGrower ------------------------------
(***************************************************************************)
(* The device tree grower, GpuHistGrower of src/gpu/grower.rs, with the    *)
(* row partitioner it drives (src/gpu/row_partitioner.rs) and the engine   *)
(* that builds its histograms (src/gpu/histogram.rs), seen from the host.  *)
(*                                                                         *)
(* A node's rows are a segment of a row index that is kept in two buffers; *)
(* a partition reads one and writes the other.  Histograms are slots of    *)
(* frontier buffers: an arena hands them out, a pool keeps the buffers and *)
(* gives one out again once nobody holds it.  Nothing but the handles in   *)
(* the entries says who holds a buffer.                                    *)
(*                                                                         *)
(* As in TreeGrower a histogram is how many times it counts each row and a *)
(* split is any gain and any condition that separates the counted rows.    *)
(* The launches of a device run in the order they were made; the segments  *)
(* of one launch are partitioned in any order.                             *)
(***************************************************************************)
EXTENDS Integers, FiniteSets, Sequences, SequencesExt, Subsequences

CONSTANTS NumRows,     \* rows of the training matrix
          Params,      \* the trainings considered: settings and the number of trees
          MaxGain,     \* gains are 0 .. MaxGain
          ArenaSlots,  \* ARENA_SLOTS, a constant of the code
          MaxTrees     \* bound on the trees grown one after another

Policies == {"DepthWise", "LossGuide"}
Positions == 0 .. NumRows - 1
Rows == Positions
Phases == {"tree", "pop", "apply", "partition", "build", "subtract", "evaluate", "done"}

ASSUME GpuGrowerAssumption ==
  /\ NumRows \in Nat \ {0}
  /\ Params \subseteq [grow_policy : Policies, max_depth : Nat, max_leaves : Nat,
                       min_split_loss : Nat, rounds : 1 .. MaxTrees]
  /\ \A p \in Params : p.max_depth # 0 \/ p.max_leaves # 0
  /\ MaxGain \in Nat
  /\ ArenaSlots \in Nat \ {0}
  /\ MaxTrees \in Nat \ {0}

VARIABLES
  pc,            \* phase of grow_columns
  param,         \* the settings of this training run
  atomic_free,   \* the engine's kernel writes every bin instead of adding
  trees,         \* trees started so far
  tree,          \* node id -> [parent, left, right, depth, rule]
  bufs,          \* RowPartitioner::bufs, two orders of the rows
  cur,           \* RowPartitioner::cur
  side,          \* position -> the buffer that holds its row
  frontiers,     \* the pool: contents of each buffer, slot by slot
  arena,         \* [buf, slots, next], buf 0 when there is none
  root,          \* buffer held by the root's entry until the tree is grown
  queue,         \* candidates waiting, in order of arrival
  batch,         \* the candidates being expanded
  expandable,    \* positions in batch of those whose children are evaluated,
                 \* a sequence
  todo,          \* positions in batch whose segment is not yet partitioned
  left_counts,   \* seg_left: rows of each segment of the batch that go left
  pending,       \* position in expandable -> built sums not yet in their slot
  children,      \* entries for the children, not yet evaluated
  num_leaves,    \* leaves the tree has once the batch is applied
  leaf_segments  \* [nid, begin, len] of the nodes that stay leaves

partitioner == <<bufs, cur, side>>
histograms == <<frontiers, arena, root>>
vars == <<pc, param, atomic_free, trees, tree, partitioner, histograms, queue, batch,
          expandable, todo, left_counts, pending, children, num_leaves, leaf_segments>>

-----------------------------------------------------------------------------
(* Helpers. *)

None == -1

Counts(rows) == [r \in Rows |-> IF r \in rows THEN 1 ELSE 0]
Zero == [r \in Rows |-> 0]
Garbage == [r \in Rows |-> 7]   \* what a fresh allocation may hold
Plus(g, h) == [r \in Rows |-> g[r] + h[r]]
Difference(p, b) == [r \in Rows |-> p[r] - b[r]]

Leaf(parent, depth) ==
  [parent |-> parent, left |-> None, right |-> None, depth |-> depth, rule |-> {}]
Leaves == {n \in DOMAIN tree : tree[n].left = None}
RootTree == [n \in {0} |-> Leaf(None, 0)]

Span(begin, len) == begin .. begin + len - 1
RowsOf(buf, begin, len) == {bufs[buf][i] : i \in Span(begin, len)}
Segment(e) == [nid |-> e.nid, begin |-> e.begin, len |-> e.len]

(* ExpandEntry::is_valid; is_valid_split leaves both children of a found   *)
(* split a positive Hessian sum.                                           *)
IsValid(e, leaves) ==
  /\ e.gain > 0
  /\ e.gain >= param.min_split_loss
  /\ param.max_depth > 0 => e.depth # param.max_depth
  /\ param.max_leaves > 0 => leaves # param.max_leaves

ChildCanExpand(e, leaves) ==
  /\ param.max_depth > 0 => e.depth + 1 < param.max_depth
  /\ param.max_leaves > 0 => leaves < param.max_leaves

(* LossGuideEntry::cmp *)
Before(d, e) == d.gain > e.gain \/ (d.gain = e.gain /\ d.nid <= e.nid)

(* What the split evaluation may answer for a histogram.                   *)
Splits(h) ==
  LET counted == {r \in Rows : h[r] # 0}
  IN {[gain |-> 0, rule |-> {}]}
     \cup [gain : 1 .. MaxGain, rule : (SUBSET counted) \ {{}, counted}]

-----------------------------------------------------------------------------
(* The pool of frontier buffers and the arena. *)

NoArena == [buf |-> 0, slots |-> 0, next |-> 0]

(* A mutated form: candidates waiting in the queue are forgotten. *)
Held_NotQueue == {arena.buf, root} \cup {e.buf : e \in Elems(batch)}

(* The buffers some handle besides the pool's refers to.                   *)
Held == {arena.buf, root} \cup {e.buf : e \in Elems(batch) \cup Elems(queue)}

(* frontier and prepare_frontier: what a slot of a buffer taken for so many *)
(* slots holds, cleared unless the kernel writes every bin.                *)
Prepared(old, s, slots) == IF ~atomic_free /\ s < slots THEN Zero ELSE old

(* A buffer of at least this many slots: the first of the pool that nobody *)
(* holds, else a new one; zeroed unless the kernel writes every bin.       *)
ZeroedFrontier(slots, held) ==
  LET free == {b \in DOMAIN frontiers : Cardinality(DOMAIN frontiers[b]) >= slots /\ b \notin held}
      first == CHOOSE b \in free : \A c \in free : b <= c
  IN IF free = {}
     THEN [buf |-> Len(frontiers) + 1,
           pool |-> Append(frontiers, [s \in 0 .. slots - 1 |-> Prepared(Garbage, s, slots)])]
     ELSE [buf |-> first,
           pool |-> [frontiers EXCEPT ![first] =
                       [s \in DOMAIN @ |-> Prepared(@[s], s, slots)]]]

(* take_slots: n slots side by side, from the arena while it has room.     *)
TakeSlots(n, from, held) ==
  IF from.next + n <= from.slots
  THEN [buf |-> from.buf, base |-> from.next, pool |-> frontiers,
        arena |-> [from EXCEPT !.next = @ + n]]
  ELSE LET slots == IF n > ArenaSlots THEN n ELSE ArenaSlots
           f == ZeroedFrontier(slots, held)
       IN [buf |-> f.buf, base |-> 0, pool |-> f.pool,
           arena |-> [buf |-> f.buf, slots |-> slots, next |-> n]]

(* A histogram built over what its slot holds.                             *)
Built(old, rows) == IF atomic_free THEN Counts(rows) ELSE Plus(old, Counts(rows))

-----------------------------------------------------------------------------
(* Starting a tree: the head of grow_columns, with init_root. *)

NoPending == [k \in {} |-> Zero]
Iota == [i \in Positions |-> i]

Init ==
  /\ pc = "tree"
  /\ param \in Params
  /\ atomic_free \in BOOLEAN
  /\ trees = 1
  /\ tree = RootTree
  /\ bufs = [b \in 0 .. 1 |-> Iota]
  /\ cur = 0
  /\ side = [i \in Positions |-> 0]
  /\ frontiers = <<>> /\ arena = NoArena /\ root = 0
  /\ queue = <<>> /\ batch = <<>> /\ expandable = <<>> /\ children = <<>>
  /\ todo = {} /\ left_counts = <<>> /\ pending = NoPending
  /\ num_leaves = 1
  /\ leaf_segments = <<>>

(* The last tree's handles are gone before the first slot is taken.  A      *)
(* fresh partitioner lists the rows in order in buffer 0; nothing is said   *)
(* of buffer 1, which is read only where a partition has written it.        *)
StartTree ==
  /\ pc = "tree"
  /\ bufs' = [b \in 0 .. 1 |-> Iota]
  /\ cur' = 0
  /\ side' = [i \in Positions |-> 0]
  /\ num_leaves' = 1
  /\ LET taken == TakeSlots(1, NoArena, {})
         old == taken.pool[taken.buf][taken.base]
         sums == Built(old, Rows)
     IN /\ arena' = taken.arena
        /\ root' = taken.buf
        /\ frontiers' = [taken.pool EXCEPT ![taken.buf][taken.base] = sums]
        /\ \E s \in Splits(sums) :
             LET e == [nid |-> 0, depth |-> 0, begin |-> 0, len |-> NumRows,
                       buf |-> taken.buf, slot |-> taken.base,
                       gain |-> s.gain, rule |-> s.rule]
             IN IF s.gain > 0
                THEN queue' = <<e>> /\ leaf_segments' = <<>>
                ELSE queue' = <<>> /\ leaf_segments' = <<Segment(e)>>
  /\ pc' = "pop"
  /\ UNCHANGED <<param, atomic_free, trees, tree, batch, expandable, todo, left_counts,
                 pending, children>>

-----------------------------------------------------------------------------
(* ExpandQueue::pop_batch. *)

(* The closure `take`: into the batch, or a leaf that needs its rows known. *)
Take(out, e) ==
  IF IsValid(e, out.leaves)
  THEN [out EXCEPT !.batch = Append(@, e), !.leaves = @ + 1]
  ELSE [out EXCEPT !.segments = Append(@, Segment(e))]

(* Which places of the queue are popped: the best candidate alone, or those *)
(* at the front that share the front's depth.                               *)
Popped ==
  IF param.grow_policy = "LossGuide"
  THEN {i \in DOMAIN queue : \A j \in DOMAIN queue : Before(queue[i], queue[j])}
  ELSE {i \in DOMAIN queue : \A j \in 1 .. i : queue[j].depth = queue[1].depth}

Places(places) ==
  LET chosen == Chosen(Numbered(queue), places)
  IN [k \in DOMAIN chosen |-> queue[chosen[k]]]

(* An empty batch ends the tree, and what the queue still holds are leaves. *)
PopBatch ==
  /\ pc = "pop"
  /\ LET rest == Places(DOMAIN queue \ Popped)
         out == FoldLeft(Take, [batch |-> <<>>, leaves |-> num_leaves, segments |-> leaf_segments],
                         Places(Popped))
     IN /\ queue' = rest
        /\ batch' = out.batch
        /\ num_leaves' = out.leaves
        /\ IF out.batch = <<>>
           THEN /\ leaf_segments' = out.segments \o [k \in DOMAIN rest |-> Segment(rest[k])]
                /\ pc' = "done"
           ELSE /\ leaf_segments' = out.segments
                /\ pc' = "apply"
  /\ expandable' = <<>> /\ left_counts' = <<>>
  /\ UNCHANGED <<param, atomic_free, trees, tree, partitioner, histograms, todo, pending,
                 children>>

-----------------------------------------------------------------------------
(* One batch: the splits, and the rows of their segments. *)

(* apply_split appends the children of the candidates in batch order.      *)
Grown ==
  LET first == Cardinality(DOMAIN tree)
      Left(k) == first + 2 * (k - 1)
      At(n) == CHOOSE k \in DOMAIN batch : n \in {Left(k), Left(k) + 1}
      Of(n) == {k \in DOMAIN batch : batch[k].nid = n}
      Split(node, k) == [node EXCEPT !.left = Left(k), !.right = Left(k) + 1,
                                     !.rule = batch[k].rule]
  IN [n \in 0 .. first + 2 * Len(batch) - 1 |->
        IF n >= first THEN Leaf(batch[At(n)].nid, batch[At(n)].depth + 1)
        ELSE IF Of(n) = {} THEN tree[n]
        ELSE Split(tree[n], CHOOSE k \in Of(n) : TRUE)]

BatchPositions == UNION {Span(e.begin, e.len) : e \in Elems(batch)}

(* RowPartitioner::partition reads the segments from the buffer they are    *)
(* in, wherever that is; those on both sides are first brought to the front *)
(* one, which is what catch_up is for.                                      *)
Sides == {side[e.begin] : e \in Elems(batch)}
Source == IF Cardinality(Sides) = 1 THEN side[batch[1].begin] ELSE cur
CatchUp == [i \in Positions |-> IF i \in BatchPositions THEN bufs[side[i]][i] ELSE bufs[Source][i]]

(* A mutated form: the first row of each segment is forgotten.             *)
Rewritten_OffByOne ==
  [i \in Positions |-> IF \E e \in Elems(batch) : i \in Span(e.begin + 1, e.len - 1)
                       THEN 1 - Source ELSE side[i]]

(* Where rows are once the segments are written to the other buffer.       *)
Rewritten == [i \in Positions |-> IF i \in BatchPositions THEN 1 - Source ELSE side[i]]

(* apply_split and child_can_expand for the whole batch, then what the      *)
(* partitioner decides on the host.                                         *)
ApplySplits ==
  /\ pc = "apply"
  /\ tree' = Grown
  /\ expandable' = Chosen(Numbered(batch),
                          {k \in DOMAIN batch : ChildCanExpand(batch[k], num_leaves)})
  /\ bufs' = [bufs EXCEPT ![Source] = CatchUp]
  /\ cur' = 1 - Source
  /\ side' = Rewritten
  /\ todo' = DOMAIN batch
  /\ left_counts' = [k \in DOMAIN batch |-> 0]
  /\ pc' = "partition"
  /\ UNCHANGED <<param, atomic_free, trees, histograms, queue, batch, pending, children,
                 num_leaves, leaf_segments>>

(* The tiles of one segment, counted (count_tile_kernel) and scattered: the *)
(* rows that go left in their order, then the others in theirs.             *)
SegmentRows(e) == [j \in 1 .. e.len |-> bufs[1 - cur][e.begin + j - 1]]
CountTile(e) == Len(Chosen(SegmentRows(e), e.rule))
ScatterTile(e) == Chosen(SegmentRows(e), e.rule) \o Chosen(SegmentRows(e), Rows \ e.rule)

PartitionSegment ==
  /\ pc = "partition"
  /\ \E k \in todo :
       LET e == batch[k]
       IN /\ bufs' = [bufs EXCEPT ![cur] =
                        [i \in Positions |-> IF i \in Span(e.begin, e.len)
                                             THEN ScatterTile(e)[i - e.begin + 1] ELSE @[i]]]
          /\ left_counts' = [left_counts EXCEPT ![k] = CountTile(e)]
          /\ todo' = todo \ {k}
          /\ pc' = IF todo' = {} THEN "build" ELSE pc
  /\ UNCHANGED <<param, atomic_free, trees, tree, cur, side, histograms, queue, batch,
                 expandable, pending, children, num_leaves, leaf_segments>>

-----------------------------------------------------------------------------
(* One batch: the histograms of the children. *)

(* A mutated form: the right child starts where its parent does.          *)
RightSegment_NotAdvanced(k) ==
  [nid |-> tree[batch[k].nid].right, begin |-> batch[k].begin,
   len |-> batch[k].len - left_counts[k]]

(* The segments of the two children of a candidate.                        *)
LeftSegment(k) ==
  [nid |-> tree[batch[k].nid].left, begin |-> batch[k].begin, len |-> left_counts[k]]
RightSegment(k) ==
  [nid |-> tree[batch[k].nid].right, begin |-> batch[k].begin + left_counts[k],
   len |-> batch[k].len - left_counts[k]]

ChildEntry(k, seg, buf, slot) ==
  [nid |-> seg.nid, depth |-> batch[k].depth + 1, begin |-> seg.begin, len |-> seg.len,
   buf |-> buf, slot |-> slot, gain |-> 0, rule |-> {}]

(* The children of some candidates are listed left, right, left, right ...  *)
CandidateAt(i) == (i + 1) \div 2
SegmentAt(i, k) == IF i % 2 = 1 THEN LeftSegment(k) ELSE RightSegment(k)

(* The children that cannot expand are listed as leaves; build_children     *)
(* takes two slots for each other candidate and builds the child with the   *)
(* smaller Hessian sum, either one, in the first.  A kernel without atomics *)
(* leaves the sums of large nodes in pieces.                                *)
BuildHists ==
  /\ pc = "build"
  /\ LET stay == Chosen(Numbered(batch), DOMAIN batch \ Elems(expandable))
     IN leaf_segments' = leaf_segments \o
          [i \in 1 .. 2 * Len(stay) |-> SegmentAt(i, stay[CandidateAt(i)])]
  /\ IF expandable = <<>>
     THEN /\ pc' = "pop"
          /\ UNCHANGED <<frontiers, arena, children, pending>>
     ELSE LET taken == TakeSlots(2 * Len(expandable), arena, Held)
              jobs == DOMAIN expandable
              BuiltSlot(j) == taken.base + 2 * (j - 1)
          IN \E right \in SUBSET jobs, late \in (IF atomic_free THEN SUBSET jobs ELSE {{}}) :
               LET built == [j \in jobs |-> IF j \in right THEN RightSegment(expandable[j])
                                            ELSE LeftSegment(expandable[j])]
                   rows == [j \in jobs |-> RowsOf(cur, built[j].begin, built[j].len)]
                   IsSibling(i) == (i % 2 = 1) <=> (CandidateAt(i) \in right)
                   SlotAt(i) == BuiltSlot(CandidateAt(i)) + (IF IsSibling(i) THEN 1 ELSE 0)
               IN /\ pending' = [j \in late |-> Counts(rows[j])]
                  /\ frontiers' = [taken.pool EXCEPT ![taken.buf] =
                       [s \in DOMAIN @ |->
                          IF \E j \in jobs \ late : s = BuiltSlot(j)
                          THEN Built(@[s], rows[1 + (s - taken.base) \div 2])
                          ELSE @[s]]]
                  /\ children' = [i \in 1 .. 2 * Len(expandable) |->
                       LET k == expandable[CandidateAt(i)]
                       IN ChildEntry(k, SegmentAt(i, k), taken.buf, SlotAt(i))]
                  /\ arena' = taken.arena
                  /\ pc' = "subtract"
  /\ UNCHANGED <<param, atomic_free, trees, tree, partitioner, root, queue, batch, expandable,
                 todo, left_counts, num_leaves>>

(* Slots of the j-th candidate's children: the built one, then its sibling. *)
FirstSlot == IF children[1].slot < children[2].slot THEN children[1].slot ELSE children[2].slot
BuiltSums(j) ==
  IF j \in DOMAIN pending THEN pending[j]
  ELSE frontiers[children[1].buf][FirstSlot + 2 * (j - 1)]
Sibling(j) ==
  LET parents == frontiers[batch[expandable[1]].buf]
  IN Difference(parents[batch[expandable[j]].slot], BuiltSums(j))

(* subtract_batch: one launch that reads all the parents from the buffer of *)
(* the first, writes the siblings, and on the way the sums left in pieces.  *)
SubtractHists ==
  /\ pc = "subtract"
  /\ LET Job(s) == 1 + (s - FirstSlot) \div 2
     IN frontiers' = [frontiers EXCEPT ![children[1].buf] =
          [s \in DOMAIN @ |->
             IF s \notin FirstSlot .. FirstSlot + 2 * Len(expandable) - 1 THEN @[s]
             ELSE IF (s - FirstSlot) % 2 = 0 THEN BuiltSums(Job(s))
             ELSE Sibling(Job(s))]]
  /\ pending' = NoPending
  /\ pc' = "evaluate"
  /\ UNCHANGED <<param, atomic_free, trees, tree, partitioner, arena, root, queue, batch,
                 expandable, todo, left_counts, children, num_leaves, leaf_segments>>

(* The children, in node order, are evaluated and join the queue, or are    *)
(* leaves.  The slot is read from the buffer of the children as a whole.    *)
EvaluateChild ==
  /\ pc = "evaluate"
  /\ LET c == children[1]
     IN \E s \in Splits(frontiers[c.buf][c.slot]) :
          IF s.gain > 0
          THEN /\ queue' = Append(queue, [c EXCEPT !.gain = s.gain, !.rule = s.rule])
               /\ UNCHANGED leaf_segments
          ELSE /\ leaf_segments' = Append(leaf_segments, Segment(c))
               /\ UNCHANGED queue
  /\ children' = Tail(children)
  /\ pc' = IF children' = <<>> THEN "pop" ELSE pc
  /\ UNCHANGED <<param, atomic_free, trees, tree, partitioner, histograms, batch, expandable,
                 todo, left_counts, pending, num_leaves>>

(* grow_columns returns, its handles with it except the arena's, which the  *)
(* next call drops first; the next round asks for another tree.             *)
NextTree ==
  /\ pc = "done"
  /\ trees < param.rounds
  /\ trees' = trees + 1
  /\ tree' = RootTree
  /\ arena' = NoArena /\ root' = 0
  /\ queue' = <<>> /\ leaf_segments' = <<>>
  /\ pc' = "tree"
  /\ UNCHANGED <<param, atomic_free, partitioner, frontiers, batch, expandable, todo,
                 left_counts, pending, children, num_leaves>>

Finished == pc = "done" /\ trees = param.rounds /\ UNCHANGED vars

Grow == \/ StartTree \/ PopBatch \/ ApplySplits \/ PartitionSegment \/ BuildHists
        \/ SubtractHists \/ EvaluateChild \/ NextTree
Next == Grow \/ Finished

(* The grower is a loop on the host that waits for its launches.           *)
Spec == Init /\ [][Next]_vars /\ WF_vars(Grow)

-----------------------------------------------------------------------------
(* Properties. *)

(* The slot an entry names still counts each row of its segment once when   *)
(* the entry is expanded or evaluated, however many trees and batches ago   *)
(* the buffer was first handed out, and whether or not it was cleared.      *)
HistMatchesRows ==
  LET waiting == Elems(queue)
                 \cup (IF pc = "apply" THEN Elems(batch) ELSE {})
                 \cup (IF pc = "evaluate" THEN Elems(children) ELSE {})
  IN \A e \in waiting :
       frontiers[e.buf][e.slot] = Counts(RowsOf(side[e.begin], e.begin, e.len))

(* A mutated form: the buffer written last is taken for all rows.          *)
RowAt_Front(i, begin) == bufs[cur][i]

(* The row at a position of the row index.  The host (RowPartitioner::read) *)
(* asks the side of the position itself, the device's update that of the    *)
(* first position of its segment.                                           *)
RowAt(i, begin) == bufs[side[begin]][i]

(* GrownTree::update_predictions: the leaves added to a row.               *)
HostLeaves(r) ==
  {leaf_segments[k].nid : k \in {k \in DOMAIN leaf_segments :
     \E i \in Span(leaf_segments[k].begin, leaf_segments[k].len) : RowAt(i, i) = r}}

(* update_predictions_kernel: a position belongs to the last segment that   *)
(* starts at or before it; how long a segment is does not matter.           *)
SegmentsAt(i) ==
  {k \in DOMAIN leaf_segments :
     LET begin == leaf_segments[k].begin
     IN /\ begin <= i
        /\ \A m \in DOMAIN leaf_segments :
             leaf_segments[m].begin <= begin \/ leaf_segments[m].begin > i}

(* Round::update_predictions: the leaves added to a row.                   *)
DeviceLeaves(r) ==
  {leaf_segments[k].nid : k \in UNION {{m \in SegmentsAt(i) :
                                          RowAt(i, leaf_segments[m].begin) = r} : i \in Positions}}

(* Where a row ends when the finished tree is traversed.                   *)
Routed ==
  LET rows[n \in DOMAIN tree] ==
        IF n = 0 THEN Rows
        ELSE LET p == tree[n].parent
             IN IF tree[p].left = n THEN rows[p] \cap tree[p].rule
                                    ELSE rows[p] \ tree[p].rule
  IN rows

(* "every position of the row index belongs to exactly one" leaf segment:    *)
(* host and device both give each training row the one leaf a traversal     *)
(* reaches, though the row index is spread over two buffers and its         *)
(* segments were written at different times.                                *)
ScoresMatchTraversal ==
  pc = "done" =>
    \A r \in Rows :
      LET reached == {n \in Leaves : r \in Routed[n]}
      IN HostLeaves(r) = reached /\ DeviceLeaves(r) = reached

(* "a batch's parents must share one histogram allocation", and no caller   *)
(* splits segments on both sides in one batch: so that one launch can bind  *)
(* one buffer for all of them.                                              *)
BatchTogether ==
  pc = "apply" =>
    /\ \A d, e \in Elems(batch) : d.buf = e.buf
    /\ \A d, e \in Elems(batch) : side[d.begin] = side[e.begin]

(* The rows of the segments that are live: listed as leaves, waiting, or in *)
(* a batch, before and after its segments are dealt.                        *)
RowSet(seg) == RowsOf(side[seg.begin], seg.begin, seg.len)
Dealt(k) ==
  IF k \in todo THEN {RowsOf(1 - cur, batch[k].begin, batch[k].len)}
  ELSE {RowSet(LeftSegment(k)), RowSet(RightSegment(k))}
LiveRowSets ==
  IF pc = "tree" THEN {Rows}
  ELSE {RowSet(e) : e \in Elems(queue) \cup Elems(children) \cup Elems(leaf_segments)
                          \cup (IF pc = "apply" THEN Elems(batch) ELSE {})}
       \cup UNION {Dealt(k) : k \in IF pc \in {"partition", "build"} THEN DOMAIN batch ELSE {}}

(* The device grower implements the splitting of leaves, as the CPU's does. *)
Splitting == INSTANCE LeafSplitting WITH
  leaves <- LiveRowSets,
  grown <- pc = "done",
  round <- trees
ImplementsSplitting == Splitting!Spec
=============================================================================
