---------------------------- MODULE GpuGrowerProofs --------------------------
EXTENDS GpuGrower, CommonLemmas

-----------------------------------------------------------------------------
(* The inductive invariant. *)

Sums == [Rows -> Int]
Slots == UNION {[0 .. n - 1 -> Sums] : n \in Nat \ {0}}
Arenas == [buf : Nat, slots : Nat, next : Nat]
Segs == [nid : Nat, begin : Positions, len : Nat \ {0}]
Entries == [nid : Nat, depth : Nat, begin : Positions, len : Nat \ {0}, buf : Nat, slot : Nat,
            gain : Nat, rule : SUBSET Rows]
Nodes == [parent : Nat \cup {None}, left : Nat \cup {None}, right : Nat \cup {None}, depth : Nat,
          rule : SUBSET Rows]

(* The phases in which the batch is live, and those in which its parents'  *)
(* slots are still to be read.                                             *)
InBatch == {"apply", "partition", "build"}
Dealing == {"partition", "build"}
Parents == InBatch \cup {"subtract"}

TypeInv ==
  /\ pc \in Phases /\ param \in Params /\ atomic_free \in BOOLEAN /\ trees \in 1 .. MaxTrees
  /\ \E n \in Nat \ {0} : tree \in [0 .. n - 1 -> Nodes]
  /\ bufs \in [0 .. 1 -> [Positions -> Rows]] /\ cur \in 0 .. 1 /\ side \in [Positions -> 0 .. 1]
  /\ frontiers \in Seq(Slots) /\ arena \in Arenas /\ root \in Nat
  /\ queue \in Seq(Entries) /\ batch \in Seq(Entries) /\ children \in Seq(Entries)
  /\ leaf_segments \in Seq(Segs)
  /\ expandable \in Seq(DOMAIN batch)
  /\ num_leaves \in Nat

(* Which sequences are in use.                                             *)
PhaseInv ==
  /\ pc \in {"tree", "done"} => batch = <<>>
  /\ pc \notin {"subtract", "evaluate"} => children = <<>>
  /\ pc = "evaluate" => children # <<>>
  /\ pc = "apply" => batch # <<>>
  /\ pc = "tree" => queue = <<>> /\ leaf_segments = <<>> /\ tree = RootTree
  /\ pc = "partition" => todo \subseteq DOMAIN batch
  /\ pc = "build" => todo = {}
  /\ pc \in {"partition", "build"} => left_counts \in [DOMAIN batch -> Nat]
  /\ pc \in {"partition", "build", "subtract"} =>
       \A j, k \in DOMAIN expandable : expandable[j] = expandable[k] => j = k
  /\ pc = "subtract" => expandable # <<>>
  /\ pc = "done" => \A e \in Elems(queue) : Segment(e) \in Elems(leaf_segments)

(* No node waits twice. *)
Nids(s) == {s[i].nid : i \in DOMAIN s}
Once(s) == \A i, j \in DOMAIN s : s[i].nid = s[j].nid => i = j
OnceInv ==
  /\ Once(queue) /\ Once(children) /\ Once(batch)
  /\ Nids(queue) \cap Nids(children) = {}
  /\ Nids(children) \cap Nids(leaf_segments) = {}
  /\ pc # "done" => Nids(queue) \cap Nids(leaf_segments) = {}
  /\ pc \in InBatch => Nids(batch) \cap (Nids(queue) \cup Nids(leaf_segments)) = {}

(* The rows of a candidate of the batch: a partition does not write where  *)
(* it reads.                                                               *)
BatchRows(e) == IF pc = "apply" THEN RowSet(e) ELSE RowsOf(1 - cur, e.begin, e.len)

(* What is live, each with its rows.                                       *)
Holding(e, rows) == [nid |-> e.nid, begin |-> e.begin, len |-> e.len, rows |-> rows]
Waiting == Elems(queue) \cup Elems(children) \cup Elems(leaf_segments)
Live == {Holding(e, RowSet(e)) : e \in Waiting}
        \cup (IF pc \in InBatch THEN {Holding(e, BatchRows(e)) : e \in Elems(batch)} ELSE {})

(* Segments that share out the positions, and the rows.                    *)
Tiles(L) ==
  /\ \A s \in L : s.rows # {} /\ s.rows \subseteq Rows /\ Span(s.begin, s.len) \subseteq Positions
  /\ \A s, t \in L : s # t => /\ s.nid # t.nid
                              /\ Span(s.begin, s.len) \cap Span(t.begin, t.len) = {}
                              /\ s.rows \cap t.rows = {}
  /\ \A i \in Positions : \E s \in L : i \in Span(s.begin, s.len)
  /\ \A r \in Rows : \E s \in L : r \in s.rows
TileInv == pc # "tree" => Tiles(Live)

(* A segment is in one buffer.                                             *)
OneSide(e, b) == \A i \in Span(e.begin, e.len) : side[i] = b
SideInv ==
  /\ \A e \in Waiting : OneSide(e, side[e.begin])
  /\ pc = "apply" => \A e \in Elems(batch) : OneSide(e, side[e.begin])
  /\ pc \in Dealing => \A e \in Elems(batch) : OneSide(e, cur)

(* A batch is together, and so is what may become one.                     *)
Together(d, e) == d.depth = e.depth /\ d.buf = e.buf /\ side[d.begin] = side[e.begin]
LevelInv ==
  /\ pc \in Parents => \A d, e \in Elems(batch) : d.depth = e.depth /\ d.buf = e.buf
  /\ pc = "apply" => \A d, e \in Elems(batch) : Together(d, e)
  /\ param.grow_policy = "DepthWise" =>
       /\ \A d, e \in Elems(queue) \cup Elems(children) : Together(d, e)
       /\ pc \in Parents => queue = <<>>

(* The tree, and which of its nodes are live.                              *)
Linked ==
  /\ 0 \in DOMAIN tree
  /\ \A n \in DOMAIN tree :
       /\ tree[n].left = None <=> tree[n].right = None
       /\ tree[n].left # None =>
            /\ tree[n].left \in DOMAIN tree /\ tree[n].right \in DOMAIN tree
            /\ tree[n].left # 0 /\ tree[n].right # 0 /\ tree[n].left # tree[n].right
            /\ tree[tree[n].left].parent = n /\ tree[tree[n].right].parent = n
       /\ n # 0 => LET p == tree[n].parent
                   IN /\ p \in DOMAIN tree /\ p < n
                      /\ tree[p].left = n \/ tree[p].right = n
Kids(e) == {tree[e.nid].left, tree[e.nid].right}
TreeInv ==
  /\ Linked
  /\ pc \notin Dealing \cup {"tree"} => Leaves = {s.nid : s \in Live}
  /\ pc \in Dealing =>
       /\ Leaves = Nids(queue) \cup Nids(leaf_segments) \cup UNION {Kids(e) : e \in Elems(batch)}
       /\ \A e \in Elems(batch) :
            e.nid \in DOMAIN tree /\ tree[e.nid].left # None /\ tree[e.nid].rule = e.rule

(* What a candidate must be: its slot counts its rows, its split separates *)
(* them.                                                                   *)
Counted(e, rows) == frontiers[e.buf][e.slot] = Counts(rows)
Separates(e, rows) ==
  e.gain > 0 /\ e.rule \subseteq rows /\ e.rule # {} /\ e.rule # rows
CandidateInv ==
  /\ \A e \in Elems(queue) : Counted(e, RowSet(e)) /\ Separates(e, RowSet(e))
  /\ pc \in InBatch =>
       \A e \in Elems(batch) : Counted(e, BatchRows(e)) /\ Separates(e, BatchRows(e))
  /\ pc = "evaluate" => \A e \in Elems(children) : Counted(e, RowSet(e))

(* The handles to slots, and what the arena may still hand out.            *)
Handles == Elems(queue) \cup Elems(children) \cup (IF pc \in Parents THEN Elems(batch) ELSE {})
ArenaOk(a, pool) ==
  /\ a.next <= a.slots
  /\ a.buf = 0 => a.slots = 0
  /\ a.buf # 0 => a.buf \in DOMAIN pool /\ 0 .. a.slots - 1 \subseteq DOMAIN pool[a.buf]
  /\ ~atomic_free => \A s \in a.next .. a.slots - 1 : pool[a.buf][s] = Zero
SlotInv ==
  /\ ArenaOk(arena, frontiers)
  /\ \A e \in Handles :
       /\ e.buf \in DOMAIN frontiers /\ e.slot \in DOMAIN frontiers[e.buf]
       /\ e.buf = arena.buf => e.slot < arena.next

(* The segments that are dealt.                                            *)
DealtInv ==
  pc \in Dealing => \A k \in DOMAIN batch \ todo :
    LET e == batch[k]
        rows == RowsOf(1 - cur, e.begin, e.len)
    IN /\ left_counts[k] \in 1 .. e.len - 1
       /\ RowsOf(cur, e.begin, left_counts[k]) = rows \cap e.rule
       /\ RowsOf(cur, e.begin + left_counts[k], e.len - left_counts[k]) = rows \ e.rule

(* The children between a build and its subtraction: pairs of slots side   *)
(* by side, one built, its parent's slot intact.                           *)
PairInv ==
  pc = "subtract" =>
    /\ Len(children) = 2 * Len(expandable)
    /\ \A j \in DOMAIN expandable :
         LET l == children[2 * j - 1]
             r == children[2 * j]
             e == batch[expandable[j]]
             first == FirstSlot + 2 * (j - 1)
         IN /\ l.buf = children[1].buf /\ r.buf = children[1].buf
            /\ frontiers[e.buf][e.slot] = Counts(RowSet(l) \cup RowSet(r))
            /\ \/ l.slot = first /\ r.slot = first + 1 /\ BuiltSums(j) = Counts(RowSet(l))
               \/ r.slot = first /\ l.slot = first + 1 /\ BuiltSums(j) = Counts(RowSet(r))
    /\ \A e \in Elems(queue) : e.buf = children[1].buf => e.slot < FirstSlot

(* The rows of a live node are those the tree sends there.                 *)
Routes(f) ==
  /\ f[0] = Rows
  /\ \A n \in DOMAIN tree \ {0} :
       LET p == tree[n].parent
       IN f[n] = IF tree[p].left = n THEN f[p] \cap tree[p].rule ELSE f[p] \ tree[p].rule
RoutingInv ==
  \E f \in [DOMAIN tree -> SUBSET Rows] : Routes(f) /\ \A s \in Live : s.rows = f[s.nid]

IInv == /\ TypeInv /\ PhaseInv /\ OnceInv /\ TileInv /\ SideInv /\ LevelInv /\ TreeInv
        /\ CandidateInv /\ SlotInv /\ DealtInv /\ PairInv /\ RoutingInv

-----------------------------------------------------------------------------
(* The pool and the arena. *)

(* The slots that are taken are as many consecutive numbers.               *)
LEMMA SlotsAre ==
  ASSUME NEW h \in Slots
  PROVE  \E m \in Nat \ {0} : /\ h \in [0 .. m - 1 -> Sums] /\ DOMAIN h = 0 .. m - 1
                              /\ Cardinality(DOMAIN h) = m
<1>1. PICK m \in Nat \ {0} : h \in [0 .. m - 1 -> Sums]
  BY DEF Slots
<1>2. DOMAIN h = 0 .. m - 1
  BY <1>1
<1>3. Cardinality(0 .. m - 1) = m
  <2>1. 0 \in Int /\ m - 1 \in Int
    OBVIOUS
  <2>2. Cardinality(0 .. m - 1) = IF 0 > m - 1 THEN 0 ELSE (m - 1) - 0 + 1
    BY <2>1, FS_Interval, Zenon
  <2> QED BY <2>2
<1> QED BY <1>1, <1>2, <1>3

(* Zero, counts, sums and differences of histograms are histograms.        *)
LEMMA SumsAre ==
  /\ Zero \in Sums /\ Garbage \in Sums
  /\ \A rows : Counts(rows) \in Sums
  /\ \A g, h \in Sums : Plus(g, h) \in Sums /\ Difference(g, h) \in Sums
BY DEF Zero, Garbage, Counts, Plus, Difference, Sums

(* What a buffer is after it has been taken for so many slots.             *)
LEMMA PreparedIs ==
  ASSUME NEW slots \in Nat \ {0}, NEW m \in Nat \ {0}, slots <= m, NEW h \in [0 .. m - 1 -> Sums],
         atomic_free \in BOOLEAN
  PROVE  LET g == [s \in 0 .. m - 1 |-> Prepared(h[s], s, slots)]
         IN /\ g \in Slots /\ 0 .. slots - 1 \subseteq DOMAIN g
            /\ ~atomic_free => \A s \in 0 .. slots - 1 : g[s] = Zero
<1> DEFINE g == [s \in 0 .. m - 1 |-> Prepared(h[s], s, slots)]
<1>1. \A s \in 0 .. m - 1 : Prepared(h[s], s, slots) \in Sums
  BY SumsAre DEF Prepared
<1>2. g \in [0 .. m - 1 -> Sums]
  BY <1>1
<1>3. g \in Slots
  <2> HIDE DEF g
  <2> QED BY <1>2 DEF Slots
<1>4. 0 .. slots - 1 \subseteq 0 .. m - 1
  OBVIOUS
<1>5. ~atomic_free => \A s \in 0 .. slots - 1 : g[s] = Zero
  BY <1>4 DEF Prepared
<1> QED BY <1>3, <1>4, <1>5

(* A buffer nobody holds, with cleared slots unless all bins are written.  *)
Fresh(f, slots, held) ==
  /\ f.pool \in Seq(Slots) /\ DOMAIN frontiers \subseteq DOMAIN f.pool
  /\ f.buf \in DOMAIN f.pool /\ f.buf \in Nat \ {0} /\ 0 .. slots - 1 \subseteq DOMAIN f.pool[f.buf]
  /\ ~atomic_free => \A s \in 0 .. slots - 1 : f.pool[f.buf][s] = Zero
  /\ f.buf \in DOMAIN frontiers => f.buf \notin held
  /\ \A b \in DOMAIN frontiers : b # f.buf => f.pool[b] = frontiers[b]

(* A buffer from the pool is one no candidate names, cleared where it is   *)
(* to be.                                                                  *)
LEMMA FreshIs ==
  ASSUME NEW slots \in Nat \ {0}, NEW held, frontiers \in Seq(Slots), atomic_free \in BOOLEAN
  PROVE  Fresh(ZeroedFrontier(slots, held), slots, held)
<1> DEFINE free == {b \in DOMAIN frontiers :
                      Cardinality(DOMAIN frontiers[b]) >= slots /\ b \notin held}
           first == CHOOSE b \in free : \A c \in free : b <= c
           n == Len(frontiers)
           f == ZeroedFrontier(slots, held)
<1>1. n \in Nat /\ DOMAIN frontiers = 1 .. n /\ \A b \in 1 .. n : frontiers[b] \in Slots
  OBVIOUS
<1>2. CASE free = {}
  <2> DEFINE h == [s \in 0 .. slots - 1 |-> Prepared(Garbage, s, slots)]
             pool == Append(frontiers, h)
  <2>1. f.buf = n + 1 /\ f.pool = pool
    BY <1>2 DEF ZeroedFrontier
  <2>2. /\ h \in Slots /\ 0 .. slots - 1 \subseteq DOMAIN h
        /\ ~atomic_free => \A s \in 0 .. slots - 1 : h[s] = Zero
    <3> DEFINE old == [s \in 0 .. slots - 1 |-> Garbage]
    <3>1. old \in [0 .. slots - 1 -> Sums]
      BY SumsAre
    <3>2. h = [s \in 0 .. slots - 1 |-> Prepared(old[s], s, slots)]
      OBVIOUS
    <3> HIDE DEF old, h
    <3> QED BY <3>1, <3>2, PreparedIs
  <2> HIDE DEF h
  <2>3. /\ pool \in Seq(Slots) /\ DOMAIN pool = 1 .. n + 1 /\ pool[n + 1] = h
        /\ \A b \in 1 .. n : pool[b] = frontiers[b]
    BY <1>1, <2>2, Appended
  <2> HIDE DEF pool, n, f
  <2>4. n + 1 \in 1 .. n + 1 /\ n + 1 \in Nat \ {0} /\ n + 1 \notin 1 .. n
    BY <1>1
  <2>5. \A b \in 1 .. n : b \in 1 .. n + 1
    BY <1>1
  <2>6. f.pool \in Seq(Slots) /\ DOMAIN frontiers \subseteq DOMAIN f.pool
    BY <1>1, <2>1, <2>3, <2>5
  <2>7. f.buf \in DOMAIN f.pool /\ f.buf \in Nat \ {0} /\ f.buf \notin DOMAIN frontiers
    BY <1>1, <2>1, <2>3, <2>4
  <2>8. f.pool[f.buf] = h
    BY <2>1, <2>3
  <2>9. \A b \in DOMAIN frontiers : f.pool[b] = frontiers[b]
    BY <1>1, <2>1, <2>3
  <2> HIDE DEF h
  <2> QED BY <2>2, <2>6, <2>7, <2>8, <2>9 DEF Fresh, f
<1>3. CASE free # {}
  <2>1. first \in free
    <3> HIDE DEF free
    <3>1. free \in SUBSET Nat
      BY <1>1 DEF free
    <3>2. \E b \in free : \A c \in free : b <= c
      BY <1>3, <3>1, LeastOf
    <3> QED BY <3>2
  <2> DEFINE old == frontiers[first]
             g == [s \in DOMAIN old |-> Prepared(old[s], s, slots)]
             pool == [frontiers EXCEPT ![first] = g]
  <2>2. f.buf = first /\ f.pool = pool
    BY <1>3 DEF ZeroedFrontier
  <2>3. first \in 1 .. n /\ Cardinality(DOMAIN frontiers[first]) >= slots /\ first \notin held
    BY <1>1, <2>1
  <2> HIDE DEF first, free, n
  <2>4. PICK m \in Nat \ {0} : /\ old \in [0 .. m - 1 -> Sums] /\ DOMAIN old = 0 .. m - 1
                               /\ Cardinality(DOMAIN old) = m
    BY <1>1, <2>3, SlotsAre
  <2>5. slots <= m
    BY <2>3, <2>4
  <2> HIDE DEF old
  <2>6. /\ g \in Slots /\ 0 .. slots - 1 \subseteq DOMAIN g
        /\ ~atomic_free => \A s \in 0 .. slots - 1 : g[s] = Zero
    <3>1. g = [s \in 0 .. m - 1 |-> Prepared(old[s], s, slots)]
      BY <2>4
    <3> DEFINE x == [s \in 0 .. m - 1 |-> Prepared(old[s], s, slots)]
    <3>2. /\ x \in Slots /\ 0 .. slots - 1 \subseteq DOMAIN x
          /\ ~atomic_free => \A s \in 0 .. slots - 1 : x[s] = Zero
      <4>1. old \in [0 .. m - 1 -> Sums] /\ slots <= m
        BY <2>4, <2>5
      <4> QED BY <4>1, PreparedIs
    <3> HIDE DEF g, x
    <3> QED BY <3>1, <3>2 DEF x
  <2> HIDE DEF g
  <2>7. /\ pool \in Seq(Slots) /\ DOMAIN pool = 1 .. n /\ pool[first] = g
        /\ \A b \in 1 .. n : b # first => pool[b] = frontiers[b]
    BY <1>1, <2>3, <2>6
  <2>8. first \in Nat \ {0}
    BY <1>1, <2>3
  <2> HIDE DEF pool, f
  <2>9. f.pool \in Seq(Slots) /\ DOMAIN frontiers \subseteq DOMAIN f.pool
    BY <1>1, <2>2, <2>7
  <2>10. f.buf \in DOMAIN f.pool /\ f.buf \in Nat \ {0} /\ f.buf \notin held
    BY <2>2, <2>3, <2>7, <2>8
  <2>11. f.pool[f.buf] = g
    BY <2>2, <2>7
  <2>12. \A b \in DOMAIN frontiers : b # f.buf => f.pool[b] = frontiers[b]
    BY <1>1, <2>2, <2>7
  <2> HIDE DEF g
  <2> QED BY <2>6, <2>9, <2>10, <2>11, <2>12 DEF Fresh, f
<1> QED BY <1>2, <1>3

(* Slots to write: cleared, and apart from those with handles.             *)
Kept(t, b, s) == /\ b \in DOMAIN t.pool /\ s \in DOMAIN t.pool[b]
                 /\ t.pool[b][s] = frontiers[b][s]
                 /\ b = t.buf => s < t.base
Taken(t, n, from, held) ==
  /\ t.pool \in Seq(Slots) /\ t.buf \in DOMAIN t.pool /\ t.buf \in Nat \ {0} /\ t.base \in Nat
  /\ t.base .. t.base + n - 1 \subseteq DOMAIN t.pool[t.buf]
  /\ ~atomic_free => \A s \in t.base .. t.base + n - 1 : t.pool[t.buf][s] = Zero
  /\ t.arena \in Arenas /\ t.arena.buf = t.buf /\ t.arena.next = t.base + n
  /\ ArenaOk(t.arena, t.pool)
  /\ \A b \in DOMAIN frontiers \cap held : \A s \in DOMAIN frontiers[b] :
       (b = from.buf => s < from.next) => Kept(t, b, s)

(* Slots from the arena or the pool are none that a candidate still holds. *)
LEMMA SlotsTaken ==
  ASSUME NEW n \in Nat \ {0}, NEW from \in Arenas, NEW held, frontiers \in Seq(Slots),
         atomic_free \in BOOLEAN, ArenaOk(from, frontiers)
  PROVE  Taken(TakeSlots(n, from, held), n, from, held)
<1> DEFINE t == TakeSlots(n, from, held)
<1>1. /\ from.buf \in Nat /\ from.next \in Nat /\ from.slots \in Nat
  BY DEF Arenas
<1>2. CASE from.next + n <= from.slots
  <2>1. /\ t.buf = from.buf /\ t.base = from.next /\ t.pool = frontiers
        /\ t.arena = [from EXCEPT !.next = @ + n]
    BY <1>2 DEF TakeSlots
  <2>2. /\ t.arena \in Arenas /\ t.arena.buf = from.buf /\ t.arena.next = from.next + n
        /\ t.arena.slots = from.slots
    BY <1>1, <2>1 DEF Arenas
  <2>3. /\ from.buf # 0 /\ from.buf \in DOMAIN frontiers
        /\ 0 .. from.slots - 1 \subseteq DOMAIN frontiers[from.buf]
        /\ ~atomic_free => \A s \in from.next .. from.slots - 1 : frontiers[from.buf][s] = Zero
    BY <1>1, <1>2 DEF ArenaOk
  <2> HIDE DEF t
  <2>4. ArenaOk(t.arena, t.pool)
    <3>1. \A s \in from.next + n .. from.slots - 1 : s \in from.next .. from.slots - 1
      BY <1>1
    <3> QED BY <1>1, <1>2, <2>1, <2>2, <2>3, <3>1 DEF ArenaOk
  <2>5. \A s \in t.base .. t.base + n - 1 :
          s \in from.next .. from.slots - 1 /\ s \in 0 .. from.slots - 1
    BY <1>1, <1>2, <2>1
  <2>6. /\ t.base .. t.base + n - 1 \subseteq DOMAIN t.pool[t.buf]
        /\ ~atomic_free => \A s \in t.base .. t.base + n - 1 : t.pool[t.buf][s] = Zero
    BY <2>1, <2>3, <2>5
  <2>7. \A b \in DOMAIN frontiers \cap held : \A s \in DOMAIN frontiers[b] :
          (b = from.buf => s < from.next) => Kept(t, b, s)
    BY <2>1 DEF Kept
  <2>8. t.pool \in Seq(Slots) /\ t.buf \in DOMAIN t.pool /\ t.buf \in Nat \ {0} /\ t.base \in Nat
    BY <1>1, <2>1, <2>3
  <2>9. t.arena.buf = t.buf /\ t.arena.next = t.base + n
    BY <2>1, <2>2
  <2> HIDE DEF t
  <2> QED BY <2>2, <2>4, <2>6, <2>7, <2>8, <2>9 DEF Taken, t
<1>3. CASE ~(from.next + n <= from.slots)
  <2> DEFINE slots == IF n > ArenaSlots THEN n ELSE ArenaSlots
             f == ZeroedFrontier(slots, held)
  <2>1. slots \in Nat \ {0} /\ n <= slots
    BY GpuGrowerAssumption
  <2>2. /\ t.buf = f.buf /\ t.base = 0 /\ t.pool = f.pool
        /\ t.arena = [buf |-> f.buf, slots |-> slots, next |-> n]
    BY <1>3 DEF TakeSlots
  <2> HIDE DEF slots, t
  <2>3. Fresh(f, slots, held)
    BY <2>1, FreshIs
  <2> HIDE DEF f
  <2>4. t.arena \in Arenas /\ t.arena.buf = f.buf /\ t.arena.next = n /\ t.arena.slots = slots
    BY <2>1, <2>2, <2>3 DEF Arenas, Fresh
  <2>5. \A s \in n .. slots - 1 : s \in 0 .. slots - 1
    BY <2>1
  <2>6. ArenaOk(t.arena, t.pool)
    BY <2>1, <2>2, <2>3, <2>4, <2>5 DEF ArenaOk, Fresh
  <2>7. \A s \in t.base .. t.base + n - 1 : s \in 0 .. slots - 1
    BY <2>1, <2>2
  <2>8. /\ t.base .. t.base + n - 1 \subseteq DOMAIN t.pool[t.buf]
        /\ ~atomic_free => \A s \in t.base .. t.base + n - 1 : t.pool[t.buf][s] = Zero
    BY <2>2, <2>3, <2>7 DEF Fresh
  <2>9. \A b \in DOMAIN frontiers \cap held : \A s \in DOMAIN frontiers[b] : Kept(t, b, s)
    BY <2>2, <2>3 DEF Fresh, Kept
  <2>10. t.arena.next = t.base + n /\ t.base \in Nat
    BY <2>2, <2>4
  <2>11. t.pool \in Seq(Slots) /\ t.buf \in DOMAIN t.pool /\ t.buf \in Nat \ {0}
    BY <2>2, <2>3 DEF Fresh
  <2>12. t.arena.buf = t.buf
    BY <2>2, <2>4
  <2> HIDE DEF t
  <2> QED BY <2>4, <2>6, <2>8, <2>9, <2>10, <2>11, <2>12 DEF Taken, t
<1> QED BY <1>2, <1>3

-----------------------------------------------------------------------------
(* Popping a batch. *)

(* The segment of a candidate is a segment.                                *)
LEMMA SegmentsAre == ASSUME NEW e \in Entries PROVE Segment(e) \in Segs
BY DEF Segment, Segs, Entries

(* A candidate that is new to a sequence is in it once when appended.      *)
LEMMA AppendedOnce ==
  ASSUME NEW X, NEW u \in Seq(X), NEW x \in X, Once(u), \A y \in Elems(u) : y.nid # x.nid
  PROVE  Once(Append(u, x))
<1> DEFINE v == Append(u, x)
           n == Len(u)
<1>1. /\ n \in Nat /\ DOMAIN u = 1 .. n /\ DOMAIN v = 1 .. n + 1
      /\ \A i \in 1 .. n : v[i] = u[i]
      /\ v[n + 1] = x
  BY Appended
<1>2. \A i \in 1 .. n : u[i].nid # x.nid
  BY <1>1 DEF Elems
<1> HIDE DEF v, n
<1>3. ASSUME NEW i \in 1 .. n + 1, NEW j \in 1 .. n + 1, v[i].nid = v[j].nid PROVE i = j
  <2>1. \A k \in 1 .. n + 1 : k \in 1 .. n \/ k = n + 1
    BY <1>1
  <2>2. CASE i \in 1 .. n /\ j \in 1 .. n
    BY <1>1, <1>3, <2>2 DEF Once
  <2>3. CASE i \in 1 .. n /\ j = n + 1
    BY <1>1, <1>2, <1>3, <2>3
  <2>4. CASE i = n + 1 /\ j \in 1 .. n
    BY <1>1, <1>2, <1>3, <2>4
  <2> QED BY <2>1, <2>2, <2>3, <2>4
<1> QED BY <1>1, <1>3 DEF Once, v

(* Some places of the queue, in their order: the candidates there, each    *)
(* once.                                                                   *)
LEMMA PlacesAre ==
  ASSUME NEW P, queue \in Seq(Entries), Once(queue)
  PROVE  /\ Places(P) \in Seq(Entries) /\ Once(Places(P))
         /\ Elems(Places(P)) = {queue[i] : i \in DOMAIN queue \cap P}
<1> DEFINE c == Chosen(Numbered(queue), P)
           n == Len(queue)
           m == Len(c)
<1>1. n \in Nat /\ DOMAIN queue = 1 .. n /\ \A i \in 1 .. n : queue[i] \in Entries
  OBVIOUS
<1>2. c \in Seq(DOMAIN queue) /\ Rising(c) /\ Elems(c) = DOMAIN queue \cap P
  BY ChosenPlaces
<1>3. Places(P) = [k \in DOMAIN c |-> queue[c[k]]]
  BY DEF Places
<1> HIDE DEF c, n
<1>4. m \in Nat /\ DOMAIN c = 1 .. m /\ \A k \in 1 .. m : c[k] \in 1 .. n
  BY <1>1, <1>2
<1>5. \A i, j \in 1 .. m : c[i] = c[j] => i = j
  <2> SUFFICES ASSUME NEW i \in 1 .. m, NEW j \in 1 .. m, c[i] = c[j] PROVE i = j
    OBVIOUS
  <2>1. i < j \/ j < i \/ i = j
    BY <1>4
  <2>2. c[i] \in Int /\ c[j] \in Int
    BY <1>1, <1>4
  <2>3. (i < j => c[i] < c[j]) /\ (j < i => c[j] < c[i])
    BY <1>2, <1>4 DEF Rising
  <2> QED BY <2>1, <2>2, <2>3
<1> HIDE DEF m
<1>6. Places(P) \in Seq(Entries) /\ DOMAIN Places(P) = 1 .. m
  BY <1>1, <1>3, <1>4
<1>7. Once(Places(P))
  BY <1>1, <1>3, <1>4, <1>5 DEF Once
<1>8. Elems(Places(P)) = {queue[i] : i \in DOMAIN queue \cap P}
  <2>1. Elems(Places(P)) = {queue[c[k]] : k \in DOMAIN c}
    BY <1>3 DEF Elems
  <2>2. {queue[c[k]] : k \in DOMAIN c} = {queue[i] : i \in Elems(c)}
    BY DEF Elems
  <2> QED BY <1>2, <2>1, <2>2
<1> QED BY <1>6, <1>7, <1>8

(* What `take` has made of the entries S.                                  *)
Outs == [batch : Seq(Entries), leaves : Nat, segments : Seq(Segs)]
Shares(S, A, B) == S = A \cup B /\ \A d \in A, e \in B : d.nid # e.nid
Took(S, u, o) ==
  /\ Once(o.batch)
  /\ \E B : /\ Shares(S, Elems(o.batch), B)
            /\ Elems(o.segments) = Elems(u) \cup {Segment(e) : e \in B}

(* Taking a candidate puts it in the batch or its segment among the        *)
(* leaves.                                                                 *)
LEMMA TakeIs ==
  ASSUME NEW o \in Outs, NEW x \in Entries
  PROVE  LET t == Take(o, x)
         IN /\ t \in Outs
            /\ IsValid(x, o.leaves) => t.batch = Append(o.batch, x) /\ t.segments = o.segments
            /\ ~IsValid(x, o.leaves) =>
                 t.batch = o.batch /\ t.segments = Append(o.segments, Segment(x))
<1> DEFINE b == Append(o.batch, x)
           c == Append(o.segments, Segment(x))
<1>1. /\ o.batch \in Seq(Entries) /\ o.leaves \in Nat /\ o.segments \in Seq(Segs)
      /\ o = [batch |-> o.batch, leaves |-> o.leaves, segments |-> o.segments]
  BY DEF Outs
<1>2. b \in Seq(Entries) /\ c \in Seq(Segs)
  BY <1>1, SegmentsAre, Appended
<1> HIDE DEF b, c
<1>3. CASE IsValid(x, o.leaves)
  <2>1. Take(o, x) = [o EXCEPT !.batch = b, !.leaves = o.leaves + 1]
    BY <1>3 DEF Take, b
  <2>2. Take(o, x) = [batch |-> b, leaves |-> o.leaves + 1, segments |-> o.segments]
    BY <1>1, <2>1
  <2> QED BY <1>1, <1>2, <1>3, <2>2 DEF Outs, b
<1>4. CASE ~IsValid(x, o.leaves)
  <2>1. Take(o, x) = [o EXCEPT !.segments = c]
    BY <1>4 DEF Take, c
  <2>2. Take(o, x) = [batch |-> o.batch, leaves |-> o.leaves, segments |-> c]
    BY <1>1, <2>1
  <2> QED BY <1>1, <1>2, <1>4, <2>2 DEF Outs, c
<1> QED BY <1>3, <1>4

(* A candidate that is taken is accounted for: in the batch or among the   *)
(* leaves.                                                                 *)
LEMMA TookOne ==
  ASSUME NEW S \in SUBSET Entries, NEW u \in Seq(Segs), NEW o \in Outs, Took(S, u, o),
         NEW x \in Entries, \A y \in S : y.nid # x.nid
  PROVE  Take(o, x) \in Outs /\ Took(S \cup {x}, u, Take(o, x))
<1>1. /\ o.batch \in Seq(Entries) /\ o.leaves \in Nat /\ o.segments \in Seq(Segs)
      /\ o = [batch |-> o.batch, leaves |-> o.leaves, segments |-> o.segments]
  BY DEF Outs
<1>2. PICK B : /\ Shares(S, Elems(o.batch), B)
               /\ Elems(o.segments) = Elems(u) \cup {Segment(e) : e \in B}
  BY DEF Took
<1>3. Once(o.batch)
  BY DEF Took
<1>4. CASE IsValid(x, o.leaves)
  <2> DEFINE b == Append(o.batch, x)
             t == Take(o, x)
  <2>2. t.batch = b /\ t.segments = o.segments /\ t \in Outs
    BY <1>4, TakeIs
  <2>3. Elems(b) = Elems(o.batch) \cup {x}
    BY <1>1, AppendedElems
  <2>4. Once(b)
    <3>1. \A y \in Elems(o.batch) : y.nid # x.nid
      BY <1>2 DEF Shares
    <3> QED BY <1>1, <1>3, <3>1, AppendedOnce
  <2>5. Shares(S \cup {x}, Elems(b), B)
    BY <1>2, <2>3 DEF Shares
  <2> HIDE DEF t, b
  <2>6. Took(S \cup {x}, u, t)
    BY <1>2, <2>2, <2>4, <2>5 DEF Took
  <2> QED BY <2>2, <2>6 DEF t
<1>5. CASE ~IsValid(x, o.leaves)
  <2> DEFINE b == Append(o.segments, Segment(x))
             t == Take(o, x)
             C == B \cup {x}
  <2>2. t.batch = o.batch /\ t.segments = b /\ t \in Outs
    BY <1>5, TakeIs
  <2>3. Elems(b) = Elems(o.segments) \cup {Segment(x)}
    BY <1>1, AppendedElems, SegmentsAre
  <2>4. Elems(b) = Elems(u) \cup {Segment(e) : e \in C}
    BY <1>2, <2>3
  <2>5. Shares(S \cup {x}, Elems(o.batch), C)
    BY <1>2 DEF Shares
  <2> HIDE DEF t, b, C
  <2>6. Took(S \cup {x}, u, t)
    BY <1>3, <2>2, <2>4, <2>5 DEF Took
  <2> QED BY <2>2, <2>6 DEF t
<1> QED BY <1>4, <1>5

(* What the fold of `take` returns.                                        *)
LEMMA TakenAll ==
  ASSUME NEW s \in Seq(Entries), Once(s), NEW a \in Nat, NEW u \in Seq(Segs)
  PROVE  LET out == FoldLeft(Take, [batch |-> <<>>, leaves |-> a, segments |-> u], s)
         IN out \in Outs /\ Took(Elems(s), u, out)
<1> DEFINE n == Len(s)
           base == [batch |-> <<>>, leaves |-> a, segments |-> u]
           step == [e \in (1 .. n) \X Outs |-> Take(e[2], s[e[1]])]
           E(F) == [S \in SUBSET (1 .. n) |->
                      IF S = {} THEN base ELSE Take(F[S \ {Max(S)}], s[Max(S)])]
           h == CHOOSE F : F = E(F)
<1>1. n \in Nat /\ DOMAIN s = 1 .. n /\ \A k \in 1 .. n : s[k] \in Entries
  OBVIOUS
<1>2. base \in Outs
  BY DEF Outs
<1>3. \A o \in Outs, x \in Entries : Take(o, x) \in Outs
  BY TakeIs
<1> HIDE DEF n, base
<1>4. /\ step \in [(1 .. n) \X Outs -> Outs]
      /\ \A k \in 1 .. n, o \in Outs : step[<<k, o>>] = Take(o, s[k])
  <2>1. \A e \in (1 .. n) \X Outs : e[1] \in 1 .. n /\ e[2] \in Outs
    OBVIOUS
  <2>2. \A e \in (1 .. n) \X Outs : Take(e[2], s[e[1]]) \in Outs
    BY <1>1, <1>3, <2>1
  <2> QED BY <2>2
<1> HIDE DEF step
<1>5. PICK F \in [SUBSET (1 .. n) -> Outs] : FoldOn(n, base, step, F)
  <2> HIDE DEF E, h
  <2> QED BY <1>1, <1>2, <1>4, FoldExists, Zenon
<1>6. F = E(F)
  <2>1. ASSUME NEW S \in SUBSET (1 .. n)
        PROVE  F[S] = IF S = {} THEN base ELSE Take(F[S \ {Max(S)}], s[Max(S)])
    <3>1. CASE S = {}
      BY <1>5, <3>1 DEF FoldOn
    <3>2. CASE S # {}
      <4>1. F[S] = step[<<Max(S), F[S \ {Max(S)}]>>]
        BY <1>5, <3>2 DEF FoldOn
      <4>2. Max(S) \in 1 .. n /\ F[S \ {Max(S)}] \in Outs
        BY <1>1, <3>2, MaxIn
      <4> QED BY <1>4, <3>2, <4>1, <4>2
    <3> QED BY <3>1, <3>2
  <2> QED BY <2>1
<1>7. h = E(h)
  <2> HIDE DEF E
  <2> QED BY <1>6
<1>8. FoldLeft(Take, base, s) = h[1 .. n]
  BY <1>1 DEF FoldLeft, MapThenFoldSet
<1> HIDE DEF h
<1>9. Folds(n, Outs, base, step, h)
  <2>1. h[{}] = base
    BY <1>7
  <2>2. ASSUME NEW S \in SUBSET (1 .. n), S # {}, h[S \ {Max(S)}] \in Outs
        PROVE  h[S] = step[<<Max(S), h[S \ {Max(S)}]>>]
    <3>1. h[S] = Take(h[S \ {Max(S)}], s[Max(S)])
      BY <1>7, <2>2
    <3> QED BY MaxIn, <1>1, <1>4, <2>2, <3>1
  <2> HIDE DEF E
  <2> QED BY <2>1, <2>2 DEF Folds
<1>10. Result(n, Outs, base, step, h[1 .. n])
  BY <1>1, <1>2, <1>4, <1>9, RunOf
<1>11. PICK R \in [0 .. n -> Outs] :
        /\ R[0] = base /\ R[n] = h[1 .. n]
        /\ \A k \in 1 .. n : R[k] = step[<<k, R[k - 1]>>]
  BY <1>10 DEF Result
<1> DEFINE C == {k \in Nat : k <= n => Took({s[i] : i \in 1 .. k}, u, R[k])}
<1>12. 0 \in C
  <2>1. R[0].batch = <<>> /\ R[0].segments = u /\ Elems(R[0].batch) = {} /\ Once(R[0].batch)
    BY <1>11 DEF base, Elems, Once
  <2>2. {s[i] : i \in 1 .. 0} = {}
    OBVIOUS
  <2>3. Shares({}, {}, {}) /\ Elems(u) = Elems(u) \cup {Segment(e) : e \in {}}
    BY DEF Shares
  <2>4. Took({}, u, R[0])
    BY <2>1, <2>3 DEF Took
  <2> QED BY <2>2, <2>4
<1>13. ASSUME NEW k \in Nat, k \in C PROVE k + 1 \in C
  <2> SUFFICES ASSUME k + 1 <= n PROVE Took({s[i] : i \in 1 .. k + 1}, u, R[k + 1])
    OBVIOUS
  <2> DEFINE S == {s[i] : i \in 1 .. k}
             x == s[k + 1]
             o == R[k]
  <2>1. k + 1 \in 1 .. n /\ (k + 1) - 1 = k /\ k \in 0 .. n /\ \A i \in 1 .. k : i \in 1 .. n
    BY <1>1
  <2>2. o \in Outs /\ Took(S, u, o) /\ x \in Entries /\ S \in SUBSET Entries
    BY <1>1, <1>13, <2>1
  <2>3. R[k + 1] = Take(o, x)
    BY <1>4, <1>11, <2>1, <2>2
  <2>4. \A i \in 1 .. k : s[i].nid # x.nid
    <3>1. \A i \in 1 .. k : i # k + 1
      OBVIOUS
    <3> QED BY <1>1, <2>1, <3>1 DEF Once
  <2>5. {s[i] : i \in 1 .. k + 1} = S \cup {x}
    <3>1. 1 .. k + 1 = (1 .. k) \cup {k + 1}
      OBVIOUS
    <3> QED BY <3>1
  <2>6. \A y \in S : y.nid # x.nid
    BY <2>4
  <2> HIDE DEF S, x, o
  <2> QED BY <2>2, <2>3, <2>5, <2>6, TookOne
<1> HIDE DEF C
<1>14. n \in C
  BY <1>1, <1>12, <1>13, NatSetInduction
<1>15. Took({s[i] : i \in 1 .. n}, u, R[n]) /\ R[n] \in Outs
  <2>1. n <= n /\ n \in 0 .. n
    BY <1>1
  <2>2. Took({s[i] : i \in 1 .. n}, u, R[n])
    BY <1>14, <2>1 DEF C
  <2>3. R[n] \in Outs
    BY <2>1
  <2> QED BY <2>2, <2>3
<1>16. Elems(s) = {s[i] : i \in 1 .. n}
  BY <1>1 DEF Elems
<1> QED BY <1>8, <1>11, <1>15, <1>16 DEF base

(* What is popped stays known: rejected candidates are leaves, and so are  *)
(* those left behind by an empty batch.                                    *)
PopResult(q, b, l, B) ==
  /\ q \in Seq(Entries) /\ b \in Seq(Entries) /\ l \in Seq(Segs) /\ Once(q) /\ Once(b)
  /\ Shares(Elems(queue), Elems(q), Elems(b) \cup B) /\ Shares(Elems(b) \cup B, Elems(b), B)
  /\ Elems(l) = Elems(leaf_segments)
                \cup {Segment(e) : e \in B \cup (IF b = <<>> THEN Elems(q) ELSE {})}
  /\ (param.grow_policy = "DepthWise" /\ \A d, e \in Elems(queue) : d.depth = e.depth) => q = <<>>
  /\ param.grow_policy # "DepthWise" => \A d, e \in Elems(b) : d = e

(* Popping shares the queue out between the batch, the leaves and what     *)
(* still waits.                                                            *)
LEMMA PopIs ==
  ASSUME TypeInv, Once(queue), PopBatch
  PROVE  /\ \E B : PopResult(queue', batch', leaf_segments', B)
         /\ num_leaves' \in Nat /\ pc' = IF batch' = <<>> THEN "done" ELSE "apply"
<1> DEFINE rest == Places(DOMAIN queue \ Popped)
           s == Places(Popped)
           base == [batch |-> <<>>, leaves |-> num_leaves, segments |-> leaf_segments]
           out == FoldLeft(Take, base, s)
           n == Len(queue)
           more == [k \in DOMAIN rest |-> Segment(rest[k])]
<1>1. /\ queue \in Seq(Entries) /\ n \in Nat /\ DOMAIN queue = 1 .. n
      /\ num_leaves \in Nat /\ leaf_segments \in Seq(Segs)
  BY DEF TypeInv
<1>2. /\ rest \in Seq(Entries) /\ Once(rest)
      /\ Elems(rest) = {queue[i] : i \in DOMAIN queue \ Popped}
      /\ s \in Seq(Entries) /\ Once(s)
      /\ Elems(s) = {queue[i] : i \in Popped}
  <2>1. Popped \subseteq DOMAIN queue
    BY DEF Popped
  <2>2. /\ DOMAIN queue \cap (DOMAIN queue \ Popped) = DOMAIN queue \ Popped
        /\ DOMAIN queue \cap Popped = Popped
    BY <2>1
  <2> QED BY <1>1, <2>2, PlacesAre
<1>3. /\ queue' = rest /\ batch' = out.batch /\ num_leaves' = out.leaves
      /\ leaf_segments' = IF out.batch = <<>> THEN out.segments \o more ELSE out.segments
      /\ pc' = IF out.batch = <<>> THEN "done" ELSE "apply"
  BY DEF PopBatch
<1> HIDE DEF rest, n
<1>4. out \in Outs /\ Took(Elems(s), leaf_segments, out)
  <2> HIDE DEF s
  <2> QED BY <1>1, <1>2, TakenAll
<1> HIDE DEF s, out, more
<1>5. PICK B : /\ Shares(Elems(s), Elems(out.batch), B)
               /\ Elems(out.segments) = Elems(leaf_segments) \cup {Segment(e) : e \in B}
  BY <1>4 DEF Took
<1>6. out.batch \in Seq(Entries) /\ out.leaves \in Nat /\ out.segments \in Seq(Segs)
  BY <1>4 DEF Outs
<1>7. more \in Seq(Segs) /\ Elems(more) = {Segment(e) : e \in Elems(rest)}
  <2>1. /\ Len(rest) \in Nat /\ DOMAIN rest = 1 .. Len(rest)
        /\ \A k \in 1 .. Len(rest) : rest[k] \in Entries
    BY <1>2
  <2>2. \A k \in 1 .. Len(rest) : Segment(rest[k]) \in Segs
    BY <2>1, SegmentsAre
  <2>3. more \in Seq(Segs) /\ DOMAIN more = DOMAIN rest
    BY <2>1, <2>2 DEF more
  <2>4. Elems(more) = {Segment(rest[k]) : k \in DOMAIN rest}
    BY DEF more, Elems
  <2> QED BY <2>3, <2>4 DEF Elems
<1>8. /\ leaf_segments' \in Seq(Segs)
      /\ Elems(leaf_segments') = Elems(leaf_segments)
           \cup {Segment(e) : e \in B \cup (IF batch' = <<>> THEN Elems(queue') ELSE {})}
  <2>1. CASE out.batch = <<>>
    <3>1. leaf_segments' = out.segments \o more
      BY <1>3, <2>1
    <3>2. /\ leaf_segments' \in Seq(Segs)
          /\ Elems(leaf_segments') = Elems(out.segments) \cup Elems(more)
      BY <1>6, <1>7, <3>1, Concatenated
    <3> QED BY <1>3, <1>5, <1>7, <2>1, <3>2
  <2>2. CASE out.batch # <<>>
    BY <1>3, <1>5, <1>6, <2>2
  <2> QED BY <2>1, <2>2
<1>9. Shares(Elems(queue), Elems(rest), Elems(s))
  <2>1. Popped \subseteq DOMAIN queue
    BY DEF Popped
  <2>2. Elems(queue) = Elems(rest) \cup Elems(s)
    BY <1>2, <2>1 DEF Elems
  <2>3. ASSUME NEW i \in DOMAIN queue \ Popped, NEW j \in Popped PROVE queue[i].nid # queue[j].nid
    BY <2>1 DEF Once
  <2> QED BY <1>2, <2>2, <2>3 DEF Shares
<1>10. Shares(Elems(queue), Elems(rest), Elems(out.batch) \cup B)
  BY <1>5, <1>9 DEF Shares
<1>11. Shares(Elems(out.batch) \cup B, Elems(out.batch), B)
  BY <1>5 DEF Shares
<1>12. Once(out.batch)
  BY <1>4 DEF Took
<1>13. ASSUME param.grow_policy = "DepthWise", \A d, e \in Elems(queue) : d.depth = e.depth
       PROVE  rest = <<>>
  <2>1. Popped = {i \in DOMAIN queue : \A j \in 1 .. i : queue[j].depth = queue[1].depth}
    BY <1>13 DEF Popped
  <2>2. ASSUME NEW i \in DOMAIN queue PROVE i \in Popped
    <3>1. \A j \in 1 .. i : j \in 1 .. n /\ 1 \in 1 .. n
      BY <1>1
    <3>2. \A j \in 1 .. i : queue[j].depth = queue[1].depth
      BY <1>1, <1>13, <3>1 DEF Elems
    <3> QED BY <2>1, <3>2
  <2>3. Elems(rest) = {}
    BY <1>2, <2>2
  <2>4. DOMAIN rest = {}
    BY <2>3 DEF Elems
  <2> QED BY <1>2, <2>4
<1>14. ASSUME param.grow_policy # "DepthWise", 
              NEW d \in Elems(out.batch), NEW e \in Elems(out.batch)
       PROVE  d = e
  <2>1. param.grow_policy = "LossGuide"
    <3>1. param \in Params /\ param.grow_policy \in Policies
      BY GpuGrowerAssumption DEF TypeInv
    <3> QED BY <1>14, <3>1 DEF Policies
  <2>2. Popped = {i \in DOMAIN queue : \A j \in DOMAIN queue : Before(queue[i], queue[j])}
    BY <2>1 DEF Popped
  <2>3. d \in Elems(s) /\ e \in Elems(s)
    BY <1>5, <1>14 DEF Shares
  <2>4. PICK i \in Popped, j \in Popped : d = queue[i] /\ e = queue[j]
    BY <1>2, <2>3
  <2>5. i \in DOMAIN queue /\ j \in DOMAIN queue /\ Before(d, e) /\ Before(e, d)
    BY <2>2, <2>4
  <2>6. d \in Entries /\ e \in Entries
    BY <1>1, <2>4, <2>5
  <2>7. d.nid = e.nid
    BY <2>5, <2>6 DEF Before, Entries
  <2> QED BY <2>4, <2>5, <2>7 DEF Once
<1>15. PopResult(queue', batch', leaf_segments', B)
  BY <1>2, <1>3, <1>6, <1>8, <1>10, <1>11, <1>12, <1>13, <1>14 DEF PopResult
<1> QED BY <1>3, <1>6, <1>15

-----------------------------------------------------------------------------
(* What does not depend on the whole state. *)

(* The nodes a sequence names are those of its elements.                   *)
LEMMA NidsAre == ASSUME NEW s PROVE Nids(s) = {e.nid : e \in Elems(s)}
BY DEF Nids, Elems

(* The elements of a sequence are of its type.                             *)
LEMMA ElemsIn == ASSUME NEW X, NEW s \in Seq(X) PROVE Elems(s) \subseteq X
<1>1. \A i \in DOMAIN s : s[i] \in X
  OBVIOUS
<1> QED BY <1>1 DEF Elems

(* An empty sequence has no elements.                                      *)
LEMMA NoElems == /\ Elems(<<>>) = {} /\ Nids(<<>>) = {} /\ Once(<<>>)
                 /\ \A X : <<>> \in Seq(X)
<1>1. DOMAIN <<>> = {}
  OBVIOUS
<1> QED BY <1>1 DEF Elems, Nids, Once

(* A candidate and its segment hold the same rows.                         *)
LEMMA SegmentHolds == \A e : Holding(Segment(e), RowSet(Segment(e))) = Holding(e, RowSet(e))
BY DEF Holding, Segment, RowSet, RowsOf

(* A step that moves no rows leaves every candidate the rows it had.       *)
LEMMA SameRows ==
  ASSUME bufs' = bufs, side' = side
  PROVE  \A e : RowSet(e)' = RowSet(e)
BY DEF RowSet, RowsOf

(* A step that leaves the tree and the live rows alone.                    *)
LEMMA SameTree ==
  ASSUME tree' = tree
  PROVE  (Linked <=> Linked') /\ Leaves' = Leaves /\ \A f : Routes(f) <=> Routes(f)'
<1>1. Linked <=> Linked'
  BY DEF Linked
<1>2. Leaves' = Leaves
  BY DEF Leaves
<1>3. \A f : Routes(f) <=> Routes(f)'
  BY DEF Routes
<1> QED BY <1>1, <1>2, <1>3

(* A step that moves no segment leaves what is live as it was.             *)
LEMMA SameLive ==
  ASSUME tree' = tree, Live' = Live, RoutingInv
  PROVE  RoutingInv' /\ (Tiles(Live) <=> Tiles(Live)')
<1>1. PICK f \in [DOMAIN tree -> SUBSET Rows] : Routes(f) /\ \A s \in Live : s.rows = f[s.nid]
  BY DEF RoutingInv
<1>2. Routes(f)'
  BY <1>1, SameTree
<1>3. RoutingInv'
  <2>1. f \in [DOMAIN tree' -> SUBSET Rows] /\ Routes(f)' /\ \A s \in Live' : s.rows = f[s.nid]
    BY <1>1, <1>2
  <2> QED BY <2>1 DEF RoutingInv
<1>4. Tiles(Live)' = Tiles(Live')
  BY DEF Tiles
<1> QED BY <1>3, <1>4

-----------------------------------------------------------------------------
(* Each step keeps the invariant. *)

(* PopBatch keeps the invariant and what is live.                          *)
LEMMA PopKeeps == ASSUME IInv, PopBatch PROVE IInv' /\ Live' = Live
<1>1. /\ TypeInv /\ PhaseInv /\ OnceInv /\ TileInv /\ SideInv /\ LevelInv /\ TreeInv
      /\ CandidateInv /\ SlotInv /\ RoutingInv
  BY DEF IInv
<1>2. /\ pc = "pop" /\ pc' \in {"apply", "done"}
      /\ pc' = IF batch' = <<>> THEN "done" ELSE "apply"
  BY <1>1, PopIs DEF PopBatch, OnceInv
<1>3. /\ expandable' = <<>> /\ left_counts' = <<>> /\ param' = param /\ atomic_free' = atomic_free
      /\ trees' = trees /\ tree' = tree /\ bufs' = bufs /\ cur' = cur /\ side' = side
      /\ frontiers' = frontiers /\ arena' = arena /\ root' = root /\ todo' = todo
      /\ pending' = pending /\ children' = children
  BY DEF PopBatch, partitioner, histograms
<1>4. PICK B : PopResult(queue', batch', leaf_segments', B)
  BY <1>1, PopIs DEF OnceInv
<1>5. /\ queue' \in Seq(Entries) /\ batch' \in Seq(Entries) /\ leaf_segments' \in Seq(Segs)
      /\ Once(queue') /\ Once(batch')
      /\ Shares(Elems(queue), Elems(queue'), Elems(batch') \cup B)
      /\ Shares(Elems(batch') \cup B, Elems(batch'), B)
      /\ Elems(leaf_segments') = Elems(leaf_segments)
           \cup {Segment(e) : e \in B \cup (IF batch' = <<>> THEN Elems(queue') ELSE {})}
  BY <1>4 DEF PopResult
<1>6. Elems(queue) = Elems(queue') \cup Elems(batch') \cup B
  BY <1>5 DEF Shares
<1>7. children = <<>> /\ Elems(children) = {} /\ Nids(children) = {}
  BY <1>1, <1>2, NoElems DEF PhaseInv
<1>8. \A e : RowSet(e)' = RowSet(e)
  BY <1>3, SameRows
<1>9. Live' = Live
  <2> DEFINE H(e) == Holding(e, RowSet(e))
  <2>1. Live = {H(e) : e \in Elems(queue) \cup Elems(leaf_segments)}
    BY <1>2, <1>7 DEF Live, Waiting, InBatch
  <2>2. \A e : BatchRows(e)' = RowSet(e) \/ pc' = "done"
    BY <1>2, <1>8 DEF BatchRows
  <2>3. Live' = {H(e) : e \in Elems(queue') \cup Elems(leaf_segments')}
                \cup (IF pc' = "apply" THEN {H(e) : e \in Elems(batch')} ELSE {})
    BY <1>2, <1>3, <1>7, <1>8, <2>2 DEF Live, Waiting, InBatch
  <2>4. \A e : H(Segment(e)) = H(e)
    BY SegmentHolds
  <2> HIDE DEF H
  <2>5. CASE pc' = "apply"
    BY <1>2, <1>5, <1>6, <2>1, <2>3, <2>4, <2>5
  <2>6. CASE pc' = "done"
    <3>1. Elems(batch') = {} /\ batch' = <<>>
      BY <1>2, <2>6, NoElems
    <3> QED BY <1>2, <1>5, <1>6, <2>1, <2>3, <2>4, <2>6, <3>1
  <2> QED BY <1>2, <2>5, <2>6
<1>10. TypeInv'
  <2>1. num_leaves' \in Nat
    BY <1>1, PopIs DEF OnceInv
  <2>2. pc' \in Phases
    BY <1>2 DEF Phases
  <2>3. expandable' \in Seq(DOMAIN batch')
    BY <1>3, NoElems
  <2>4. /\ param' \in Params /\ atomic_free' \in BOOLEAN /\ trees' \in 1 .. MaxTrees
        /\ \E n \in Nat \ {0} : tree' \in [0 .. n - 1 -> Nodes]
        /\ bufs' \in [0 .. 1 -> [Positions -> Rows]] /\ cur' \in 0 .. 1
        /\ side' \in [Positions -> 0 .. 1] /\ frontiers' \in Seq(Slots) /\ arena' \in Arenas
        /\ root' \in Nat /\ children' \in Seq(Entries)
    BY <1>1, <1>3 DEF TypeInv
  <2> QED BY <1>5, <2>1, <2>2, <2>3, <2>4 DEF TypeInv
<1>11. PhaseInv'
  <2>1. pc' = "done" => \A e \in Elems(queue') : Segment(e) \in Elems(leaf_segments')
    BY <1>2, <1>5
  <2> QED BY <1>1, <1>2, <1>3, <2>1 DEF PhaseInv
<1>12. OnceInv'
  <2>1. /\ Nids(queue) = {e.nid : e \in Elems(queue)}
        /\ Nids(leaf_segments) = {e.nid : e \in Elems(leaf_segments)}
        /\ Nids(queue') = {e.nid : e \in Elems(queue')}
        /\ Nids(batch') = {e.nid : e \in Elems(batch')}
        /\ Nids(leaf_segments') = {e.nid : e \in Elems(leaf_segments')}
    BY NidsAre
  <2>2. Nids(queue) \cap Nids(leaf_segments) = {} /\ Once(children)
    BY <1>1, <1>2 DEF OnceInv
  <2>3. \A e : Segment(e).nid = e.nid
    BY DEF Segment
  <2>4. pc' = "apply" => Elems(leaf_segments') = Elems(leaf_segments) \cup {Segment(e) : e \in B}
    BY <1>2, <1>5
  <2>5. pc' = "apply" => Nids(leaf_segments') = Nids(leaf_segments) \cup {e.nid : e \in B}
    BY <2>1, <2>3, <2>4
  <2>6. /\ {e.nid : e \in B} \cap Nids(queue') = {} /\ {e.nid : e \in B} \cap Nids(batch') = {}
        /\ Nids(batch') \cap Nids(queue') = {}
    BY <1>5, <2>1 DEF Shares
  <2>7. Nids(queue') \subseteq Nids(queue) /\ Nids(batch') \subseteq Nids(queue)
    BY <1>6, <2>1
  <2>8. pc' = "apply" => /\ Nids(queue') \cap Nids(leaf_segments') = {}
                         /\ Nids(batch') \cap (Nids(queue') \cup Nids(leaf_segments')) = {}
    BY <2>2, <2>5, <2>6, <2>7
  <2>9. children' = <<>> /\ Nids(children') = {} /\ Once(children')
    BY <1>3, <1>7, <2>2
  <2> QED BY <1>2, <1>5, <2>8, <2>9 DEF OnceInv, InBatch
<1>13. TileInv' /\ RoutingInv'
  <2>1. RoutingInv' /\ Tiles(Live)'
    BY <1>1, <1>2, <1>3, <1>9, SameLive DEF TileInv
  <2> QED BY <2>1 DEF TileInv
<1>14. \A e \in Elems(queue') \cup Elems(batch') : e \in Elems(queue)
  BY <1>6
<1>15. SideInv'
  <2>1. \A e, b : OneSide(e, b)' <=> OneSide(e, b)
    BY <1>3 DEF OneSide
  <2>2. \A e \in Elems(queue) \cup Elems(leaf_segments) : OneSide(e, side[e.begin])
    BY <1>1 DEF SideInv, Waiting
  <2>3. \A e : OneSide(Segment(e), side[Segment(e).begin]) <=> OneSide(e, side[e.begin])
    BY DEF OneSide, Segment
  <2>4. \A e \in Waiting' : OneSide(e, side[e.begin])
    <3>1. Waiting' = Elems(queue') \cup Elems(leaf_segments')
      BY <1>3, <1>7 DEF Waiting
    <3>2. \A e \in B \cup Elems(queue') : e \in Elems(queue)
      BY <1>6
    <3> QED BY <1>5, <2>2, <2>3, <3>1, <3>2
  <2>5. \A e \in Elems(batch') : OneSide(e, side[e.begin])
    BY <1>14, <2>2
  <2>6. \A e : OneSide(e, side[e.begin])' <=> OneSide(e, side[e.begin])
    BY <1>3, <2>1
  <2> QED BY <1>2, <2>4, <2>5, <2>6 DEF SideInv, Dealing
<1>16. LevelInv'
  <2>1. \A d, e : Together(d, e)' <=> Together(d, e)
    BY <1>3 DEF Together
  <2>2. param.grow_policy = "DepthWise" => \A d, e \in Elems(queue) : Together(d, e)
    BY <1>1 DEF LevelInv
  <2>3. \A d, e \in Elems(batch') : Together(d, e)
    <3>1. CASE param.grow_policy = "DepthWise"
      BY <1>14, <2>2, <3>1
    <3>2. CASE param.grow_policy # "DepthWise"
      BY <1>4, <3>2 DEF PopResult, Together
    <3> QED BY <3>1, <3>2
  <2>4. param.grow_policy = "DepthWise" => queue' = <<>>
    <3>1. param.grow_policy = "DepthWise" => \A d, e \in Elems(queue) : d.depth = e.depth
      BY <2>2 DEF Together
    <3> QED BY <1>4, <3>1 DEF PopResult
  <2>5. param.grow_policy = "DepthWise" =>
          \A d, e \in Elems(queue') \cup Elems(children') : Together(d, e)
    BY <1>3, <1>7, <1>14, <2>2
  <2>6. \A d, e \in Elems(batch') : d.depth = e.depth /\ d.buf = e.buf
    BY <2>3 DEF Together
  <2> QED BY <1>3, <2>1, <2>3, <2>4, <2>5, <2>6 DEF LevelInv
<1>17. TreeInv'
  <2>1. Linked' /\ Leaves' = Leaves
    BY <1>1, <1>3, SameTree DEF TreeInv
  <2>2. Leaves = {s.nid : s \in Live}
    BY <1>1, <1>2 DEF TreeInv, Dealing
  <2>3. Leaves' = {s.nid : s \in Live'}
    BY <1>9, <2>1, <2>2
  <2> QED BY <1>2, <2>1, <2>3 DEF TreeInv, Dealing
<1>18. CandidateInv'
  <2>1. \A e, rows : Counted(e, rows)' <=> Counted(e, rows)
    BY <1>3 DEF Counted
  <2>2. \A e \in Elems(queue) : Counted(e, RowSet(e)) /\ Separates(e, RowSet(e))
    BY <1>1 DEF CandidateInv
  <2>3. \A e : /\ Counted(e, RowSet(e))' <=> Counted(e, RowSet(e))
               /\ Separates(e, RowSet(e))' <=> Separates(e, RowSet(e))
    BY <1>3, <1>8 DEF Counted, Separates
  <2>4. ASSUME pc' = "apply"
        PROVE  \A e : /\ Counted(e, BatchRows(e))' <=> Counted(e, RowSet(e))
                      /\ Separates(e, BatchRows(e))' <=> Separates(e, RowSet(e))
    <3>1. \A e : BatchRows(e)' = RowSet(e)
      BY <1>8, <2>4 DEF BatchRows
    <3> QED BY <1>3, <3>1 DEF Counted, Separates
  <2> QED BY <1>2, <1>14, <2>2, <2>3, <2>4 DEF CandidateInv, InBatch
<1>19. SlotInv'
  <2>1. ArenaOk(arena, frontiers)'
    BY <1>1, <1>3 DEF SlotInv, ArenaOk
  <2>2. \A e \in Handles' : e \in Handles
    <3>1. \A e \in Handles' : e \in Elems(queue') \cup Elems(children') \cup Elems(batch')
      BY DEF Handles
    <3>2. Elems(queue) \subseteq Handles
      BY DEF Handles
    <3> QED BY <1>3, <1>7, <1>14, <3>1, <3>2
  <2>3. \A e \in Handles : /\ e.buf \in DOMAIN frontiers /\ e.slot \in DOMAIN frontiers[e.buf]
                           /\ e.buf = arena.buf => e.slot < arena.next
    BY <1>1 DEF SlotInv
  <2> QED BY <1>3, <2>1, <2>2, <2>3 DEF SlotInv
<1>20. DealtInv' /\ PairInv'
  BY <1>2 DEF DealtInv, PairInv, Dealing
<1> QED BY <1>9, <1>10, <1>11, <1>12, <1>13, <1>15, <1>16, <1>17, <1>18, <1>19, <1>20 DEF IInv

(* A kernel that adds to a cleared slot and one that writes leave the same *)
(* counts.                                                                 *)
LEMMA BuiltIs ==
  ASSUME NEW old, NEW rows, ~atomic_free => old = Zero, atomic_free \in BOOLEAN
  PROVE  Built(old, rows) = Counts(rows)
<1>1. CASE atomic_free
  BY <1>1 DEF Built
<1>2. CASE ~atomic_free
  <2>1. Plus(Zero, Counts(rows)) = Counts(rows)
    BY DEF Plus, Zero, Counts
  <2> QED BY <1>2, <2>1 DEF Built
<1> QED BY <1>1, <1>2

(* A split with a gain sends rows of the segment both ways.                *)
LEMMA SplitIs ==
  ASSUME NEW rows \in SUBSET Rows, NEW s \in Splits(Counts(rows))
  PROVE  /\ s.gain \in Nat /\ s.rule \in SUBSET Rows
         /\ s.gain > 0 => s.rule \subseteq rows /\ s.rule # {} /\ s.rule # rows
<1>1. {r \in Rows : Counts(rows)[r] # 0} = rows
  BY DEF Counts
<1>2. s \in {[gain |-> 0, rule |-> {}]}
            \cup [gain : 1 .. MaxGain, rule : (SUBSET rows) \ {{}, rows}]
  BY <1>1 DEF Splits
<1>3. MaxGain \in Nat
  BY GpuGrowerAssumption
<1>4. CASE s = [gain |-> 0, rule |-> {}]
  BY <1>4
<1>5. CASE s \in [gain : 1 .. MaxGain, rule : (SUBSET rows) \ {{}, rows}]
  BY <1>3, <1>5
<1> QED BY <1>2, <1>4, <1>5

(* Some slots of one buffer are written.                                   *)
LEMMA Written ==
  ASSUME NEW pool \in Seq(Slots), NEW b \in DOMAIN pool, NEW g \in [DOMAIN pool[b] -> Sums]
  PROVE  LET w == [pool EXCEPT ![b] = g]
         IN /\ w \in Seq(Slots) /\ DOMAIN w = DOMAIN pool /\ w[b] = g
            /\ \A c \in DOMAIN pool : /\ DOMAIN w[c] = DOMAIN pool[c]
                                      /\ c # b => w[c] = pool[c]
<1>1. g \in Slots
  <2>1. pool[b] \in Slots
    OBVIOUS
  <2>2. PICK m \in Nat \ {0} : DOMAIN pool[b] = 0 .. m - 1
    BY <2>1, SlotsAre
  <2>3. g \in [0 .. m - 1 -> Sums]
    BY <2>2
  <2> QED BY <2>3 DEF Slots
<1> QED BY <1>1

(* A sequence of one.                                                      *)
LEMMA Single ==
  ASSUME NEW X, NEW x \in X
  PROVE  /\ <<x>> \in Seq(X) /\ Elems(<<x>>) = {x} /\ Once(<<x>>) /\ Nids(<<x>>) = {x.nid}
<1>1. <<x>> \in Seq(X) /\ DOMAIN <<x>> = {1} /\ <<x>>[1] = x
  OBVIOUS
<1> QED BY <1>1 DEF Elems, Once, Nids

(* One segment with every row.                                             *)
LEMMA WholeTiles ==
  ASSUME NEW h, h.rows = Rows, h.begin = 0, h.len = NumRows
  PROVE  Tiles({h})
<1>1. Span(h.begin, h.len) = Positions /\ Rows # {} /\ Rows = Positions
  <2>1. NumRows \in Nat \ {0}
    BY GpuGrowerAssumption
  <2>2. Span(h.begin, h.len) = 0 .. NumRows - 1
    <3>1. 0 + NumRows - 1 = NumRows - 1
      BY <2>1
    <3> QED BY <3>1 DEF Span
  <2>3. 0 \in 0 .. NumRows - 1
    BY <2>1
  <2> QED BY <2>2, <2>3 DEF Positions, Rows
<1> QED BY <1>1 DEF Tiles

(* A new tree is its root.                                                 *)
LEMMA RootIs ==
  /\ DOMAIN RootTree = {0} /\ \E n \in Nat \ {0} : RootTree \in [0 .. n - 1 -> Nodes]
  /\ RootTree[0].left = None /\ RootTree[0].right = None
<1>1. Leaf(None, 0) \in Nodes /\ {0} = 0 .. 1 - 1
  BY DEF Leaf, Nodes, None
<1>2. RootTree \in [0 .. 1 - 1 -> Nodes]
  BY <1>1 DEF RootTree
<1>3. 1 \in Nat \ {0}
  OBVIOUS
<1>4. DOMAIN RootTree = {0} /\ RootTree[0] = Leaf(None, 0)
  BY DEF RootTree
<1> QED BY <1>2, <1>3, <1>4 DEF Leaf

(* A new tree is well linked and its root is its only leaf.                *)
LEMMA RootLinked ==
  ASSUME tree = RootTree
  PROVE  Linked /\ Leaves = {0}
BY RootIs DEF Linked, Leaves

(* The invariant holds at first.                                           *)
LEMMA InitHolds == ASSUME Init PROVE IInv
<1>1. NumRows \in Nat \ {0} /\ MaxTrees \in Nat \ {0}
  BY GpuGrowerAssumption
<1>2. /\ Elems(queue) = {} /\ Elems(children) = {} /\ Elems(leaf_segments) = {} /\ Elems(batch) = {}
      /\ Nids(queue) = {} /\ Nids(children) = {} /\ Nids(leaf_segments) = {} /\ Nids(batch) = {}
      /\ Once(queue) /\ Once(children) /\ Once(batch) /\ pc = "tree"
  BY NoElems DEF Init
<1>3. Live = {}
  BY <1>2 DEF Live, Waiting, InBatch
<1>4. TypeInv
  <2>1. Iota \in [Positions -> Rows] /\ [i \in Positions |-> 0] \in [Positions -> 0 .. 1]
    BY DEF Iota, Rows
  <2>2. bufs \in [0 .. 1 -> [Positions -> Rows]] /\ side \in [Positions -> 0 .. 1]
    BY <2>1 DEF Init
  <2>3. NoArena \in Arenas
    BY DEF NoArena, Arenas
  <2>4. /\ pc \in Phases /\ param \in Params /\ atomic_free \in BOOLEAN /\ trees \in 1 .. MaxTrees
        /\ cur \in 0 .. 1 /\ arena \in Arenas /\ root \in Nat /\ num_leaves \in Nat
    BY <1>1, <2>3 DEF Init, Phases
  <2>5. /\ frontiers \in Seq(Slots) /\ queue \in Seq(Entries) /\ batch \in Seq(Entries)
        /\ children \in Seq(Entries) /\ leaf_segments \in Seq(Segs)
        /\ expandable \in Seq(DOMAIN batch)
    BY NoElems DEF Init
  <2>6. \E n \in Nat \ {0} : tree \in [0 .. n - 1 -> Nodes]
    BY RootIs DEF Init
  <2> QED BY <2>2, <2>4, <2>5, <2>6 DEF TypeInv
<1>5. PhaseInv
  BY <1>2 DEF Init, PhaseInv
<1>6. OnceInv
  BY <1>2 DEF OnceInv, InBatch
<1>7. TileInv
  BY <1>2 DEF TileInv
<1>8. SideInv /\ LevelInv /\ CandidateInv /\ DealtInv /\ PairInv
  BY <1>2 DEF SideInv, LevelInv, CandidateInv, DealtInv, PairInv, Waiting, InBatch, Dealing, Parents
<1>9. SlotInv
  <2>1. ArenaOk(arena, frontiers)
    BY DEF Init, ArenaOk, NoArena
  <2>2. Handles = {}
    BY <1>2 DEF Handles, Parents, InBatch
  <2> QED BY <2>1, <2>2 DEF SlotInv
<1>10. TreeInv
  <2>1. Linked
    BY RootLinked DEF Init
  <2> QED BY <1>2, <2>1 DEF TreeInv, Dealing
<1>11. RoutingInv
  <2> DEFINE f == [n \in {0} |-> Rows]
  <2>1. DOMAIN tree = {0}
    BY RootIs DEF Init
  <2>2. f \in [DOMAIN tree -> SUBSET Rows] /\ Routes(f)
    BY <2>1 DEF Routes
  <2> QED BY <1>3, <2>2 DEF RoutingInv
<1> QED BY <1>4, <1>5, <1>6, <1>7, <1>8, <1>9, <1>10, <1>11 DEF IInv

(* NextTree keeps the invariant: the pool may keep what the last tree      *)
(* counted.                                                                *)
LEMMA NextTreeKeeps == ASSUME IInv, NextTree PROVE IInv'
<1>1. TypeInv /\ PhaseInv
  BY DEF IInv
<1>2. /\ pc = "done" /\ pc' = "tree" /\ tree' = RootTree /\ trees < param.rounds
      /\ trees' = trees + 1 /\ arena' = NoArena /\ root' = 0 /\ queue' = <<>>
      /\ leaf_segments' = <<>>
      /\ param' = param /\ atomic_free' = atomic_free /\ bufs' = bufs /\ cur' = cur
      /\ side' = side /\ frontiers' = frontiers /\ batch' = batch /\ expandable' = expandable
      /\ todo' = todo /\ left_counts' = left_counts /\ pending' = pending
      /\ children' = children /\ num_leaves' = num_leaves
  BY DEF NextTree, partitioner
<1>3. batch' = <<>> /\ children' = <<>>
  BY <1>1, <1>2 DEF PhaseInv
<1>4. /\ Elems(queue') = {} /\ Elems(children') = {} /\ Elems(leaf_segments') = {}
      /\ Elems(batch') = {} /\ Nids(queue') = {} /\ Nids(children') = {}
      /\ Nids(leaf_segments') = {} /\ Nids(batch') = {}
      /\ Once(queue') /\ Once(children') /\ Once(batch')
  BY <1>2, <1>3, NoElems
<1>5. Live' = {}
  BY <1>2, <1>4 DEF Live, Waiting, InBatch
<1>6. TypeInv'
  <2>1. trees' \in 1 .. MaxTrees
    <3>1. param.rounds \in 1 .. MaxTrees /\ MaxTrees \in Nat
      BY <1>1, GpuGrowerAssumption DEF TypeInv
    <3>2. trees \in 1 .. MaxTrees
      BY <1>1 DEF TypeInv
    <3> QED BY <1>2, <3>1, <3>2
  <2>2. arena' \in Arenas /\ root' \in Nat /\ pc' \in Phases
    BY <1>2 DEF NoArena, Arenas, Phases
  <2>3. /\ queue' \in Seq(Entries) /\ leaf_segments' \in Seq(Segs)
    BY <1>2, NoElems
  <2>4. \E n \in Nat \ {0} : tree' \in [0 .. n - 1 -> Nodes]
    BY <1>2, RootIs
  <2>5. /\ param' \in Params /\ atomic_free' \in BOOLEAN
        /\ bufs' \in [0 .. 1 -> [Positions -> Rows]] /\ cur' \in 0 .. 1
        /\ side' \in [Positions -> 0 .. 1] /\ frontiers' \in Seq(Slots)
        /\ batch' \in Seq(Entries) /\ children' \in Seq(Entries)
        /\ expandable' \in Seq(DOMAIN batch') /\ num_leaves' \in Nat
    BY <1>1, <1>2 DEF TypeInv
  <2> QED BY <2>1, <2>2, <2>3, <2>4, <2>5 DEF TypeInv
<1>7. PhaseInv'
  BY <1>2, <1>3 DEF PhaseInv
<1>8. OnceInv'
  BY <1>2, <1>4 DEF OnceInv, InBatch
<1>9. TileInv'
  BY <1>2 DEF TileInv
<1>10. SideInv' /\ LevelInv' /\ CandidateInv' /\ DealtInv' /\ PairInv'
  BY <1>2, <1>4 DEF SideInv, LevelInv, CandidateInv, DealtInv, PairInv, Waiting, InBatch,
                    Dealing, Parents
<1>11. SlotInv'
  <2>1. ArenaOk(arena, frontiers)'
    BY <1>2 DEF ArenaOk, NoArena
  <2>2. Handles' = {}
    BY <1>2, <1>4 DEF Handles, Parents, InBatch
  <2> QED BY <2>1, <2>2 DEF SlotInv
<1>12. TreeInv'
  <2>1. Linked'
    BY <1>2, RootIs DEF Linked
  <2> QED BY <1>2, <2>1 DEF TreeInv, Dealing
<1>13. RoutingInv'
  <2> DEFINE f == [n \in {0} |-> Rows]
  <2>1. DOMAIN tree' = {0}
    BY <1>2, RootIs
  <2>2. f \in [DOMAIN tree' -> SUBSET Rows] /\ Routes(f)'
    BY <2>1 DEF Routes
  <2> QED BY <1>5, <2>2 DEF RoutingInv
<1> QED BY <1>6, <1>7, <1>8, <1>9, <1>10, <1>11, <1>12, <1>13 DEF IInv

(* StartTree keeps the invariant and makes the root's segment live.        *)
LEMMA StartTreeKeeps == ASSUME IInv, StartTree PROVE IInv' /\ \E e : Live' = {Holding(e, Rows)}
<1>t. PICK t : t = TakeSlots(1, NoArena, {})
  OBVIOUS
<1> DEFINE old == t.pool[t.buf][t.base]
           sums == Built(old, Rows)
           root0(s) == [nid |-> 0, depth |-> 0, begin |-> 0, len |-> NumRows, buf |-> t.buf,
                        slot |-> t.base, gain |-> s.gain, rule |-> s.rule]
<1>1. TypeInv /\ PhaseInv /\ TreeInv /\ NumRows \in Nat \ {0}
  BY GpuGrowerAssumption DEF IInv
<1>2. /\ pc = "tree" /\ pc' = "pop" /\ bufs' = [b \in 0 .. 1 |-> Iota] /\ cur' = 0
      /\ side' = [i \in Positions |-> 0] /\ num_leaves' = 1
      /\ arena' = t.arena /\ root' = t.buf
      /\ frontiers' = [t.pool EXCEPT ![t.buf][t.base] = sums]
      /\ param' = param /\ atomic_free' = atomic_free /\ trees' = trees /\ tree' = tree
      /\ batch' = batch /\ expandable' = expandable /\ todo' = todo
      /\ left_counts' = left_counts /\ pending' = pending /\ children' = children
  BY <1>t DEF StartTree
<1>3. PICK s \in Splits(sums) :
        LET e == root0(s)
        IN IF s.gain > 0 THEN queue' = <<e>> /\ leaf_segments' = <<>>
                         ELSE queue' = <<>> /\ leaf_segments' = <<Segment(e)>>
  BY <1>t DEF StartTree
<1>e. PICK e : e = root0(s)
  OBVIOUS
<1>4. atomic_free \in BOOLEAN /\ frontiers \in Seq(Slots)
  BY <1>1 DEF TypeInv
<1>5. Taken(t, 1, NoArena, {})
  <2>1. NoArena \in Arenas /\ ArenaOk(NoArena, frontiers)
    BY DEF NoArena, Arenas, ArenaOk
  <2> QED BY <1>4, <1>t, <2>1, SlotsTaken
<1>6. /\ t.pool \in Seq(Slots) /\ t.buf \in DOMAIN t.pool /\ t.buf \in Nat \ {0} /\ t.base \in Nat
      /\ t.base \in DOMAIN t.pool[t.buf]
      /\ ~atomic_free => old = Zero
      /\ t.arena \in Arenas /\ t.arena.buf = t.buf /\ t.arena.next = t.base + 1
      /\ ArenaOk(t.arena, t.pool)
  <2>1. t.base \in Nat /\ t.base .. t.base + 1 - 1 = {t.base}
    BY <1>5 DEF Taken
  <2> QED BY <1>5, <2>1 DEF Taken
<1>7. sums = Counts(Rows)
  <2> HIDE DEF old
  <2> QED BY <1>4, <1>6, BuiltIs
<1> HIDE DEF old, sums
<1>8. /\ s.gain \in Nat /\ s.rule \in SUBSET Rows
      /\ s.gain > 0 => s.rule \subseteq Rows /\ s.rule # {} /\ s.rule # Rows
  BY <1>3, <1>7, SplitIs
<1>9. /\ frontiers' \in Seq(Slots) /\ DOMAIN frontiers' = DOMAIN t.pool
      /\ DOMAIN frontiers'[t.buf] = DOMAIN t.pool[t.buf]
      /\ frontiers'[t.buf][t.base] = Counts(Rows)
      /\ \A x \in DOMAIN t.pool[t.buf] :
           x # t.base => frontiers'[t.buf][x] = t.pool[t.buf][x]
  <2> DEFINE g == [t.pool[t.buf] EXCEPT ![t.base] = sums]
  <2>1. t.pool[t.buf] \in Slots /\ sums \in Sums
    BY <1>6, <1>7, SumsAre
  <2>2. g \in [DOMAIN t.pool[t.buf] -> Sums]
    <3>1. PICK m \in Nat \ {0} : t.pool[t.buf] \in [0 .. m - 1 -> Sums]
      BY <2>1, SlotsAre
    <3> QED BY <2>1, <3>1
  <2>3. frontiers' = [t.pool EXCEPT ![t.buf] = g]
    BY <1>2
  <2> DEFINE p == t.pool[t.buf]
  <2>p. p \in Slots
    BY <2>1
  <2>4. g[t.base] = sums /\ \A x \in DOMAIN t.pool[t.buf] : x # t.base => g[x] = t.pool[t.buf][x]
    <3>1. PICK m \in Nat \ {0} : p \in [0 .. m - 1 -> Sums]
      BY <2>p, SlotsAre
    <3>2. g = [p EXCEPT ![t.base] = sums] /\ t.base \in DOMAIN p
      BY <1>6
    <3> HIDE DEF p, g
    <3>3. g[t.base] = sums /\ \A x \in DOMAIN p : x # t.base => g[x] = p[x]
      BY <3>1, <3>2
    <3> QED BY <3>3 DEF p
  <2> HIDE DEF g
  <2>5. /\ frontiers' \in Seq(Slots) /\ DOMAIN frontiers' = DOMAIN t.pool /\ frontiers'[t.buf] = g
    BY <1>6, <2>2, <2>3, Written
  <2> QED BY <1>7, <2>2, <2>4, <2>5
<1>10. /\ e \in Entries /\ Segment(e) \in Segs /\ e.nid = 0 /\ e.depth = 0 /\ e.begin = 0
       /\ e.len = NumRows /\ e.buf = t.buf /\ e.slot = t.base /\ e.gain = s.gain /\ e.rule = s.rule
       /\ Segment(e).begin = 0 /\ Segment(e).nid = 0 /\ Segment(e).len = NumRows
  <2>1. 0 \in Positions /\ NumRows \in Nat \ {0}
    BY <1>1 DEF Positions
  <2>2. e \in Entries
    BY <1>6, <1>8, <1>e, <2>1 DEF Entries
  <2> QED BY <1>e, <2>2, SegmentsAre DEF Segment
<1>11. /\ batch' = <<>> /\ children' = <<>> /\ Elems(batch') = {} /\ Elems(children') = {}
       /\ Nids(batch') = {} /\ Nids(children') = {} /\ Once(batch') /\ Once(children')
  BY <1>1, <1>2, NoElems DEF PhaseInv
<1>12. \/ s.gain > 0 /\ queue' = <<e>> /\ leaf_segments' = <<>>
       \/ queue' = <<>> /\ leaf_segments' = <<Segment(e)>>
  BY <1>3, <1>e
<1>13. /\ queue' \in Seq(Entries) /\ leaf_segments' \in Seq(Segs) /\ Once(queue')
       /\ \/ s.gain > 0 /\ Elems(queue') = {e} /\ Elems(leaf_segments') = {}
             /\ Nids(queue') = {0} /\ Nids(leaf_segments') = {}
          \/ Elems(queue') = {} /\ Elems(leaf_segments') = {Segment(e)}
             /\ Nids(queue') = {} /\ Nids(leaf_segments') = {0}
  <2>1. CASE s.gain > 0 /\ queue' = <<e>> /\ leaf_segments' = <<>>
    BY <1>10, <2>1, Single, NoElems
  <2>2. CASE queue' = <<>> /\ leaf_segments' = <<Segment(e)>>
    BY <1>10, <2>2, Single, NoElems
  <2> QED BY <1>12, <2>1, <2>2
<1>14. /\ \A x : x.begin = 0 /\ x.len = NumRows => RowSet(x)' = Rows
       /\ \A x : x.begin = 0 /\ x.len = NumRows => OneSide(x, side[x.begin])'
  <2> SUFFICES ASSUME NEW x, x.begin = 0, x.len = NumRows
               PROVE  RowSet(x)' = Rows /\ OneSide(x, side[x.begin])'
    OBVIOUS
  <2>1. Span(x.begin, x.len) = Positions /\ 0 \in Positions
    <3>1. 0 + NumRows - 1 = NumRows - 1 /\ 0 \in 0 .. NumRows - 1
      BY <1>1
    <3> QED BY <3>1 DEF Span, Positions
  <2>2. side'[0] = 0 /\ \A i \in Positions : bufs'[0][i] = i /\ side'[i] = 0
    BY <1>2, <2>1 DEF Iota
  <2>3. RowSet(x)' = {bufs'[0][i] : i \in Positions}
    BY <2>1, <2>2 DEF RowSet, RowsOf
  <2>4. RowSet(x)' = Rows
    BY <2>2, <2>3 DEF Rows
  <2>5. OneSide(x, side[x.begin])'
    BY <2>1, <2>2 DEF OneSide
  <2> QED BY <2>4, <2>5
<1>15. Live' = {Holding(e, Rows)}
  <2>1. Holding(Segment(e), Rows) = Holding(e, Rows)
    BY DEF Holding, Segment
  <2>2. RowSet(e)' = Rows /\ RowSet(Segment(e))' = Rows
    BY <1>10, <1>14
  <2>3. Live' = {Holding(x, RowSet(x)') : x \in Elems(queue') \cup Elems(leaf_segments')}
    BY <1>2, <1>11 DEF Live, Waiting, InBatch
  <2>4. Elems(queue') \cup Elems(leaf_segments') \in {{e}, {Segment(e)}}
    BY <1>13
  <2>5. CASE Elems(queue') \cup Elems(leaf_segments') = {e}
    BY <2>2, <2>3, <2>5
  <2>6. CASE Elems(queue') \cup Elems(leaf_segments') = {Segment(e)}
    BY <2>1, <2>2, <2>3, <2>6
  <2> QED BY <2>4, <2>5, <2>6
<1>16. TypeInv'
  <2>1. Iota \in [Positions -> Rows] /\ [i \in Positions |-> 0] \in [Positions -> 0 .. 1]
    BY DEF Iota, Rows
  <2>2. bufs' \in [0 .. 1 -> [Positions -> Rows]] /\ side' \in [Positions -> 0 .. 1]
    BY <1>2, <2>1
  <2>3. /\ arena' \in Arenas /\ root' \in Nat /\ pc' \in Phases /\ cur' \in 0 .. 1
        /\ num_leaves' \in Nat
    BY <1>2, <1>6 DEF Phases
  <2>4. /\ param' \in Params /\ atomic_free' \in BOOLEAN /\ trees' \in 1 .. MaxTrees
        /\ \E n \in Nat \ {0} : tree' \in [0 .. n - 1 -> Nodes]
        /\ batch' \in Seq(Entries) /\ children' \in Seq(Entries)
        /\ expandable' \in Seq(DOMAIN batch')
    BY <1>1, <1>2 DEF TypeInv
  <2> QED BY <1>9, <1>13, <2>2, <2>3, <2>4 DEF TypeInv
<1>17. PhaseInv'
  BY <1>2, <1>11 DEF PhaseInv
<1>18. OnceInv'
  BY <1>2, <1>11, <1>13 DEF OnceInv, InBatch
<1>19. TileInv'
  <2>1. Tiles({Holding(e, Rows)})
    BY <1>10, WholeTiles DEF Holding
  <2>2. Tiles(Live)' = Tiles(Live')
    BY DEF Tiles
  <2> QED BY <1>15, <2>1, <2>2 DEF TileInv
<1>20. SideInv'
  <2>1. Waiting' \subseteq {e, Segment(e)}
    BY <1>11, <1>13 DEF Waiting
  <2>2. \A x \in Waiting' : OneSide(x, side[x.begin])'
    BY <1>10, <1>14, <2>1
  <2> QED BY <1>2, <2>2 DEF SideInv, Dealing
<1>21. LevelInv'
  <2>1. \A x, y \in Elems(queue') \cup Elems(children') : x = y
    BY <1>11, <1>13
  <2>2. \A x : Together(x, x)'
    BY DEF Together
  <2> QED BY <1>2, <2>1, <2>2 DEF LevelInv, Parents, InBatch
<1>22. TreeInv'
  <2>1. Linked' /\ Leaves' = {0}
    <3>1. Linked /\ Leaves = {0}
      BY <1>1, <1>2, RootLinked DEF PhaseInv
    <3> QED BY <1>2, <3>1, SameTree
  <2>2. {x.nid : x \in Live'} = {0}
    BY <1>10, <1>15 DEF Holding
  <2> QED BY <1>2, <2>1, <2>2 DEF TreeInv, Dealing
<1>23. CandidateInv'
  <2>1. ASSUME NEW x \in Elems(queue') PROVE Counted(x, RowSet(x))' /\ Separates(x, RowSet(x))'
    <3>1. x = e /\ s.gain > 0
      BY <1>13, <2>1
    <3>2. RowSet(e)' = Rows
      BY <1>10, <1>14
    <3>3. Counted(e, RowSet(e))'
      BY <1>9, <1>10, <3>2 DEF Counted
    <3>4. Separates(e, RowSet(e))'
      BY <1>8, <1>10, <3>1, <3>2 DEF Separates
    <3> QED BY <3>1, <3>3, <3>4
  <2> QED BY <1>2, <2>1 DEF CandidateInv, InBatch
<1>24. SlotInv'
  <2>1. ArenaOk(arena, frontiers)'
    <3>1. /\ t.buf # 0
          /\ \A x \in t.base + 1 .. t.arena.slots - 1 :
               x # t.base /\ x \in 0 .. t.arena.slots - 1
      BY <1>6 DEF Arenas
    <3>2. \A x \in t.base + 1 .. t.arena.slots - 1 : frontiers'[t.buf][x] = t.pool[t.buf][x]
      BY <1>6, <1>9, <3>1 DEF ArenaOk
    <3> QED BY <1>2, <1>6, <1>9, <3>1, <3>2 DEF ArenaOk
  <2>2. \A x \in Handles' : x = e
    BY <1>2, <1>11, <1>13 DEF Handles, Parents, InBatch
  <2>3. /\ e.buf \in DOMAIN frontiers' /\ e.slot \in DOMAIN frontiers'[e.buf]
        /\ e.slot < arena'.next
    BY <1>2, <1>6, <1>9, <1>10
  <2> QED BY <2>1, <2>2, <2>3 DEF SlotInv
<1>25. DealtInv' /\ PairInv'
  BY <1>2 DEF DealtInv, PairInv, Dealing
<1>26. RoutingInv'
  <2> DEFINE f == [n \in {0} |-> Rows]
  <2>1. DOMAIN tree' = {0}
    BY <1>1, <1>2, RootIs DEF PhaseInv
  <2>2. f \in [DOMAIN tree' -> SUBSET Rows] /\ Routes(f)'
    BY <2>1 DEF Routes
  <2>3. \A x \in Live' : x.rows = f[x.nid]
    BY <1>10, <1>15 DEF Holding
  <2> HIDE DEF f
  <2> QED BY <2>2, <2>3 DEF RoutingInv
<1> QED BY <1>15, <1>16, <1>17, <1>18, <1>19, <1>20, <1>21, <1>22, <1>23,
         <1>24, <1>25, <1>26 DEF IInv

-----------------------------------------------------------------------------
(* Applying the splits of a batch. *)

(* The tree g has two nodes more for each candidate of the batch, from n   *)
(* on.                                                                     *)
Grew(g, n) ==
  LET m == Len(batch)
  IN /\ g \in [0 .. n + 2 * m - 1 -> Nodes]
     /\ \A k \in 1 .. m :
          LET l == n + 2 * (k - 1)
              e == batch[k]
          IN /\ l \in n .. n + 2 * m - 1 /\ l + 1 \in n .. n + 2 * m - 1
             /\ g[l] = Leaf(e.nid, e.depth + 1) /\ g[l + 1] = Leaf(e.nid, e.depth + 1)
             /\ g[e.nid].left = l /\ g[e.nid].right = l + 1 /\ g[e.nid].rule = e.rule
             /\ g[e.nid].parent = tree[e.nid].parent
     /\ \A x \in 0 .. n - 1 : (\A k \in 1 .. m : batch[k].nid # x) => g[x] = tree[x]
     /\ \A x \in n .. n + 2 * m - 1 :
          \E k \in 1 .. m : x = n + 2 * (k - 1) \/ x = n + 2 * (k - 1) + 1

(* Expanding a leaf gives it two new ones.                                 *)
LEMMA SplitNode ==
  ASSUME NEW u \in Nodes, NEW l \in Nat, NEW r \in SUBSET Rows
  PROVE  [u EXCEPT !.left = l, !.right = l + 1, !.rule = r] \in Nodes
<1> DEFINE v == [u EXCEPT !.left = l]
           w == [v EXCEPT !.right = l + 1]
<1>1. l \in Nat \cup {None} /\ l + 1 \in Nat \cup {None}
  OBVIOUS
<1>2. v \in Nodes
  BY <1>1 DEF Nodes
<1> HIDE DEF v
<1>3. w \in Nodes
  BY <1>1, <1>2 DEF Nodes
<1> HIDE DEF w
<1>4. [w EXCEPT !.rule = r] \in Nodes
  BY <1>3 DEF Nodes
<1> QED BY <1>4 DEF v, w

(* Applying the splits of a batch expands each of its leaves, in order.    *)
LEMMA GrownIs ==
  ASSUME NEW n \in Nat \ {0}, tree \in [0 .. n - 1 -> Nodes], batch \in Seq(Entries),
         Once(batch), \A e \in Elems(batch) : e.nid \in 0 .. n - 1
  PROVE  Grew(Grown, n)
<1> DEFINE m == Len(batch)
           c == Cardinality(DOMAIN tree)
           Left(k) == c + 2 * (k - 1)
           At(x) == CHOOSE k \in DOMAIN batch : x \in {Left(k), Left(k) + 1}
           Of(x) == {k \in DOMAIN batch : batch[k].nid = x}
           Split(node, k) == [node EXCEPT !.left = Left(k), !.right = Left(k) + 1,
                                          !.rule = batch[k].rule]
           g == [x \in 0 .. c + 2 * m - 1 |->
                   IF x >= c THEN Leaf(batch[At(x)].nid, batch[At(x)].depth + 1)
                   ELSE IF Of(x) = {} THEN tree[x]
                   ELSE Split(tree[x], CHOOSE k \in Of(x) : TRUE)]
<1>1. /\ m \in Nat /\ DOMAIN batch = 1 .. m /\ \A k \in 1 .. m : batch[k] \in Entries
      /\ DOMAIN tree = 0 .. n - 1
  OBVIOUS
<1>2. \A k \in 1 .. m : /\ batch[k].nid \in 0 .. n - 1 /\ batch[k].depth \in Nat
                        /\ batch[k].nid \in Nat /\ batch[k].rule \in SUBSET Rows
  <2>1. \A k \in 1 .. m : batch[k] \in Elems(batch)
    BY <1>1 DEF Elems
  <2> QED BY <1>1, <2>1 DEF Entries
<1>3. c = n
  <2>1. 0 \in Int /\ n - 1 \in Int
    OBVIOUS
  <2>2. Cardinality(0 .. n - 1) = IF 0 > n - 1 THEN 0 ELSE (n - 1) - 0 + 1
    BY <2>1, FS_Interval, Zenon
  <2> QED BY <1>1, <2>2
<1>4. Grown = g
  BY DEF Grown
<1> HIDE DEF m, c
<1>5. \A k \in 1 .. m : /\ Left(k) \in n .. n + 2 * m - 1 /\ Left(k) + 1 \in n .. n + 2 * m - 1
                        /\ Left(k) \in Nat
  BY <1>1, <1>3
<1>6. \A k \in 1 .. m : At(Left(k)) = k /\ At(Left(k) + 1) = k
  <2> SUFFICES ASSUME NEW k \in 1 .. m, NEW x \in {Left(k), Left(k) + 1} PROVE At(x) = k
    OBVIOUS
  <2>1. \A j \in 1 .. m : x \in {Left(j), Left(j) + 1} => j = k
    BY <1>1, <1>3
  <2>2. \E j \in DOMAIN batch : x \in {Left(j), Left(j) + 1}
    BY <1>1
  <2> HIDE DEF Left
  <2> QED BY <1>1, <2>1, <2>2
<1>7. \A x \in n .. n + 2 * m - 1 : \E k \in 1 .. m : x = Left(k) \/ x = Left(k) + 1
  <2> SUFFICES ASSUME NEW x \in n .. n + 2 * m - 1
               PROVE  \E k \in 1 .. m : x = Left(k) \/ x = Left(k) + 1
    OBVIOUS
  <2> DEFINE k == (x - n) \div 2 + 1
  <2>1. k \in 1 .. m /\ (x = Left(k) \/ x = Left(k) + 1)
    BY <1>1, <1>3
  <2> QED BY <2>1
<1>8. \A k \in 1 .. m : Of(batch[k].nid) = {k}
  BY <1>1 DEF Once
<1>9. \A k \in 1 .. m : Split(tree[batch[k].nid], k) \in Nodes
  <2> SUFFICES ASSUME NEW k \in 1 .. m PROVE Split(tree[batch[k].nid], k) \in Nodes
    OBVIOUS
  <2>1. tree[batch[k].nid] \in Nodes
    BY <1>2
  <2> DEFINE u == tree[batch[k].nid]
             l == Left(k)
             r == batch[k].rule
  <2>3. l \in Nat /\ l + 1 \in Nat /\ r \in SUBSET Rows
    BY <1>2, <1>5
  <2> HIDE DEF u, l, r
  <2>5. [u EXCEPT !.left = l, !.right = l + 1, !.rule = r] \in Nodes
    BY <2>1, <2>3, SplitNode DEF u
  <2> QED BY <2>5 DEF u, l, r
<1> HIDE DEF Left, At, Split
<1>10. \A k \in 1 .. m : Leaf(batch[k].nid, batch[k].depth + 1) \in Nodes
  BY <1>2 DEF Leaf, Nodes
<1>11. ASSUME NEW x \in 0 .. n + 2 * m - 1 PROVE g[x] \in Nodes
  <2>0. x \in 0 .. c + 2 * m - 1
    BY <1>3
  <2>1. CASE x >= c
    <3>1. x \in n .. n + 2 * m - 1
      BY <1>1, <1>3, <2>1
    <3>2. PICK k \in 1 .. m : At(x) = k
      BY <1>6, <1>7, <3>1
    <3> QED BY <1>10, <2>0, <2>1, <3>2
  <2>2. CASE ~(x >= c) /\ Of(x) = {}
    <3>1. x \in 0 .. n - 1
      BY <1>3, <2>2
    <3> QED BY <2>0, <2>2, <3>1
  <2>3. CASE ~(x >= c) /\ Of(x) # {}
    <3>1. PICK k \in 1 .. m : x = batch[k].nid
      BY <1>1, <2>3
    <3>2. (CHOOSE j \in Of(x) : TRUE) = k
      BY <1>8, <3>1
    <3> QED BY <1>9, <2>0, <2>3, <3>1, <3>2
  <2> QED BY <2>1, <2>2, <2>3
<1>12. g \in [0 .. n + 2 * m - 1 -> Nodes]
  <2>1. \A x \in 0 .. n + 2 * m - 1 : g[x] \in Nodes
    BY <1>11
  <2> QED BY <1>3, <2>1
<1>13. ASSUME NEW k \in 1 .. m
       PROVE  /\ g[Left(k)] = Leaf(batch[k].nid, batch[k].depth + 1)
              /\ g[Left(k) + 1] = Leaf(batch[k].nid, batch[k].depth + 1)
  <2>1. /\ Left(k) \in 0 .. c + 2 * m - 1 /\ Left(k) >= c
        /\ Left(k) + 1 \in 0 .. c + 2 * m - 1 /\ Left(k) + 1 >= c
    BY <1>1, <1>3, <1>5
  <2> QED BY <1>6, <2>1
<1>14. ASSUME NEW k \in 1 .. m PROVE g[batch[k].nid] = Split(tree[batch[k].nid], k)
  <2>1. /\ batch[k].nid \in 0 .. c + 2 * m - 1 /\ ~(batch[k].nid >= c)
    BY <1>1, <1>2, <1>3
  <2>2. Of(batch[k].nid) = {k}
    BY <1>8
  <2> QED BY <2>1, <2>2
<1>15. ASSUME NEW x \in 0 .. n - 1, \A k \in 1 .. m : batch[k].nid # x PROVE g[x] = tree[x]
  <2>1. x \in 0 .. c + 2 * m - 1 /\ ~(x >= c)
    BY <1>1, <1>3
  <2>2. Of(x) = {}
    BY <1>1, <1>15
  <2> QED BY <2>1, <2>2
<1> HIDE DEF g
<1>16. ASSUME NEW k \in 1 .. m
       PROVE  LET e == batch[k]
              IN /\ g[e.nid].left = Left(k) /\ g[e.nid].right = Left(k) + 1
                 /\ g[e.nid].rule = e.rule /\ g[e.nid].parent = tree[e.nid].parent
  <2>1. tree[batch[k].nid] \in Nodes
    BY <1>2
  <2>2. g[batch[k].nid] = Split(tree[batch[k].nid], k)
    BY <1>14
  <2> QED BY <2>1, <2>2 DEF Split, Nodes
<1>17. Grew(g, n)
  <2>1. \A k \in 1 .. m :
          LET l == n + 2 * (k - 1)
              e == batch[k]
          IN /\ l \in n .. n + 2 * m - 1 /\ l + 1 \in n .. n + 2 * m - 1
             /\ g[l] = Leaf(e.nid, e.depth + 1) /\ g[l + 1] = Leaf(e.nid, e.depth + 1)
             /\ g[e.nid].left = l /\ g[e.nid].right = l + 1 /\ g[e.nid].rule = e.rule
             /\ g[e.nid].parent = tree[e.nid].parent
    BY <1>3, <1>5, <1>13, <1>16 DEF Left
  <2>2. \A x \in n .. n + 2 * m - 1 :
          \E k \in 1 .. m : x = n + 2 * (k - 1) \/ x = n + 2 * (k - 1) + 1
    BY <1>3, <1>7 DEF Left
  <2>3. \A x \in 0 .. n - 1 : (\A k \in 1 .. m : batch[k].nid # x) => g[x] = tree[x]
    BY <1>15
  <2> QED BY <1>12, <2>1, <2>2, <2>3 DEF Grew, m
<1> QED BY <1>4, <1>17

(* What the tree keeps as it grows. *)
LEMMA GrownTree ==
  ASSUME NEW n \in Nat \ {0}, tree \in [0 .. n - 1 -> Nodes], Linked, batch \in Seq(Entries),
         Once(batch), \A e \in Elems(batch) : e.nid \in 0 .. n - 1 /\ tree[e.nid].left = None,
         tree' = Grown
  PROVE  /\ Linked' /\ \E k \in Nat \ {0} : tree' \in [0 .. k - 1 -> Nodes]
         /\ Leaves' = (Leaves \ Nids(batch))
                      \cup UNION {{tree'[e.nid].left, tree'[e.nid].right} : e \in Elems(batch)}
         /\ \A e \in Elems(batch) : /\ e.nid \in DOMAIN tree' /\ tree'[e.nid].left # None
                                    /\ tree'[e.nid].rule = e.rule
         /\ \A f \in [DOMAIN tree -> SUBSET Rows] :
              Routes(f) => \E h \in [DOMAIN tree' -> SUBSET Rows] :
                             Routes(h)' /\ \A x \in DOMAIN tree : h[x] = f[x]
<1>m. PICK m : m = Len(batch)
  OBVIOUS
<1> DEFINE top == n + 2 * m - 1
           L(k) == n + 2 * (k - 1)
           N == {batch[k].nid : k \in 1 .. m}
<1>g. PICK g : g = tree'
  OBVIOUS
<1>1. /\ m \in Nat /\ DOMAIN batch = 1 .. m /\ DOMAIN tree = 0 .. n - 1
      /\ Elems(batch) = {batch[k] : k \in 1 .. m} /\ Nids(batch) = N
  BY <1>m DEF Elems, Nids
<1>2. \A k \in 1 .. m : batch[k].nid \in 0 .. n - 1 /\ tree[batch[k].nid].left = None
  BY <1>1
<1>3. Grew(g, n)
  BY <1>g, GrownIs
<1>4. /\ g \in [0 .. top -> Nodes]
      /\ \A k \in 1 .. m :
           /\ L(k) \in n .. top /\ L(k) + 1 \in n .. top
           /\ g[L(k)] = Leaf(batch[k].nid, batch[k].depth + 1)
           /\ g[L(k) + 1] = Leaf(batch[k].nid, batch[k].depth + 1)
           /\ g[batch[k].nid].left = L(k) /\ g[batch[k].nid].right = L(k) + 1
           /\ g[batch[k].nid].rule = batch[k].rule
           /\ g[batch[k].nid].parent = tree[batch[k].nid].parent
      /\ \A x \in 0 .. n - 1 : (\A k \in 1 .. m : batch[k].nid # x) => g[x] = tree[x]
      /\ \A x \in n .. top : \E k \in 1 .. m : x = L(k) \/ x = L(k) + 1
  BY <1>3, <1>m DEF Grew
<1>5. /\ top \in Nat /\ top >= n - 1 /\ DOMAIN g = 0 .. top
      /\ \A x \in 0 .. n - 1 : x \in 0 .. top
      /\ \A x \in n .. top : x \in 0 .. top /\ x # 0 /\ x # None /\ x \notin 0 .. n - 1
      /\ \A x \in 0 .. top : x \in 0 .. n - 1 \/ x \in n .. top
  <2>1. top \in Nat /\ top >= n - 1
    BY <1>1
  <2>2. DOMAIN g = 0 .. top
    BY <1>4
  <2> HIDE DEF top
  <2> QED BY <2>1, <2>2 DEF None
<1>L. \A k \in 1 .. m : L(k) # L(k) + 1
  BY <1>4
<1> HIDE DEF top, L
<1>6. \A x \in 0 .. n - 1 : x \notin N => g[x] = tree[x]
  BY <1>4
<1>7. ASSUME NEW x \in n .. top
      PROVE  \E k \in 1 .. m : /\ x = L(k) \/ x = L(k) + 1
                               /\ g[x].parent = batch[k].nid /\ g[x].left = None
                               /\ g[x].right = None /\ g[x].rule = {}
  <2>1. PICK k \in 1 .. m : x = L(k) \/ x = L(k) + 1
    BY <1>4
  <2>2. g[x] = Leaf(batch[k].nid, batch[k].depth + 1)
    BY <1>4, <2>1
  <2> QED BY <2>1, <2>2 DEF Leaf
<1>8. \A x \in 0 .. n - 1 : g[x].parent = tree[x].parent
  BY <1>4, <1>6
<1>9. \A x \in N : x \in 0 .. n - 1 /\ tree[x].left = None /\ tree[x].right = None
  BY <1>1, <1>2 DEF Linked
<1>10. \A x \in 0 .. n - 1 : tree[x].left # None => g[x] = tree[x]
  BY <1>6, <1>9
<1>11. ASSUME NEW x \in 0 .. n - 1, x # 0
       PROVE  LET p == tree[x].parent
              IN /\ p \in 0 .. n - 1 /\ p < x /\ g[p] = tree[p]
                 /\ tree[p].left = x \/ tree[p].right = x
  <2> DEFINE p == tree[x].parent
  <2>1. /\ p \in 0 .. n - 1 /\ p < x
        /\ tree[p].left = x \/ tree[p].right = x
    BY <1>1, <1>11 DEF Linked
  <2>2. x # None
    BY DEF None
  <2>3. tree[p].left # None
    BY <1>1, <2>1, <2>2 DEF Linked
  <2> QED BY <1>10, <2>1, <2>3
<1>12. Linked'
  <2>1. 0 \in 0 .. top
    BY <1>5
  <2>2. ASSUME NEW x \in 0 .. top PROVE g[x].left = None <=> g[x].right = None
    <3>1. CASE x \in n .. top
      BY <1>7, <3>1
    <3>2. CASE x \in N
      <4>1. PICK k \in 1 .. m : x = batch[k].nid
        BY <3>2
      <4>2. g[x].left = L(k) /\ g[x].right = L(k) + 1 /\ L(k) \in n .. top /\ L(k) + 1 \in n .. top
        BY <1>4, <4>1
      <4> QED BY <1>5, <4>2
    <3>3. CASE x \in 0 .. n - 1 /\ x \notin N
      BY <1>1, <1>6, <3>3 DEF Linked
    <3> QED BY <1>5, <1>9, <3>1, <3>2, <3>3
  <2>3. ASSUME NEW x \in 0 .. top, g[x].left # None
        PROVE  /\ g[x].left \in 0 .. top /\ g[x].right \in 0 .. top
               /\ g[x].left # 0 /\ g[x].right # 0 /\ g[x].left # g[x].right
               /\ g[g[x].left].parent = x /\ g[g[x].right].parent = x
    <3>1. CASE x \in n .. top
      BY <1>7, <2>3, <3>1
    <3>2. CASE x \in N
      <4>1. PICK k \in 1 .. m : x = batch[k].nid
        BY <3>2
      <4>2. g[x].left = L(k) /\ g[x].right = L(k) + 1 /\ L(k) \in n .. top /\ L(k) + 1 \in n .. top
        BY <1>4, <4>1
      <4>3. g[L(k)].parent = x /\ g[L(k) + 1].parent = x
        <5>1. /\ g[L(k)] = Leaf(x, batch[k].depth + 1)
              /\ g[L(k) + 1] = Leaf(x, batch[k].depth + 1)
          BY <1>4, <4>1
        <5> QED BY <5>1 DEF Leaf
      <4> QED BY <1>5, <1>L, <4>2, <4>3
    <3>3. CASE x \in 0 .. n - 1 /\ x \notin N
      <4>1. g[x] = tree[x]
        BY <1>6, <3>3
      <4>2. /\ tree[x].left \in 0 .. n - 1 /\ tree[x].right \in 0 .. n - 1
            /\ tree[x].left # 0 /\ tree[x].right # 0 /\ tree[x].left # tree[x].right
            /\ tree[tree[x].left].parent = x /\ tree[tree[x].right].parent = x
        BY <1>1, <2>3, <3>3, <4>1 DEF Linked
      <4> QED BY <1>5, <1>8, <4>1, <4>2
    <3> QED BY <1>5, <1>9, <3>1, <3>2, <3>3
  <2>4. ASSUME NEW x \in 0 .. top, x # 0
        PROVE  LET p == g[x].parent
               IN p \in 0 .. top /\ p < x /\ (g[p].left = x \/ g[p].right = x)
    <3>1. CASE x \in n .. top
      <4>1. PICK k \in 1 .. m : (x = L(k) \/ x = L(k) + 1) /\ g[x].parent = batch[k].nid
        BY <1>7, <3>1
      <4>2. batch[k].nid \in 0 .. n - 1 /\ batch[k].nid < x
        BY <1>2, <1>5, <3>1
      <4>3. g[batch[k].nid].left = L(k) /\ g[batch[k].nid].right = L(k) + 1
        BY <1>4
      <4> QED BY <1>5, <4>1, <4>2, <4>3
    <3>2. CASE x \in 0 .. n - 1
      BY <1>5, <1>8, <1>11, <2>4, <3>2
    <3> QED BY <1>5, <3>1, <3>2
  <2> QED BY <1>g, <1>5, <2>1, <2>2, <2>3, <2>4 DEF Linked
<1>13. Leaves' = (Leaves \ N) \cup (n .. top)
  <2>1. Leaves' = {x \in 0 .. top : g[x].left = None}
    BY <1>g, <1>5 DEF Leaves
  <2>2. Leaves = {x \in 0 .. n - 1 : tree[x].left = None}
    BY <1>1 DEF Leaves
  <2>3. ASSUME NEW x \in 0 .. top
        PROVE  g[x].left = None <=> x \in n .. top \/ (x \in Leaves /\ x \notin N)
    <3>1. CASE x \in n .. top
      BY <1>7, <3>1
    <3>2. CASE x \in N
      <4>1. PICK k \in 1 .. m : x = batch[k].nid
        BY <3>2
      <4>2. g[x].left # None
        <5>1. g[x].left = L(k)
          BY <1>4, <4>1
        <5>2. L(k) # None
          BY <1>5
        <5> QED BY <5>1, <5>2
      <4>3. x \notin n .. top
        BY <1>5, <1>9, <3>2
      <4> QED BY <3>2, <4>2, <4>3
    <3>3. CASE x \in 0 .. n - 1 /\ x \notin N
      BY <1>5, <1>6, <2>2, <3>3
    <3> QED BY <1>5, <1>9, <3>1, <3>2, <3>3
  <2> QED BY <1>5, <2>1, <2>2, <2>3
<1>14. n .. top = UNION {{g[e.nid].left, g[e.nid].right} : e \in Elems(batch)}
  <2>1. UNION {{g[e.nid].left, g[e.nid].right} : e \in Elems(batch)}
          = UNION {{g[batch[k].nid].left, g[batch[k].nid].right} : k \in 1 .. m}
    BY <1>1
  <2>2. \A k \in 1 .. m : {g[batch[k].nid].left, g[batch[k].nid].right} = {L(k), L(k) + 1}
    BY <1>4
  <2>3. UNION {{g[batch[k].nid].left, g[batch[k].nid].right} : k \in 1 .. m}
          = UNION {{L(k), L(k) + 1} : k \in 1 .. m}
    BY <2>2
  <2>4. UNION {{L(k), L(k) + 1} : k \in 1 .. m} = n .. top
    <3>1. \A k \in 1 .. m : L(k) \in n .. top /\ L(k) + 1 \in n .. top
      BY <1>4
    <3>2. \A x \in n .. top : \E k \in 1 .. m : x \in {L(k), L(k) + 1}
      BY <1>4
    <3>3. ASSUME NEW x \in UNION {{L(k), L(k) + 1} : k \in 1 .. m} PROVE x \in n .. top
      BY <3>1
    <3>4. ASSUME NEW x \in n .. top PROVE x \in UNION {{L(k), L(k) + 1} : k \in 1 .. m}
      BY <3>2
    <3> QED BY <3>3, <3>4
  <2> QED BY <2>1, <2>3, <2>4
<1>15. \A e \in Elems(batch) : e.nid \in 0 .. top /\ g[e.nid].left # None /\ g[e.nid].rule = e.rule
  <2> SUFFICES ASSUME NEW k \in 1 .. m
               PROVE  /\ batch[k].nid \in 0 .. top /\ g[batch[k].nid].left # None
                      /\ g[batch[k].nid].rule = batch[k].rule
    BY <1>1
  <2> QED BY <1>2, <1>4, <1>5
<1>16. ASSUME NEW f \in [DOMAIN tree -> SUBSET Rows], Routes(f)
       PROVE  \E h \in [DOMAIN tree' -> SUBSET Rows] :
                Routes(h)' /\ \A x \in DOMAIN tree : h[x] = f[x]
  <2> DEFINE To(x) == LET p == g[x].parent
                      IN IF g[p].left = x THEN f[p] \cap g[p].rule ELSE f[p] \ g[p].rule
             h == [x \in 0 .. top |-> IF x \in 0 .. n - 1 THEN f[x] ELSE To(x)]
  <2>1. \A x \in 0 .. n - 1 : f[x] \in SUBSET Rows /\ h[x] = f[x]
    BY <1>1, <1>5
  <2>2. ASSUME NEW x \in n .. top PROVE g[x].parent \in 0 .. n - 1 /\ h[x] = To(x)
    <3>1. g[x].parent \in 0 .. n - 1
      BY <1>2, <1>7
    <3>2. x \in 0 .. top /\ x \notin 0 .. n - 1
      BY <1>5
    <3> QED BY <3>1, <3>2
  <2>3. \A x \in n .. top : To(x) \in SUBSET Rows
    BY <2>1, <2>2
  <2>4. h \in [0 .. top -> SUBSET Rows]
    BY <1>5, <2>1, <2>3
  <2> HIDE DEF h
  <2>5. h[0] = Rows
    <3>1. f[0] = Rows /\ 0 \in 0 .. n - 1
      BY <1>16 DEF Routes
    <3> QED BY <2>1, <3>1
  <2>6. ASSUME NEW x \in 0 .. top \ {0}
        PROVE  LET p == g[x].parent
               IN h[x] = IF g[p].left = x THEN h[p] \cap g[p].rule ELSE h[p] \ g[p].rule
    <3>1. CASE x \in n .. top
      BY <2>1, <2>2, <3>1
    <3>2. CASE x \in 0 .. n - 1
      <4> DEFINE p == tree[x].parent
      <4>1. p \in 0 .. n - 1 /\ g[p] = tree[p] /\ g[x].parent = p
        BY <1>8, <1>11, <3>2
      <4>2. f[x] = IF tree[p].left = x THEN f[p] \cap tree[p].rule ELSE f[p] \ tree[p].rule
        BY <1>1, <1>16, <3>2 DEF Routes
      <4> QED BY <2>1, <3>2, <4>1, <4>2
    <3> QED BY <1>5, <3>1, <3>2
  <2>7. Routes(h)'
    BY <1>g, <1>5, <2>5, <2>6 DEF Routes
  <2> QED BY <1>g, <1>1, <1>5, <2>1, <2>4, <2>7
<1>17. \E k \in Nat \ {0} : tree' \in [0 .. k - 1 -> Nodes]
  <2>1. top + 1 \in Nat \ {0} /\ (top + 1) - 1 = top
    BY <1>5
  <2>2. tree' \in [0 .. (top + 1) - 1 -> Nodes]
    BY <1>g, <1>4, <2>1
  <2> QED BY <2>1, <2>2
<1>18. Leaves' = (Leaves \ Nids(batch))
                  \cup UNION {{tree'[e.nid].left, tree'[e.nid].right} : e \in Elems(batch)}
  BY <1>g, <1>1, <1>13, <1>14
<1>19. \A e \in Elems(batch) : /\ e.nid \in DOMAIN tree' /\ tree'[e.nid].left # None
                                /\ tree'[e.nid].rule = e.rule
  BY <1>g, <1>5, <1>15
<1> QED BY <1>12, <1>16, <1>17, <1>18, <1>19

(* A candidate of the batch and what else is live are apart.               *)
LEMMA LiveApart ==
  ASSUME IInv, pc \in InBatch
  PROVE  /\ children = <<>> /\ Waiting = Elems(queue) \cup Elems(leaf_segments)
         /\ \A e \in Waiting \cup Elems(batch) :
              /\ e.begin \in Positions /\ e.len \in Nat \ {0} /\ e.nid \in Nat
              /\ e.begin \in Span(e.begin, e.len)
              /\ Span(e.begin, e.len) \subseteq Positions
         /\ \A d \in Waiting, e \in Elems(batch) :
              d.nid # e.nid /\ Span(d.begin, d.len) \cap Span(e.begin, e.len) = {}
         /\ \A d, e \in Elems(batch) :
              d # e => d.nid # e.nid /\ Span(d.begin, d.len) \cap Span(e.begin, e.len) = {}
<1>1. TypeInv /\ PhaseInv /\ OnceInv /\ TileInv
  BY DEF IInv
<1>2. children = <<>> /\ Elems(children) = {} /\ pc # "tree"
  BY <1>1, NoElems DEF PhaseInv, InBatch
<1>3. Waiting = Elems(queue) \cup Elems(leaf_segments)
  BY <1>2 DEF Waiting
<1>4. /\ Elems(queue) \subseteq Entries /\ Elems(batch) \subseteq Entries
      /\ Elems(leaf_segments) \subseteq Segs
  BY <1>1, ElemsIn DEF TypeInv
<1>5. Tiles(Live) /\ NumRows \in Nat
  BY <1>1, <1>2, GpuGrowerAssumption DEF TileInv
<1> DEFINE HW(e) == Holding(e, RowSet(e))
           HB(e) == Holding(e, BatchRows(e))
<1>6. /\ \A e \in Waiting : HW(e) \in Live
      /\ \A e \in Elems(batch) : HB(e) \in Live
  BY DEF Live
<1>7. \A e : /\ HW(e).nid = e.nid /\ HW(e).begin = e.begin /\ HW(e).len = e.len
             /\ HB(e).nid = e.nid /\ HB(e).begin = e.begin /\ HB(e).len = e.len
  BY DEF Holding
<1> HIDE DEF HW, HB
<1>8. \A e \in Waiting \cup Elems(batch) :
        e.begin \in Positions /\ e.len \in Nat \ {0} /\ e.nid \in Nat
  BY <1>3, <1>4 DEF Entries, Segs
<1>9. \A e \in Waiting \cup Elems(batch) : e.begin \in Span(e.begin, e.len)
  <2> SUFFICES ASSUME NEW e \in Waiting \cup Elems(batch) PROVE e.begin \in Span(e.begin, e.len)
    OBVIOUS
  <2>1. e.begin \in Int /\ e.len \in Nat \ {0}
    BY <1>5, <1>8 DEF Positions
  <2> QED BY <2>1 DEF Span
<1>10. \A e \in Waiting \cup Elems(batch) : Span(e.begin, e.len) \subseteq Positions
  <2>1. ASSUME NEW e \in Waiting PROVE Span(e.begin, e.len) \subseteq Positions
    BY <1>5, <1>6, <1>7 DEF Tiles
  <2>2. ASSUME NEW e \in Elems(batch) PROVE Span(e.begin, e.len) \subseteq Positions
    BY <1>5, <1>6, <1>7 DEF Tiles
  <2> QED BY <2>1, <2>2
<1>11. ASSUME NEW d \in Waiting, NEW e \in Elems(batch)
       PROVE  d.nid # e.nid /\ Span(d.begin, d.len) \cap Span(e.begin, e.len) = {}
  <2>1. /\ Nids(batch) = {x.nid : x \in Elems(batch)} /\ Nids(queue) = {x.nid : x \in Elems(queue)}
        /\ Nids(leaf_segments) = {x.nid : x \in Elems(leaf_segments)}
    BY NidsAre
  <2>2. Nids(batch) \cap (Nids(queue) \cup Nids(leaf_segments)) = {}
    BY <1>1 DEF OnceInv
  <2>3. d.nid # e.nid
    BY <1>3, <2>1, <2>2
  <2>4. HW(d) # HB(e)
    BY <1>7, <2>3
  <2> QED BY <1>5, <1>6, <1>7, <2>3, <2>4 DEF Tiles
<1>12. ASSUME NEW d \in Elems(batch), NEW e \in Elems(batch), d # e
       PROVE  d.nid # e.nid /\ Span(d.begin, d.len) \cap Span(e.begin, e.len) = {}
  <2>1. d.nid # e.nid
    BY <1>1, <1>12 DEF OnceInv, Once, Elems
  <2>2. HB(d) # HB(e)
    BY <1>7, <2>1
  <2> QED BY <1>5, <1>6, <1>7, <2>1, <2>2 DEF Tiles
<1> QED BY <1>2, <1>3, <1>8, <1>9, <1>10, <1>11, <1>12

(* What a partition does before it deals the segments: the sides change.   *)
LEMMA SidesChange ==
  ASSUME IInv, ApplySplits
  PROVE  /\ bufs' = bufs /\ cur' \in 0 .. 1 /\ side' \in [Positions -> 0 .. 1]
         /\ \A i \in Positions : i \notin BatchPositions => side'[i] = side[i]
         /\ \A e \in Elems(batch) : /\ side[e.begin] = 1 - cur'
                                    /\ \A i \in Span(e.begin, e.len) : side'[i] = cur'
<1>1. TypeInv /\ PhaseInv /\ SideInv /\ LevelInv /\ pc = "apply"
  BY DEF IInv, ApplySplits
<1>2. /\ bufs \in [0 .. 1 -> [Positions -> Rows]] /\ cur \in 0 .. 1
      /\ side \in [Positions -> 0 .. 1] /\ batch \in Seq(Entries)
  BY <1>1 DEF TypeInv
<1>3. /\ bufs' = [bufs EXCEPT ![Source] = CatchUp] /\ cur' = 1 - Source /\ side' = Rewritten
  BY DEF ApplySplits
<1>4. batch[1] \in Elems(batch)
  <2>1. batch # <<>>
    BY <1>1 DEF PhaseInv
  <2> QED BY <1>2, <2>1 DEF Elems
<1>5. \A e \in Elems(batch) :
        /\ e.begin \in Positions /\ e.begin \in Span(e.begin, e.len)
        /\ Span(e.begin, e.len) \subseteq Positions
  BY <1>1, LiveApart DEF InBatch
<1>6. \A e \in Elems(batch) : side[e.begin] = side[batch[1].begin]
  BY <1>1, <1>4 DEF LevelInv, Together
<1>7. Source = side[batch[1].begin] /\ Source \in 0 .. 1
  <2>1. Sides = {side[batch[1].begin]}
    BY <1>4, <1>6 DEF Sides
  <2>2. Cardinality(Sides) = 1
    BY <2>1, FS_Singleton
  <2> QED BY <1>2, <1>4, <1>5, <2>2 DEF Source
<1>8. \A i \in BatchPositions : i \in Positions /\ side[i] = Source
  <2>1. \A e \in Elems(batch) : \A i \in Span(e.begin, e.len) : side[i] = side[e.begin]
    BY <1>1 DEF SideInv, OneSide
  <2> QED BY <1>5, <1>6, <1>7, <2>1 DEF BatchPositions
<1> DEFINE x == Source
<1>9. CatchUp = bufs[Source]
  <2>1. \A i \in Positions : CatchUp[i] = bufs[Source][i]
    BY <1>8 DEF CatchUp
  <2>2. CatchUp = [i \in Positions |-> bufs[Source][i]]
    BY <1>8 DEF CatchUp
  <2>3. bufs[Source] \in [Positions -> Rows]
    BY <1>2, <1>7
  <2> QED BY <2>2, <2>3
<1>10. bufs' = bufs
  BY <1>2, <1>3, <1>7, <1>9
<1>11. side' = [i \in Positions |-> IF i \in BatchPositions THEN 1 - Source ELSE side[i]]
  BY <1>3 DEF Rewritten
<1>12. side' \in [Positions -> 0 .. 1] /\ cur' \in 0 .. 1 /\ 1 - cur' = Source
  <2>1. 1 - Source \in 0 .. 1 /\ 1 - (1 - Source) = Source
    BY <1>7
  <2> QED BY <1>2, <1>3, <1>11, <2>1
<1>13. ASSUME NEW e \in Elems(batch)
       PROVE  side[e.begin] = 1 - cur' /\ \A i \in Span(e.begin, e.len) : side'[i] = cur'
  <2>1. \A i \in Span(e.begin, e.len) : i \in BatchPositions /\ i \in Positions
    BY <1>5 DEF BatchPositions
  <2> QED BY <1>3, <1>6, <1>7, <1>11, <1>12, <2>1
<1> QED BY <1>10, <1>11, <1>12, <1>13

(* ApplySplits keeps the invariant and what is live.                       *)
LEMMA ApplyKeeps == ASSUME IInv, ApplySplits PROVE IInv' /\ Live' = Live
<1>1. /\ TypeInv /\ PhaseInv /\ OnceInv /\ TileInv /\ SideInv /\ LevelInv /\ TreeInv
      /\ CandidateInv /\ SlotInv /\ RoutingInv
  BY DEF IInv
<1>2. /\ pc = "apply" /\ pc' = "partition" /\ tree' = Grown
      /\ expandable' = Chosen(Numbered(batch),
                              {k \in DOMAIN batch : ChildCanExpand(batch[k], num_leaves)})
      /\ todo' = DOMAIN batch /\ left_counts' = [k \in DOMAIN batch |-> 0]
      /\ param' = param /\ atomic_free' = atomic_free /\ trees' = trees /\ frontiers' = frontiers
      /\ arena' = arena /\ root' = root /\ queue' = queue /\ batch' = batch
      /\ pending' = pending /\ children' = children /\ num_leaves' = num_leaves
      /\ leaf_segments' = leaf_segments
  BY DEF ApplySplits, histograms
<1>3. /\ bufs' = bufs /\ cur' \in 0 .. 1 /\ side' \in [Positions -> 0 .. 1]
      /\ \A i \in Positions : i \notin BatchPositions => side'[i] = side[i]
      /\ \A e \in Elems(batch) : /\ side[e.begin] = 1 - cur'
                                 /\ \A i \in Span(e.begin, e.len) : side'[i] = cur'
  BY SidesChange
<1>4. /\ children = <<>> /\ Waiting = Elems(queue) \cup Elems(leaf_segments)
      /\ \A e \in Waiting \cup Elems(batch) :
           /\ e.begin \in Positions /\ e.nid \in Nat
           /\ e.begin \in Span(e.begin, e.len) /\ Span(e.begin, e.len) \subseteq Positions
      /\ \A d \in Waiting, e \in Elems(batch) :
           d.nid # e.nid /\ Span(d.begin, d.len) \cap Span(e.begin, e.len) = {}
  BY <1>2, LiveApart DEF InBatch
<1>5. Waiting' = Waiting
  BY <1>2 DEF Waiting
<1>6. \A d \in Waiting : \A i \in Span(d.begin, d.len) : side'[i] = side[i]
  <2> SUFFICES ASSUME NEW d \in Waiting, NEW i \in Span(d.begin, d.len) PROVE side'[i] = side[i]
    OBVIOUS
  <2>1. \A e \in Elems(batch) : i \notin Span(e.begin, e.len)
    BY <1>4
  <2>2. i \notin BatchPositions
    BY <2>1 DEF BatchPositions
  <2>3. i \in Positions
    BY <1>4
  <2> QED BY <1>3, <2>2, <2>3
<1>7. \A d \in Waiting : side'[d.begin] = side[d.begin]
  BY <1>4, <1>6
<1>8. \A d \in Waiting : RowSet(d)' = RowSet(d)
  BY <1>3, <1>7 DEF RowSet, RowsOf
<1>9. \A e \in Elems(batch) : BatchRows(e)' = RowSet(e) /\ BatchRows(e) = RowSet(e)
  <2> SUFFICES ASSUME NEW e \in Elems(batch)
               PROVE  BatchRows(e)' = RowSet(e) /\ BatchRows(e) = RowSet(e)
    OBVIOUS
  <2>1. BatchRows(e)' = RowsOf(1 - cur, e.begin, e.len)'
    BY <1>2 DEF BatchRows
  <2>2. RowsOf(1 - cur, e.begin, e.len)' = RowSet(e)
    BY <1>3 DEF RowSet, RowsOf
  <2>3. BatchRows(e) = RowSet(e)
    BY <1>2 DEF BatchRows
  <2> QED BY <2>1, <2>2, <2>3
<1>10. Live' = Live
  <2>1. Live = {Holding(e, RowSet(e)) : e \in Waiting}
               \cup {Holding(e, BatchRows(e)) : e \in Elems(batch)}
    BY <1>2 DEF Live, InBatch
  <2>2. Live' = {Holding(e, RowSet(e)') : e \in Waiting'}
                \cup {Holding(e, BatchRows(e)') : e \in Elems(batch')}
    BY <1>2 DEF Live, InBatch
  <2>3. {Holding(e, RowSet(e)') : e \in Waiting'} = {Holding(e, RowSet(e)) : e \in Waiting}
    BY <1>5, <1>8
  <2>4. {Holding(e, BatchRows(e)') : e \in Elems(batch')}
          = {Holding(e, BatchRows(e)) : e \in Elems(batch)}
    BY <1>2, <1>9
  <2> QED BY <2>1, <2>2, <2>3, <2>4
<1>11. Leaves = {s.nid : s \in Live}
  BY <1>1, <1>2 DEF TreeInv, Dealing
<1>12. PICK n \in Nat \ {0} : tree \in [0 .. n - 1 -> Nodes]
  BY <1>1 DEF TypeInv
<1>13. Linked /\ batch \in Seq(Entries) /\ Once(batch)
  BY <1>1 DEF TreeInv, TypeInv, OnceInv
<1>14. \A s \in Live : s.nid \in DOMAIN tree /\ tree[s.nid].left = None
  BY <1>11 DEF Leaves
<1>15. \A e \in Elems(batch) : e.nid \in 0 .. n - 1 /\ tree[e.nid].left = None
  <2> SUFFICES ASSUME NEW e \in Elems(batch) PROVE e.nid \in 0 .. n - 1 /\ tree[e.nid].left = None
    OBVIOUS
  <2>1. Holding(e, BatchRows(e)) \in Live
    BY <1>2 DEF Live, InBatch
  <2>2. Holding(e, BatchRows(e)).nid = e.nid
    BY DEF Holding
  <2> QED BY <1>12, <1>14, <2>1, <2>2
<1>16. /\ Linked' /\ \E k \in Nat \ {0} : tree' \in [0 .. k - 1 -> Nodes]
       /\ Leaves' = (Leaves \ Nids(batch))
                    \cup UNION {{tree'[e.nid].left, tree'[e.nid].right} : e \in Elems(batch)}
       /\ \A e \in Elems(batch) : /\ e.nid \in DOMAIN tree' /\ tree'[e.nid].left # None
                                  /\ tree'[e.nid].rule = e.rule
       /\ \A f \in [DOMAIN tree -> SUBSET Rows] :
            Routes(f) => \E h \in [DOMAIN tree' -> SUBSET Rows] :
                           Routes(h)' /\ \A x \in DOMAIN tree : h[x] = f[x]
  BY <1>2, <1>12, <1>13, <1>15, GrownTree
<1>17. /\ expandable' \in Seq(DOMAIN batch)
       /\ \A j, k \in DOMAIN expandable' : expandable'[j] = expandable'[k] => j = k
  <2>1. expandable' \in Seq(DOMAIN batch) /\ Rising(expandable')
    BY <1>2, <1>13, ChosenPlaces
  <2>2. Len(batch) \in Nat /\ DOMAIN batch = 1 .. Len(batch)
    BY <1>13
  <2>3. ASSUME NEW j \in DOMAIN expandable', NEW k \in DOMAIN expandable',
               expandable'[j] = expandable'[k]
        PROVE  j = k
    <3>1. expandable'[j] \in Int /\ expandable'[k] \in Int /\ j \in Int /\ k \in Int
      BY <2>1, <2>2
    <3>2. ~(j < k) /\ ~(k < j)
      BY <2>1, <2>3, <3>1 DEF Rising
    <3> QED BY <3>1, <3>2
  <2> QED BY <2>1, <2>3
<1>18. TypeInv'
  <2>1. /\ param' \in Params /\ atomic_free' \in BOOLEAN /\ trees' \in 1 .. MaxTrees
        /\ frontiers' \in Seq(Slots) /\ arena' \in Arenas
        /\ root' \in Nat /\ children' \in Seq(Entries) /\ queue' \in Seq(Entries)
        /\ batch' \in Seq(Entries) /\ leaf_segments' \in Seq(Segs) /\ num_leaves' \in Nat
        /\ bufs' \in [0 .. 1 -> [Positions -> Rows]]
    BY <1>1, <1>2, <1>3 DEF TypeInv
  <2>2. pc' \in Phases /\ expandable' \in Seq(DOMAIN batch')
    BY <1>2, <1>17 DEF Phases
  <2> QED BY <1>3, <1>16, <2>1, <2>2 DEF TypeInv
<1>19. PhaseInv'
  <2>1. left_counts' \in [DOMAIN batch -> Nat]
    BY <1>2
  <2> QED BY <1>2, <1>4, <1>17, <2>1 DEF PhaseInv
<1>20. OnceInv'
  BY <1>1, <1>2 DEF OnceInv, InBatch
<1>21. TileInv'
  <2>1. Tiles(Live') /\ Tiles(Live)' = Tiles(Live')
    BY <1>1, <1>2, <1>10 DEF TileInv, Tiles
  <2> QED BY <2>1 DEF TileInv
<1>22. SideInv'
  <2>1. \A e \in Waiting : OneSide(e, side[e.begin])'
    <3> SUFFICES ASSUME NEW e \in Waiting PROVE OneSide(e, side[e.begin])'
      OBVIOUS
    <3>1. \A i \in Span(e.begin, e.len) : side[i] = side[e.begin]
      BY <1>1 DEF SideInv, OneSide
    <3>2. \A i \in Span(e.begin, e.len) : side'[i] = side'[e.begin]
      BY <1>6, <1>7, <3>1
    <3> QED BY <3>2 DEF OneSide
  <2>2. \A e \in Elems(batch) : OneSide(e, cur)'
    BY <1>3 DEF OneSide
  <2> QED BY <1>2, <1>5, <2>1, <2>2 DEF SideInv
<1>23. LevelInv'
  <2>1. \A d, e \in Elems(queue) : Together(d, e)' <=> Together(d, e)
    BY <1>4, <1>7 DEF Together
  <2>2. Elems(children) = {}
    BY <1>4, NoElems
  <2>3. /\ \A d, e \in Elems(batch) : d.depth = e.depth /\ d.buf = e.buf
        /\ param.grow_policy = "DepthWise" =>
             /\ \A d, e \in Elems(queue) : Together(d, e)
             /\ queue = <<>>
    BY <1>1, <1>2 DEF LevelInv, Parents, InBatch
  <2>4. param.grow_policy = "DepthWise" =>
          \A d, e \in Elems(queue') \cup Elems(children') : Together(d, e)'
    BY <1>2, <2>1, <2>2, <2>3
  <2> QED BY <1>2, <2>3, <2>4 DEF LevelInv
<1>24. TreeInv'
  <2>1. {s.nid : s \in Live} = Nids(queue) \cup Nids(leaf_segments) \cup Nids(batch)
    <3>1. Live = {Holding(e, RowSet(e)) : e \in Waiting}
                 \cup {Holding(e, BatchRows(e)) : e \in Elems(batch)}
      BY <1>2 DEF Live, InBatch
    <3>2. \A e : Holding(e, RowSet(e)).nid = e.nid /\ Holding(e, BatchRows(e)).nid = e.nid
      BY DEF Holding
    <3>3. {s.nid : s \in Live} = {e.nid : e \in Waiting} \cup {e.nid : e \in Elems(batch)}
      BY <3>1, <3>2
    <3>4. /\ Nids(batch) = {x.nid : x \in Elems(batch)}
          /\ Nids(queue) = {x.nid : x \in Elems(queue)}
          /\ Nids(leaf_segments) = {x.nid : x \in Elems(leaf_segments)}
      BY NidsAre
    <3>5. {e.nid : e \in Waiting} = Nids(queue) \cup Nids(leaf_segments)
      BY <1>4, <3>4
    <3> QED BY <3>3, <3>4, <3>5
  <2>2. Nids(batch) \cap (Nids(queue) \cup Nids(leaf_segments)) = {}
    BY <1>1, <1>2 DEF OnceInv, InBatch
  <2>3. Leaves \ Nids(batch) = Nids(queue) \cup Nids(leaf_segments)
    BY <1>11, <2>1, <2>2
  <2>4. UNION {Kids(e)' : e \in Elems(batch)}
          = UNION {{tree'[e.nid].left, tree'[e.nid].right} : e \in Elems(batch)}
    BY DEF Kids
  <2>5. Leaves' = Nids(queue) \cup Nids(leaf_segments) \cup UNION {Kids(e)' : e \in Elems(batch)}
    BY <1>16, <2>3, <2>4
  <2> QED BY <1>2, <1>16, <2>5 DEF TreeInv, Dealing
<1>25. CandidateInv'
  <2>1. \A e \in Elems(queue) : /\ Counted(e, RowSet(e))' <=> Counted(e, RowSet(e))
                                /\ Separates(e, RowSet(e))' <=> Separates(e, RowSet(e))
    BY <1>2, <1>4, <1>8 DEF Counted, Separates
  <2>2. \A e \in Elems(batch) :
           /\ Counted(e, BatchRows(e))' <=> Counted(e, BatchRows(e))
           /\ Separates(e, BatchRows(e))' <=> Separates(e, BatchRows(e))
    BY <1>2, <1>9 DEF Counted, Separates
  <2>3. /\ \A e \in Elems(queue) : Counted(e, RowSet(e)) /\ Separates(e, RowSet(e))
        /\ \A e \in Elems(batch) : Counted(e, BatchRows(e)) /\ Separates(e, BatchRows(e))
    BY <1>1, <1>2 DEF CandidateInv, InBatch
  <2> QED BY <1>2, <2>1, <2>2, <2>3 DEF CandidateInv
<1>26. SlotInv'
  <2>1. ArenaOk(arena, frontiers)'
    BY <1>1, <1>2 DEF SlotInv, ArenaOk
  <2>2. Handles' = Handles
    BY <1>2 DEF Handles, Parents, InBatch
  <2> QED BY <1>1, <1>2, <2>1, <2>2 DEF SlotInv
<1>27. DealtInv' /\ PairInv'
  BY <1>2 DEF DealtInv, PairInv
<1>28. RoutingInv'
  <2>1. PICK f \in [DOMAIN tree -> SUBSET Rows] : Routes(f) /\ \A s \in Live : s.rows = f[s.nid]
    BY <1>1 DEF RoutingInv
  <2>2. PICK h \in [DOMAIN tree' -> SUBSET Rows] : Routes(h)' /\ \A x \in DOMAIN tree : h[x] = f[x]
    BY <1>16, <2>1
  <2>3. \A s \in Live' : s.rows = h[s.nid]
    BY <1>10, <1>14, <2>1, <2>2
  <2> QED BY <2>2, <2>3 DEF RoutingInv
<1> QED BY <1>10, <1>18, <1>19, <1>20, <1>21, <1>22, <1>23, <1>24, <1>25,
         <1>26, <1>27, <1>28 DEF IInv

-----------------------------------------------------------------------------
(* Dealing a segment. *)

(* The rows of a segment are written left before right.                    *)
Scatters(e, rows, c, w) ==
  /\ c \in 1 .. e.len - 1 /\ w \in Seq(Rows) /\ Len(w) = e.len
  /\ {w[i - e.begin + 1] : i \in Span(e.begin, c)} = rows \cap e.rule
  /\ {w[i - e.begin + 1] : i \in Span(e.begin + c, e.len - c)} = rows \ e.rule

(* A partition writes a segment's rows to the other side, those of the     *)
(* left child first.                                                       *)
LEMMA Scattered ==
  ASSUME NEW e \in Entries, Span(e.begin, e.len) \subseteq Positions,
         bufs \in [0 .. 1 -> [Positions -> Rows]], cur \in 0 .. 1,
         Separates(e, RowsOf(1 - cur, e.begin, e.len))
  PROVE  Scatters(e, RowsOf(1 - cur, e.begin, e.len), CountTile(e), ScatterTile(e))
<1> DEFINE rows == RowsOf(1 - cur, e.begin, e.len)
           s == SegmentRows(e)
           u == Chosen(s, e.rule)
           v == Chosen(s, Rows \ e.rule)
           b == e.begin
           n == e.len
           c == Len(u)
           d == Len(v)
           w == u \o v
<1>1. /\ b \in Positions /\ b \in Int /\ n \in Nat \ {0} /\ e.rule \in SUBSET Rows
  BY GpuGrowerAssumption DEF Entries, Positions
<1>2. bufs[1 - cur] \in [Positions -> Rows]
  <2>1. 1 - cur \in 0 .. 1
    OBVIOUS
  <2> QED BY <2>1
<1> HIDE DEF b, n
<1>3. \A j \in 1 .. n : b + j - 1 \in Span(b, n)
  BY <1>1 DEF Span
<1>4. /\ s \in Seq(Rows) /\ Len(s) = n /\ DOMAIN s = 1 .. n
      /\ \A j \in 1 .. n : s[j] = bufs[1 - cur][b + j - 1]
  <2>1. s = [j \in 1 .. n |-> bufs[1 - cur][b + j - 1]]
    BY DEF SegmentRows, b, n
  <2>2. \A j \in 1 .. n : bufs[1 - cur][b + j - 1] \in Rows
    BY <1>2, <1>3 DEF b, n
  <2> DEFINE at(j) == bufs[1 - cur][b + j - 1]
  <2>3. \A j \in 1 .. n : at(j) \in Rows
    BY <2>2
  <2> HIDE DEF at, s
  <2>4. s = [j \in 1 .. n |-> at(j)]
    BY <2>1 DEF at
  <2>5. s \in Seq(Rows) /\ Len(s) = n /\ DOMAIN s = 1 .. n /\ \A j \in 1 .. n : s[j] = at(j)
    BY <1>1, <2>3, <2>4
  <2> QED BY <2>5 DEF at
<1> HIDE DEF s
<1>5. Elems(s) = rows
  <2>1. rows = {bufs[1 - cur][i] : i \in Span(b, n)}
    BY DEF RowsOf, b, n
  <2>2. \A i \in Span(b, n) : i - b + 1 \in 1 .. n /\ i = b + (i - b + 1) - 1
    BY <1>1 DEF Span
  <2> HIDE DEF rows
  <2>3. ASSUME NEW j \in 1 .. n PROVE s[j] \in rows
    BY <1>3, <1>4, <2>1
  <2>4. ASSUME NEW i \in Span(b, n) PROVE bufs[1 - cur][i] \in Elems(s)
    <3>1. s[i - b + 1] = bufs[1 - cur][i]
      BY <1>4, <2>2
    <3> QED BY <1>4, <2>2, <3>1 DEF Elems
  <2> QED BY <1>4, <2>1, <2>3, <2>4 DEF Elems
<1> HIDE DEF rows
<1>6. /\ u \in Seq(Rows) /\ Elems(u) = rows \cap e.rule
      /\ v \in Seq(Rows) /\ Elems(v) = rows \cap (Rows \ e.rule)
      /\ c + d = n
  <2>1. \A x \in Rows : x \in Rows \ e.rule <=> x \notin e.rule
    OBVIOUS
  <2>2. c + d = Len(s)
    BY <1>4, <2>1, ChosenLengths
  <2> QED BY <1>4, <1>5, <2>2, ChosenElems
<1>7. rows \subseteq Rows
  BY <1>4, <1>5, ElemsIn
<1>8. Elems(v) = rows \ e.rule
  BY <1>6, <1>7
<1>9. Elems(u) # {} /\ Elems(v) # {}
  BY <1>6, <1>8 DEF Separates, rows
<1> HIDE DEF u, v
<1>10. c \in Nat /\ d \in Nat /\ DOMAIN u = 1 .. c /\ DOMAIN v = 1 .. d
  BY <1>6
<1>11. c # 0 /\ d # 0
  BY <1>9, <1>10 DEF Elems
<1>12. c \in 1 .. n - 1 /\ n - c = d
  BY <1>1, <1>6, <1>10, <1>11
<1>13. /\ w \in Seq(Rows) /\ Len(w) = c + d
       /\ \A i \in 1 .. c : w[i] = u[i]
       /\ \A i \in 1 .. d : w[c + i] = v[i]
  BY <1>6, Concatenated
<1> HIDE DEF c, d, w
<1>14. {w[i - b + 1] : i \in Span(b, c)} = Elems(u)
  <2>1. \A i \in Span(b, c) : i - b + 1 \in 1 .. c
    BY <1>1, <1>10 DEF Span
  <2>2. \A j \in 1 .. c : b + j - 1 \in Span(b, c) /\ (b + j - 1) - b + 1 = j
    BY <1>1, <1>10 DEF Span
  <2>3. ASSUME NEW i \in Span(b, c) PROVE w[i - b + 1] \in Elems(u)
    BY <1>10, <1>13, <2>1 DEF Elems
  <2>4. ASSUME NEW j \in 1 .. c PROVE u[j] \in {w[i - b + 1] : i \in Span(b, c)}
    <3>1. w[(b + j - 1) - b + 1] = u[j]
      BY <1>13, <2>2
    <3> QED BY <2>2, <3>1
  <2> QED BY <1>10, <2>3, <2>4 DEF Elems
<1>15. {w[i - b + 1] : i \in Span(b + c, d)} = Elems(v)
  <2>1. \A i \in Span(b + c, d) : (i - b + 1) - c \in 1 .. d /\ c + ((i - b + 1) - c) = i - b + 1
    BY <1>1, <1>10 DEF Span
  <2>2. \A j \in 1 .. d : b + c + j - 1 \in Span(b + c, d) /\ (b + c + j - 1) - b + 1 = c + j
    BY <1>1, <1>10 DEF Span
  <2>3. ASSUME NEW i \in Span(b + c, d) PROVE w[i - b + 1] \in Elems(v)
    <3>1. w[i - b + 1] = v[(i - b + 1) - c]
      BY <1>13, <2>1
    <3> QED BY <1>10, <2>1, <3>1 DEF Elems
  <2>4. ASSUME NEW j \in 1 .. d PROVE v[j] \in {w[i - b + 1] : i \in Span(b + c, d)}
    <3>1. w[(b + c + j - 1) - b + 1] = v[j]
      BY <1>13, <2>2
    <3> QED BY <2>2, <3>1
  <2> QED BY <1>10, <2>3, <2>4 DEF Elems
<1>16. CountTile(e) = c /\ ScatterTile(e) = w
  BY DEF CountTile, ScatterTile, c, w, u, v, s
<1>17. {w[i - e.begin + 1] : i \in Span(e.begin, c)} = rows \cap e.rule
  BY <1>6, <1>14 DEF b
<1>18. {w[i - e.begin + 1] : i \in Span(e.begin + c, e.len - c)} = rows \ e.rule
  <2>1. {w[i - b + 1] : i \in Span(b + c, n - c)} = rows \ e.rule
    BY <1>8, <1>12, <1>15
  <2> QED BY <2>1 DEF b, n
<1>19. c \in 1 .. e.len - 1 /\ w \in Seq(Rows) /\ Len(w) = e.len
  BY <1>6, <1>12, <1>13 DEF n
<1>20. Scatters(e, rows, c, w)
  BY <1>17, <1>18, <1>19 DEF Scatters
<1> QED BY <1>16, <1>20 DEF rows

(* PartitionSegment keeps the invariant: one segment of the batch is dealt *)
(* in two.                                                                 *)
LEMMA DealKeeps ==
  ASSUME IInv, PartitionSegment
  PROVE  /\ IInv' /\ Waiting' = Waiting
         /\ \A d \in Waiting : RowSet(d)' = RowSet(d)
         /\ \A d : BatchRows(d)' = BatchRows(d)
<1>1. /\ TypeInv /\ PhaseInv /\ OnceInv /\ TileInv /\ SideInv /\ LevelInv /\ TreeInv
      /\ CandidateInv /\ SlotInv /\ DealtInv /\ RoutingInv
  BY DEF IInv
<1>2. /\ pc = "partition" /\ param' = param /\ atomic_free' = atomic_free /\ trees' = trees
      /\ tree' = tree /\ cur' = cur /\ side' = side /\ frontiers' = frontiers
      /\ arena' = arena /\ root' = root /\ queue' = queue /\ batch' = batch
      /\ expandable' = expandable /\ pending' = pending /\ children' = children
      /\ num_leaves' = num_leaves /\ leaf_segments' = leaf_segments
  BY DEF PartitionSegment, histograms
<1>3. PICK k \in todo :
        /\ bufs' = [bufs EXCEPT ![cur] =
                      [i \in Positions |-> IF i \in Span(batch[k].begin, batch[k].len)
                                           THEN ScatterTile(batch[k])[i - batch[k].begin + 1]
                                           ELSE @[i]]]
        /\ left_counts' = [left_counts EXCEPT ![k] = CountTile(batch[k])]
        /\ todo' = todo \ {k}
        /\ pc' = IF todo' = {} THEN "build" ELSE pc
  BY DEF PartitionSegment
<1>4. PICK e : e = batch[k]
  OBVIOUS
<1>5. PICK w, c : w = ScatterTile(e) /\ c = CountTile(e)
  OBVIOUS
<1>6. /\ bufs \in [0 .. 1 -> [Positions -> Rows]] /\ cur \in 0 .. 1
      /\ side \in [Positions -> 0 .. 1] /\ batch \in Seq(Entries)
      /\ left_counts \in [DOMAIN batch -> Nat] /\ todo \subseteq DOMAIN batch
  BY <1>1, <1>2 DEF TypeInv, PhaseInv
<1>7. k \in DOMAIN batch /\ e \in Elems(batch) /\ e \in Entries
  BY <1>4, <1>6 DEF Elems
<1>8. /\ children = <<>> /\ Waiting = Elems(queue) \cup Elems(leaf_segments)
      /\ \A x \in Waiting \cup Elems(batch) :
           /\ x.begin \in Positions /\ x.begin \in Span(x.begin, x.len)
           /\ x.len \in Nat \ {0} /\ Span(x.begin, x.len) \subseteq Positions
      /\ \A d \in Waiting : Span(d.begin, d.len) \cap Span(e.begin, e.len) = {}
      /\ \A d \in Elems(batch) : d # e => Span(d.begin, d.len) \cap Span(e.begin, e.len) = {}
  BY <1>2, <1>7, LiveApart DEF InBatch
<1> DEFINE rows == RowsOf(1 - cur, e.begin, e.len)
<1>9. Separates(e, rows)
  <2>1. BatchRows(e) = rows
    BY <1>2 DEF BatchRows
  <2> QED BY <1>1, <1>2, <1>7, <2>1 DEF CandidateInv, InBatch
<1>10. /\ c \in 1 .. e.len - 1 /\ w \in Seq(Rows) /\ Len(w) = e.len
       /\ {w[i - e.begin + 1] : i \in Span(e.begin, c)} = rows \cap e.rule
       /\ {w[i - e.begin + 1] : i \in Span(e.begin + c, e.len - c)} = rows \ e.rule
  <2>1. Span(e.begin, e.len) \subseteq Positions
    BY <1>7, <1>8
  <2>2. Scatters(e, RowsOf(1 - cur, e.begin, e.len), CountTile(e), ScatterTile(e))
    BY <1>6, <1>7, <1>9, <2>1, Scattered
  <2>3. Scatters(e, rows, c, w)
    BY <1>5, <2>2
  <2> HIDE DEF rows
  <2> QED BY <2>3 DEF Scatters
<1> HIDE DEF rows
<1>11. /\ bufs' \in [0 .. 1 -> [Positions -> Rows]]
       /\ \A i \in Span(e.begin, e.len) : bufs'[cur][i] = w[i - e.begin + 1]
       /\ \A i \in Positions : i \notin Span(e.begin, e.len) => bufs'[cur][i] = bufs[cur][i]
       /\ bufs'[1 - cur] = bufs[1 - cur]
  <2> DEFINE g == [i \in Positions |-> IF i \in Span(e.begin, e.len)
                                       THEN w[i - e.begin + 1] ELSE bufs[cur][i]]
  <2>1. bufs' = [bufs EXCEPT ![cur] = g]
    BY <1>3, <1>4, <1>5
  <2>2. \A i \in Span(e.begin, e.len) : w[i - e.begin + 1] \in Rows
    <3> SUFFICES ASSUME NEW i \in Span(e.begin, e.len) PROVE w[i - e.begin + 1] \in Rows
      OBVIOUS
    <3>1. e.begin \in Int /\ e.len \in Nat
      BY <1>7, <1>8, GpuGrowerAssumption DEF Entries, Positions
    <3>2. i - e.begin + 1 \in 1 .. Len(w)
      BY <1>10, <3>1 DEF Span
    <3> QED BY <1>10, <3>2
  <2>3. \A i \in Positions : bufs[cur][i] \in Rows
    BY <1>6
  <2>4. g \in [Positions -> Rows]
    BY <2>2, <2>3
  <2>5. \A i \in Span(e.begin, e.len) : g[i] = w[i - e.begin + 1]
    BY <1>7, <1>8
  <2>6. \A i \in Positions : i \notin Span(e.begin, e.len) => g[i] = bufs[cur][i]
    OBVIOUS
  <2> HIDE DEF g
  <2>7. 1 - cur \in 0 .. 1 /\ 1 - cur # cur
    BY <1>6
  <2> QED BY <1>6, <2>1, <2>4, <2>5, <2>6, <2>7
<1>12. \A d : /\ Span(d.begin, d.len) \subseteq Positions
              /\ Span(d.begin, d.len) \cap Span(e.begin, e.len) = {}
              => \A i \in Span(d.begin, d.len), b \in 0 .. 1 : bufs'[b][i] = bufs[b][i]
  <2> SUFFICES ASSUME NEW d, Span(d.begin, d.len) \subseteq Positions,
                      Span(d.begin, d.len) \cap Span(e.begin, e.len) = {},
                      NEW i \in Span(d.begin, d.len), NEW b \in 0 .. 1
               PROVE  bufs'[b][i] = bufs[b][i]
    OBVIOUS
  <2>1. b = cur \/ b = 1 - cur
    BY <1>6
  <2>2. i \in Positions /\ i \notin Span(e.begin, e.len)
    OBVIOUS
  <2> QED BY <1>11, <2>1, <2>2
<1>13. Waiting' = Waiting
  BY <1>2 DEF Waiting
<1>14. \A d \in Waiting : RowSet(d)' = RowSet(d)
  <2> SUFFICES ASSUME NEW d \in Waiting PROVE RowSet(d)' = RowSet(d)
    OBVIOUS
  <2>1. side[d.begin] \in 0 .. 1
    BY <1>6, <1>8
  <2>2. \A i \in Span(d.begin, d.len) : bufs'[side[d.begin]][i] = bufs[side[d.begin]][i]
    BY <1>8, <1>12, <2>1
  <2> QED BY <1>2, <2>2 DEF RowSet, RowsOf
<1>15. \A d : RowsOf(1 - cur, d.begin, d.len)' = RowsOf(1 - cur, d.begin, d.len)
  BY <1>2, <1>11 DEF RowsOf
<1>16. pc' \in {"partition", "build"}
  BY <1>2, <1>3
<1>17. \A d : BatchRows(d)' = BatchRows(d)
  BY <1>2, <1>15, <1>16 DEF BatchRows
<1>18. Live' = Live
  <2>1. Live = {Holding(d, RowSet(d)) : d \in Waiting}
               \cup {Holding(d, BatchRows(d)) : d \in Elems(batch)}
    BY <1>2 DEF Live, InBatch
  <2>2. Live' = {Holding(d, RowSet(d)') : d \in Waiting'}
                \cup {Holding(d, BatchRows(d)') : d \in Elems(batch')}
    BY <1>16 DEF Live, InBatch
  <2>3. {Holding(d, RowSet(d)') : d \in Waiting'} = {Holding(d, RowSet(d)) : d \in Waiting}
    BY <1>13, <1>14
  <2>4. {Holding(d, BatchRows(d)') : d \in Elems(batch')}
          = {Holding(d, BatchRows(d)) : d \in Elems(batch)}
    BY <1>2, <1>17
  <2> QED BY <2>1, <2>2, <2>3, <2>4
<1>19. /\ left_counts' \in [DOMAIN batch -> Nat] /\ left_counts'[k] = c
       /\ \A j \in DOMAIN batch : j # k => left_counts'[j] = left_counts[j]
  <2>1. c \in Nat
    <3>1. e.len \in Nat
      BY <1>7, <1>8
    <3> QED BY <1>10, <3>1
  <2>2. left_counts' = [left_counts EXCEPT ![k] = c]
    BY <1>3, <1>4, <1>5
  <2> QED BY <1>6, <1>7, <2>1, <2>2
<1>20. TypeInv'
  <2>1. /\ param' \in Params /\ atomic_free' \in BOOLEAN /\ trees' \in 1 .. MaxTrees
        /\ \E n \in Nat \ {0} : tree' \in [0 .. n - 1 -> Nodes]
        /\ cur' \in 0 .. 1 /\ side' \in [Positions -> 0 .. 1]
        /\ frontiers' \in Seq(Slots) /\ arena' \in Arenas
        /\ root' \in Nat /\ children' \in Seq(Entries) /\ queue' \in Seq(Entries)
        /\ batch' \in Seq(Entries) /\ leaf_segments' \in Seq(Segs) /\ num_leaves' \in Nat
        /\ expandable' \in Seq(DOMAIN batch')
    BY <1>1, <1>2 DEF TypeInv
  <2>2. pc' \in Phases
    BY <1>16 DEF Phases
  <2> QED BY <1>11, <2>1, <2>2 DEF TypeInv
<1>21. PhaseInv'
  <2>1. pc' = "partition" => todo' \subseteq DOMAIN batch'
    BY <1>2, <1>3, <1>6
  <2>2. pc' = "build" => todo' = {}
    BY <1>2, <1>3
  <2>3. \A i, j \in DOMAIN expandable' : expandable'[i] = expandable'[j] => i = j
    BY <1>1, <1>2 DEF PhaseInv
  <2> QED BY <1>2, <1>8, <1>16, <1>19, <2>1, <2>2, <2>3 DEF PhaseInv
<1>22. OnceInv'
  BY <1>1, <1>2, <1>16 DEF OnceInv, InBatch
<1>23. TileInv' /\ RoutingInv'
  <2>1. RoutingInv' /\ Tiles(Live)'
    BY <1>1, <1>2, <1>18, SameLive DEF TileInv
  <2> QED BY <2>1 DEF TileInv
<1>24. SideInv'
  <2>1. \A d, b : OneSide(d, b)' <=> OneSide(d, b)
    BY <1>2 DEF OneSide
  <2>2. \A d : /\ OneSide(d, side[d.begin])' <=> OneSide(d, side[d.begin])
               /\ OneSide(d, cur)' <=> OneSide(d, cur)
    BY <1>2, <2>1
  <2> QED BY <1>1, <1>2, <1>13, <1>16, <2>2 DEF SideInv, Dealing
<1>25. LevelInv'
  <2>1. \A d, x : Together(d, x)' <=> Together(d, x)
    BY <1>2 DEF Together
  <2> QED BY <1>1, <1>2, <1>16, <2>1 DEF LevelInv, Parents, InBatch
<1>26. TreeInv'
  <2>1. Linked' /\ Leaves' = Leaves
    BY <1>1, <1>2, SameTree DEF TreeInv
  <2>2. \A d : Kids(d)' = Kids(d)
    BY <1>2 DEF Kids
  <2> QED BY <1>1, <1>2, <1>16, <2>1, <2>2 DEF TreeInv, Dealing
<1>27. CandidateInv'
  <2>1. \A d \in Elems(queue) : /\ Counted(d, RowSet(d))' <=> Counted(d, RowSet(d))
                                /\ Separates(d, RowSet(d))' <=> Separates(d, RowSet(d))
    BY <1>2, <1>8, <1>14 DEF Counted, Separates
  <2>2. \A d : /\ Counted(d, BatchRows(d))' <=> Counted(d, BatchRows(d))
               /\ Separates(d, BatchRows(d))' <=> Separates(d, BatchRows(d))
    BY <1>2, <1>17 DEF Counted, Separates
  <2>3. /\ \A d \in Elems(queue) : Counted(d, RowSet(d)) /\ Separates(d, RowSet(d))
        /\ \A d \in Elems(batch) : Counted(d, BatchRows(d)) /\ Separates(d, BatchRows(d))
    BY <1>1, <1>2 DEF CandidateInv, InBatch
  <2> QED BY <1>2, <1>16, <2>1, <2>2, <2>3 DEF CandidateInv
<1>28. SlotInv'
  <2>1. ArenaOk(arena, frontiers)'
    BY <1>1, <1>2 DEF SlotInv, ArenaOk
  <2>2. Handles' = Handles
    BY <1>2, <1>16 DEF Handles, Parents, InBatch
  <2> QED BY <1>1, <1>2, <2>1, <2>2 DEF SlotInv
<1>29. DealtInv'
  <2> DEFINE Dealt2(d, n) ==
               LET r == RowsOf(1 - cur, d.begin, d.len)
               IN /\ n \in 1 .. d.len - 1
                  /\ {bufs'[cur][i] : i \in Span(d.begin, n)} = r \cap d.rule
                  /\ {bufs'[cur][i] : i \in Span(d.begin + n, d.len - n)} = r \ d.rule
  <2>0. \A x \in Elems(batch) : \A m \in 1 .. x.len - 1 :
          /\ Span(x.begin, m) \subseteq Span(x.begin, x.len)
          /\ Span(x.begin + m, x.len - m) \subseteq Span(x.begin, x.len)
    <3> SUFFICES ASSUME NEW x \in Elems(batch), NEW m \in 1 .. x.len - 1
                 PROVE  /\ Span(x.begin, m) \subseteq Span(x.begin, x.len)
                        /\ Span(x.begin + m, x.len - m) \subseteq Span(x.begin, x.len)
      OBVIOUS
    <3>1. x.begin \in Int /\ x.len \in Nat
      BY <1>8, GpuGrowerAssumption DEF Positions
    <3> QED BY <3>1 DEF Span
  <2>1. ASSUME NEW j \in DOMAIN batch \ todo' PROVE Dealt2(batch[j], left_counts'[j])
    <3> SUFFICES ASSUME NEW d, d = batch[j], NEW n, n = left_counts'[j] PROVE Dealt2(d, n)
      OBVIOUS
    <3>1. CASE j = k
      <4>1. d = e /\ n = c
        BY <1>4, <1>19, <3>1
      <4>2. /\ \A i \in Span(e.begin, c) : bufs'[cur][i] = w[i - e.begin + 1]
            /\ \A i \in Span(e.begin + c, e.len - c) : bufs'[cur][i] = w[i - e.begin + 1]
        BY <1>7, <1>10, <1>11, <2>0
      <4>3. /\ {bufs'[cur][i] : i \in Span(e.begin, c)} = rows \cap e.rule
            /\ {bufs'[cur][i] : i \in Span(e.begin + c, e.len - c)} = rows \ e.rule
        BY <1>10, <4>2
      <4> QED BY <1>10, <4>1, <4>3 DEF rows
    <3>2. CASE j # k
      <4>1. j \in DOMAIN batch \ todo /\ n = left_counts[j] /\ d \in Elems(batch)
        BY <1>3, <1>19, <3>2 DEF Elems
      <4>2. /\ n \in 1 .. d.len - 1
            /\ RowsOf(cur, d.begin, n) = RowsOf(1 - cur, d.begin, d.len) \cap d.rule
            /\ RowsOf(cur, d.begin + n, d.len - n) = RowsOf(1 - cur, d.begin, d.len) \ d.rule
        BY <1>1, <1>2, <4>1 DEF DealtInv, Dealing
      <4>3. d # e
        <5>1. batch[j].nid # batch[k].nid
          BY <1>1, <1>7, <3>2 DEF OnceInv, Once
        <5> QED BY <1>4, <5>1
      <4>4. \A i \in Span(d.begin, d.len) : bufs'[cur][i] = bufs[cur][i]
        BY <1>6, <1>8, <1>12, <4>1, <4>3
      <4>5. /\ \A i \in Span(d.begin, n) : bufs'[cur][i] = bufs[cur][i]
            /\ \A i \in Span(d.begin + n, d.len - n) : bufs'[cur][i] = bufs[cur][i]
        BY <2>0, <4>1, <4>2, <4>4
      <4>6. /\ {bufs'[cur][i] : i \in Span(d.begin, n)} = RowsOf(cur, d.begin, n)
            /\ {bufs'[cur][i] : i \in Span(d.begin + n, d.len - n)}
                 = RowsOf(cur, d.begin + n, d.len - n)
        BY <4>5 DEF RowsOf
      <4> QED BY <4>2, <4>6
    <3> QED BY <3>1, <3>2
  <2>2. bufs'[1 - cur] = bufs[1 - cur]
    BY <1>11
  <2>3. ASSUME NEW j \in DOMAIN batch \ todo'
        PROVE  LET e2 == batch[j]
                   rows2 == RowsOf(1 - cur, batch[j].begin, batch[j].len)'
               IN /\ left_counts'[j] \in 1 .. e2.len - 1
                  /\ RowsOf(cur, batch[j].begin, left_counts[j])' = rows2 \cap e2.rule
                  /\ RowsOf(cur, batch[j].begin + left_counts[j],
                            batch[j].len - left_counts[j])' = rows2 \ e2.rule
    <3>0. Dealt2(batch[j], left_counts'[j])
      BY <2>1, <2>3
    <3>1. RowsOf(1 - cur, batch[j].begin, batch[j].len)'
            = RowsOf(1 - cur, batch[j].begin, batch[j].len)
      BY <1>2, <2>2 DEF RowsOf
    <3>2. RowsOf(cur, batch[j].begin, left_counts[j])'
            = {bufs'[cur][i] : i \in Span(batch[j].begin, left_counts'[j])}
      BY <1>2 DEF RowsOf
    <3>3. RowsOf(cur, batch[j].begin + left_counts[j], batch[j].len - left_counts[j])'
            = {bufs'[cur][i] : i \in Span(batch[j].begin + left_counts'[j],
                                          batch[j].len - left_counts'[j])}
      BY <1>2 DEF RowsOf
    <3> QED BY <3>0, <3>1, <3>2, <3>3
  <2>4. DOMAIN batch' \ todo' = DOMAIN batch \ todo'
    BY <1>2
  <2> QED BY <1>2, <2>3, <2>4 DEF DealtInv
<1>30. PairInv'
  BY <1>16 DEF PairInv
<1> QED BY <1>13, <1>14, <1>17, <1>20, <1>21, <1>22, <1>23, <1>24, <1>25, <1>26,
         <1>27, <1>28, <1>29, <1>30 DEF IInv

-----------------------------------------------------------------------------
(* The children of a batch. *)

(* Children are listed two by two.                                         *)
LEMMA PairAt ==
  ASSUME NEW n \in Nat
  PROVE  /\ \A i \in 1 .. 2 * n : /\ CandidateAt(i) \in 1 .. n
                                  /\ i % 2 = 1 => i = 2 * CandidateAt(i) - 1
                                  /\ i % 2 # 1 => i = 2 * CandidateAt(i)
         /\ \A j \in 1 .. n : /\ 2 * j \in 1 .. 2 * n /\ 2 * j - 1 \in 1 .. 2 * n
                              /\ CandidateAt(2 * j - 1) = j /\ (2 * j - 1) % 2 = 1
                              /\ CandidateAt(2 * j) = j /\ (2 * j) % 2 # 1
<1>1. ASSUME NEW j \in 1 .. n
      PROVE  /\ CandidateAt(2 * j - 1) = j /\ (2 * j - 1) % 2 = 1
             /\ CandidateAt(2 * j) = j /\ (2 * j) % 2 # 1
  <2>1. /\ (j * 2 + 0) \div 2 = j /\ (j * 2 + 0) % 2 = 0
        /\ (j * 2 + 1) \div 2 = j
        /\ ((j - 1) * 2 + 1) % 2 = 1
    <3>1. j \in Nat /\ j - 1 \in Nat /\ 2 \in Nat \ {0} /\ 0 \in 0 .. 2 - 1 /\ 1 \in 0 .. 2 - 1
      OBVIOUS
    <3> QED BY <3>1, DivOf
  <2>2. /\ (2 * j - 1) + 1 = j * 2 + 0 /\ 2 * j + 1 = j * 2 + 1 /\ 2 * j = j * 2 + 0
        /\ 2 * j - 1 = (j - 1) * 2 + 1
    OBVIOUS
  <2> QED BY <2>1, <2>2 DEF CandidateAt
<1>2. ASSUME NEW i \in 1 .. 2 * n
      PROVE  /\ CandidateAt(i) \in 1 .. n
             /\ i % 2 = 1 => i = 2 * CandidateAt(i) - 1
             /\ i % 2 # 1 => i = 2 * CandidateAt(i)
  <2>1. \E j \in 1 .. n : i = 2 * j \/ i = 2 * j - 1
    <3>1. /\ i \div 2 \in Nat /\ i % 2 \in 0 .. 1 /\ i = (i \div 2) * 2 + (i % 2)
      BY DivBounds
    <3>2. CASE i % 2 = 0
      <4>1. i \div 2 \in 1 .. n /\ i = 2 * (i \div 2)
        BY <3>1, <3>2
      <4> QED BY <4>1
    <3>3. CASE i % 2 = 1
      <4>1. (i \div 2) + 1 \in 1 .. n /\ i = 2 * ((i \div 2) + 1) - 1
        BY <3>1, <3>3
      <4> QED BY <4>1
    <3> QED BY <3>1, <3>2, <3>3
  <2>2. PICK j \in 1 .. n : i = 2 * j \/ i = 2 * j - 1
    BY <2>1
  <2> QED BY <1>1, <2>2
<1>3. \A j \in 1 .. n : 2 * j \in 1 .. 2 * n /\ 2 * j - 1 \in 1 .. 2 * n
  OBVIOUS
<1> QED BY <1>1, <1>2, <1>3

KidSegs(k) == {LeftSegment(k), RightSegment(k)}
Around(s, d) == /\ s.begin \in Span(s.begin, s.len)
                /\ Span(s.begin, s.len) \subseteq Span(d.begin, d.len)

(* A segment and its rows in two parts.                                    *)
Parted(e, l, r) ==
  /\ \A i \in Span(e.begin, e.len) : i \in Span(l.begin, l.len) \/ i \in Span(r.begin, r.len)
  /\ Span(l.begin, l.len) \cap Span(r.begin, r.len) = {} /\ l.nid # r.nid
  /\ RowSet(l) = BatchRows(e) \cap e.rule /\ RowSet(r) = BatchRows(e) \ e.rule

(* The segments of a candidate's children are its own in two parts.        *)
LEMMA KidsAre ==
  ASSUME IInv, pc = "build", NEW k \in DOMAIN batch, NEW e, e = batch[k],
         NEW l, l = LeftSegment(k), NEW r, r = RightSegment(k)
  PROVE  /\ l \in Segs /\ r \in Segs /\ Around(l, e) /\ Around(r, e)
         /\ Parted(e, l, r)
         /\ RowSet(l) = BatchRows(e) \cap e.rule /\ RowSet(r) = BatchRows(e) \ e.rule
         /\ OneSide(l, cur) /\ OneSide(r, cur)
         /\ e.nid \in DOMAIN tree /\ tree[e.nid].rule = e.rule
         /\ l.nid = tree[e.nid].left /\ r.nid = tree[e.nid].right
         /\ l.nid \in DOMAIN tree \ {0} /\ r.nid \in DOMAIN tree \ {0} /\ l.nid # r.nid
         /\ tree[l.nid].parent = e.nid /\ tree[r.nid].parent = e.nid
         /\ Separates(e, BatchRows(e))
<1>1. /\ TypeInv /\ PhaseInv /\ SideInv /\ TreeInv /\ CandidateInv /\ DealtInv
  BY DEF IInv
<1>2. /\ batch \in Seq(Entries) /\ todo = {} /\ left_counts \in [DOMAIN batch -> Nat]
      /\ side \in [Positions -> 0 .. 1] /\ \E n \in Nat \ {0} : tree \in [0 .. n - 1 -> Nodes]
  BY <1>1 DEF TypeInv, PhaseInv
<1>3. e \in Entries /\ e \in Elems(batch)
  BY <1>2 DEF Elems
<1>4. PICK c : c = left_counts[k]
  OBVIOUS
<1>5. /\ c \in 1 .. e.len - 1
      /\ RowsOf(cur, e.begin, c) = RowsOf(1 - cur, e.begin, e.len) \cap e.rule
      /\ RowsOf(cur, e.begin + c, e.len - c) = RowsOf(1 - cur, e.begin, e.len) \ e.rule
  BY <1>1, <1>2, <1>4 DEF DealtInv, Dealing
<1>6. /\ l.nid = tree[e.nid].left /\ l.begin = e.begin /\ l.len = c
      /\ r.nid = tree[e.nid].right /\ r.begin = e.begin + c /\ r.len = e.len - c
      /\ l = [nid |-> tree[e.nid].left, begin |-> e.begin, len |-> c]
      /\ r = [nid |-> tree[e.nid].right, begin |-> e.begin + c, len |-> e.len - c]
  BY <1>4 DEF LeftSegment, RightSegment
<1>7. /\ e.begin \in Int /\ e.len \in Nat \ {0} /\ e.begin \in Positions
      /\ Span(e.begin, e.len) \subseteq Positions
  <2>1. e.begin \in Positions /\ e.len \in Nat \ {0}
    BY <1>3 DEF Entries
  <2>2. Span(e.begin, e.len) \subseteq Positions
    BY <1>3, LiveApart DEF InBatch
  <2> QED BY <2>1, <2>2, GpuGrowerAssumption DEF Positions
<1>8. /\ Around(l, e) /\ Around(r, e) /\ l.len \in Nat \ {0} /\ r.len \in Nat \ {0}
      /\ Span(l.begin, l.len) \cap Span(r.begin, r.len) = {}
  BY <1>5, <1>6, <1>7 DEF Around, Span
<1>9. \A i \in Span(e.begin, e.len) : i \in Span(l.begin, l.len) \/ i \in Span(r.begin, r.len)
  BY <1>5, <1>6, <1>7 DEF Span
<1>10. OneSide(l, cur) /\ OneSide(r, cur)
  <2>1. \A i \in Span(e.begin, e.len) : side[i] = cur
    BY <1>1, <1>3 DEF SideInv, OneSide, Dealing
  <2> QED BY <1>8, <2>1 DEF OneSide, Around
<1>11. side[l.begin] = cur /\ side[r.begin] = cur
  BY <1>8, <1>10 DEF OneSide, Around
<1>12. BatchRows(e) = RowsOf(1 - cur, e.begin, e.len)
  BY DEF BatchRows
<1>13. RowSet(l) = BatchRows(e) \cap e.rule /\ RowSet(r) = BatchRows(e) \ e.rule
  BY <1>5, <1>6, <1>11, <1>12 DEF RowSet
<1>14. e.nid \in DOMAIN tree /\ tree[e.nid].left # None /\ tree[e.nid].rule = e.rule /\ Linked
  BY <1>1, <1>3 DEF TreeInv, Dealing
<1>15. /\ l.nid \in DOMAIN tree \ {0} /\ r.nid \in DOMAIN tree \ {0} /\ l.nid # r.nid
       /\ tree[l.nid].parent = e.nid /\ tree[r.nid].parent = e.nid
  BY <1>6, <1>14 DEF Linked
<1>16. l.nid \in Nat /\ r.nid \in Nat
  BY <1>2, <1>15
<1>17. l.begin \in Positions /\ r.begin \in Positions
  BY <1>7, <1>8 DEF Around
<1>18. l \in Segs /\ r \in Segs
  BY <1>6, <1>8, <1>16, <1>17 DEF Segs
<1>19. Separates(e, BatchRows(e))
  BY <1>1, <1>3 DEF CandidateInv, InBatch
<1>20. Parted(e, l, r)
  BY <1>8, <1>9, <1>13, <1>15 DEF Parted
<1> QED BY <1>6, <1>8, <1>10, <1>13, <1>14, <1>15, <1>18, <1>19, <1>20

(* No two children are the same node, and none of them waited before.      *)
LEMMA KidsApart ==
  ASSUME IInv, pc = "build"
  PROVE  /\ \A j, k \in DOMAIN batch : \A s \in KidSegs(j), t \in KidSegs(k) :
              j # k => s.nid # t.nid
         /\ \A k \in DOMAIN batch : \A s \in KidSegs(k), d \in Waiting : s.nid # d.nid
<1>1. OnceInv /\ TileInv /\ RoutingInv /\ TypeInv
  BY DEF IInv
<1>2. ASSUME NEW k \in DOMAIN batch, NEW s \in KidSegs(k)
      PROVE  s.nid \in DOMAIN tree \ {0} /\ tree[s.nid].parent = batch[k].nid
  <2>1. s = LeftSegment(k) \/ s = RightSegment(k)
    BY DEF KidSegs
  <2> QED BY <2>1, KidsAre
<1>3. ASSUME NEW j \in DOMAIN batch, NEW k \in DOMAIN batch,
             NEW s \in KidSegs(j), NEW t \in KidSegs(k), j # k
      PROVE  s.nid # t.nid
  <2>1. batch[j].nid # batch[k].nid
    BY <1>1, <1>3 DEF OnceInv, Once
  <2> QED BY <1>2, <2>1
<1>4. PICK f \in [DOMAIN tree -> SUBSET Rows] : Routes(f) /\ \A s \in Live : s.rows = f[s.nid]
  BY <1>1 DEF RoutingInv
<1>5. ASSUME NEW k \in DOMAIN batch, NEW s \in KidSegs(k), NEW d \in Waiting, s.nid = d.nid
      PROVE  FALSE
  <2>1. PICK e : e = batch[k]
    OBVIOUS
  <2>2. e \in Elems(batch)
    BY <2>1 DEF Elems
  <2>3. Holding(d, RowSet(d)) \in Live /\ Holding(e, BatchRows(e)) \in Live
    BY <2>2 DEF Live, InBatch
  <2>4. f[d.nid] = RowSet(d) /\ f[e.nid] = BatchRows(e)
    BY <1>4, <2>3 DEF Holding
  <2>5. s.nid \in DOMAIN tree \ {0} /\ tree[s.nid].parent = e.nid
    BY <1>2, <2>1
  <2>6. f[s.nid] \subseteq f[e.nid]
    BY <1>4, <2>5 DEF Routes
  <2>7. d.nid # e.nid
    BY <2>2, LiveApart DEF InBatch
  <2>8. Holding(d, RowSet(d)) # Holding(e, BatchRows(e))
    BY <2>7 DEF Holding
  <2>9. RowSet(d) # {} /\ RowSet(d) \cap BatchRows(e) = {}
    <3>1. Tiles(Live)
      BY <1>1 DEF TileInv
    <3> QED BY <2>3, <2>8, <3>1 DEF Tiles, Holding
  <2> QED BY <1>5, <2>4, <2>6, <2>9
<1> QED BY <1>3, <1>5

(* Segments dealt into smaller ones share out what they did.               *)
Within(s, p) == s.rows \subseteq p.rows /\ Span(s.begin, s.len) \subseteq Span(p.begin, p.len)
Apart(s, t) == Span(s.begin, s.len) \cap Span(t.begin, t.len) = {} /\ s.rows \cap t.rows = {}

(* Segments that are cut in two still share out the positions and the      *)
(* rows.                                                                   *)
LEMMA DealtTiles ==
  ASSUME NEW T, NEW M, Tiles(T),
         \A s \in M : s.rows # {} /\ \E p \in T : Within(s, p),
         \A s, t \in M : s # t => /\ s.nid # t.nid
                                  /\ \E p, q \in T : /\ Within(s, p) /\ Within(t, q)
                                                     /\ p = q => Apart(s, t),
         \A p \in T : /\ \A i \in Span(p.begin, p.len) : \E s \in M : i \in Span(s.begin, s.len)
                      /\ \A r \in p.rows : \E s \in M : r \in s.rows
  PROVE  Tiles(M)
<1>1. \A s \in M : /\ s.rows # {} /\ s.rows \subseteq Rows
                   /\ Span(s.begin, s.len) \subseteq Positions
  BY DEF Tiles, Within
<1>2. ASSUME NEW s \in M, NEW t \in M, s # t
      PROVE  s.nid # t.nid /\ Apart(s, t)
  <2>1. PICK p \in T, q \in T : Within(s, p) /\ Within(t, q) /\ (p = q => Apart(s, t))
    BY <1>2
  <2>2. CASE p = q
    BY <1>2, <2>1, <2>2
  <2>3. CASE p # q
    <3>1. Apart(p, q)
      BY <2>3 DEF Tiles, Apart
    <3>2. Apart(s, t)
      BY <2>1, <3>1 DEF Within, Apart
    <3> QED BY <1>2, <3>2
  <2> QED BY <2>2, <2>3
<1>3. \A i \in Positions : \E s \in M : i \in Span(s.begin, s.len)
  BY DEF Tiles
<1>4. \A r \in Rows : \E s \in M : r \in s.rows
  BY DEF Tiles
<1> QED BY <1>1, <1>2, <1>3, <1>4 DEF Tiles, Apart

(* The children take the places of a batch.                                *)
LEMMA KidsLive ==
  ASSUME IInv, pc = "build", tree' = tree, bufs' = bufs, cur' = cur, side' = side, queue' = queue,
         pc' \notin InBatch \cup {"tree"},
         Elems(leaf_segments') \cup {Segment(x) : x \in Elems(children')}
           = Elems(leaf_segments) \cup UNION {KidSegs(k) : k \in DOMAIN batch}
  PROVE  /\ Tiles(Live)' /\ RoutingInv' /\ Leaves = {s.nid : s \in Live'}
         /\ \A x \in Waiting' : OneSide(x, side[x.begin])
         /\ Live' = {Holding(x, RowSet(x)) :
                       x \in Waiting \cup UNION {KidSegs(k) : k \in DOMAIN batch}}
<1> DEFINE H(x) == Holding(x, RowSet(x))
           K == UNION {KidSegs(k) : k \in DOMAIN batch}
           P == {Holding(e, BatchRows(e)) : e \in Elems(batch)}
<1>1. /\ TypeInv /\ TileInv /\ SideInv /\ TreeInv /\ RoutingInv /\ OnceInv
  BY DEF IInv
<1>2. /\ children = <<>> /\ Waiting = Elems(queue) \cup Elems(leaf_segments)
      /\ \A d \in Waiting, e \in Elems(batch) : d.nid # e.nid
      /\ \A d \in Waiting : d.begin \in Span(d.begin, d.len)
  BY LiveApart DEF InBatch
<1>3. Live = {H(x) : x \in Waiting} \cup P
  BY DEF Live, InBatch
<1>4. \A x : RowSet(x)' = RowSet(x)
  BY SameRows
<1>5. Live' = {H(x) : x \in Waiting'}
  BY <1>4 DEF Live
<1>6. Live' = {H(x) : x \in Waiting \cup K}
  <2>1. \A x : H(Segment(x)) = H(x)
    BY SegmentHolds
  <2>2. Waiting' = Elems(queue) \cup Elems(children') \cup Elems(leaf_segments')
    BY DEF Waiting
  <2> HIDE DEF H, K
  <2>3. {H(x) : x \in Elems(children')} = {H(x) : x \in {Segment(x) : x \in Elems(children')}}
    BY <2>1
  <2>4. {H(x) : x \in Elems(children') \cup Elems(leaf_segments')}
          = {H(x) : x \in Elems(leaf_segments') \cup {Segment(x) : x \in Elems(children')}}
    <3>1. \A A, B : {H(x) : x \in A \cup B} = {H(x) : x \in A} \cup {H(x) : x \in B}
      OBVIOUS
    <3> QED BY <2>3, <3>1
  <2>5. {H(x) : x \in Elems(children') \cup Elems(leaf_segments')}
          = {H(x) : x \in Elems(leaf_segments) \cup K}
    BY <2>4 DEF K
  <2> QED BY <1>2, <1>5, <2>2, <2>5
<1>7. \A x : /\ H(x).nid = x.nid /\ H(x).begin = x.begin /\ H(x).len = x.len
             /\ H(x).rows = RowSet(x)
  BY DEF Holding
<1>8. \A e : LET p == Holding(e, BatchRows(e))
             IN /\ p.nid = e.nid /\ p.begin = e.begin /\ p.len = e.len /\ p.rows = BatchRows(e)
  BY DEF Holding
<1>9. ASSUME NEW k \in DOMAIN batch, NEW s \in KidSegs(k)
      PROVE  /\ Within(H(s), Holding(batch[k], BatchRows(batch[k]))) /\ H(s).rows # {}
             /\ Holding(batch[k], BatchRows(batch[k])) \in P /\ OneSide(s, cur)
             /\ s.begin \in Span(s.begin, s.len)
  <2>1. PICK e : e = batch[k]
    OBVIOUS
  <2>2. e \in Elems(batch)
    BY <2>1 DEF Elems
  <2>3. CASE s = LeftSegment(k)
    <3>1. /\ Around(s, e) /\ RowSet(s) = BatchRows(e) \cap e.rule /\ OneSide(s, cur)
          /\ Separates(e, BatchRows(e))
      BY <2>1, <2>3, KidsAre
    <3>2. RowSet(s) # {} /\ RowSet(s) \subseteq BatchRows(e)
      BY <3>1 DEF Separates
    <3> HIDE DEF H
    <3> QED BY <1>7, <1>8, <2>1, <2>2, <3>1, <3>2 DEF Within, Around
  <2>4. CASE s = RightSegment(k)
    <3>1. /\ Around(s, e) /\ RowSet(s) = BatchRows(e) \ e.rule /\ OneSide(s, cur)
          /\ Separates(e, BatchRows(e))
      BY <2>1, <2>4, KidsAre
    <3>2. RowSet(s) # {} /\ RowSet(s) \subseteq BatchRows(e)
      BY <3>1 DEF Separates
    <3> HIDE DEF H
    <3> QED BY <1>7, <1>8, <2>1, <2>2, <3>1, <3>2 DEF Within, Around
  <2> QED BY <2>3, <2>4 DEF KidSegs
<1>10. ASSUME NEW k \in DOMAIN batch, NEW s \in KidSegs(k), NEW t \in KidSegs(k), s # t
       PROVE  s.nid # t.nid /\ Apart(H(s), H(t))
  <2>1. PICK e : e = batch[k]
    OBVIOUS
  <2>2. PICK l, r : l = LeftSegment(k) /\ r = RightSegment(k)
    OBVIOUS
  <2>3. Parted(e, l, r)
    BY <2>1, <2>2, KidsAre
  <2>4. l.nid # r.nid /\ Apart(H(l), H(r)) /\ Apart(H(r), H(l))
    <3> HIDE DEF H
    <3> QED BY <1>7, <2>3 DEF Apart, Parted
  <2>5. (s = l /\ t = r) \/ (s = r /\ t = l)
    BY <1>10, <2>2 DEF KidSegs
  <2> QED BY <2>4, <2>5
<1>11. \A x \in Waiting : H(x) \in Live /\ RowSet(x) # {}
  <2>1. \A x \in Waiting : H(x) \in Live
    BY <1>3
  <2> HIDE DEF H
  <2> QED BY <1>1, <1>7, <2>1 DEF TileInv, Tiles
<1>12. P \subseteq Live
  BY <1>3
<1> HIDE DEF H, P
<1>13. ASSUME NEW x \in Waiting \cup K
       PROVE  H(x).rows # {} /\ \E p \in Live : Within(H(x), p)
  <2>1. CASE x \in Waiting
    BY <1>7, <1>11, <2>1 DEF Within
  <2>2. CASE x \in K
    <3>1. PICK k \in DOMAIN batch : x \in KidSegs(k)
      BY <2>2
    <3> QED BY <1>9, <1>12, <3>1
  <2> QED BY <2>1, <2>2
<1>14. ASSUME NEW x \in Waiting \cup K, NEW y \in Waiting \cup K, H(x) # H(y)
       PROVE  /\ H(x).nid # H(y).nid
              /\ \E p, q \in Live :
                   Within(H(x), p) /\ Within(H(y), q) /\ (p = q => Apart(H(x), H(y)))
  <2>1. x # y
    BY <1>14
  <2>2. CASE x \in Waiting /\ y \in Waiting
    <3>1. H(x) \in Live /\ H(y) \in Live /\ H(x).nid # H(y).nid
      BY <1>1, <1>11, <1>14, <2>2 DEF TileInv, Tiles
    <3>2. Within(H(x), H(x)) /\ Within(H(y), H(y))
      BY DEF Within
    <3> QED BY <1>14, <3>1, <3>2
  <2>3. \A a \in Waiting, b \in K :
          /\ H(a).nid # H(b).nid
          /\ \E q \in Live : Within(H(b), q) /\ H(a) # q
    <3> SUFFICES ASSUME NEW a \in Waiting, NEW b \in K
                 PROVE  /\ H(a).nid # H(b).nid
                        /\ \E q \in Live : Within(H(b), q) /\ H(a) # q
      OBVIOUS
    <3>1. PICK k \in DOMAIN batch : b \in KidSegs(k)
      OBVIOUS
    <3>2. PICK q : q = Holding(batch[k], BatchRows(batch[k]))
      OBVIOUS
    <3>3. Within(H(b), q) /\ q \in Live /\ q.nid = batch[k].nid
      BY <1>8, <1>9, <1>12, <3>1, <3>2
    <3>4. batch[k] \in Elems(batch)
      BY DEF Elems
    <3>5. H(a) # q
      BY <1>2, <1>7, <3>3, <3>4
    <3>6. H(a).nid # H(b).nid
      BY <1>7, <3>1, KidsApart
    <3> QED BY <3>3, <3>5, <3>6
  <2>4. CASE x \in Waiting /\ y \in K
    <3>1. H(x) \in Live /\ Within(H(x), H(x))
      BY <1>11, <2>4 DEF Within
    <3> QED BY <2>3, <2>4, <3>1
  <2>5. CASE x \in K /\ y \in Waiting
    <3>1. H(y) \in Live /\ Within(H(y), H(y))
      BY <1>11, <2>5 DEF Within
    <3> QED BY <2>3, <2>5, <3>1
  <2>6. CASE x \in K /\ y \in K
    <3>1. PICK j \in DOMAIN batch, k \in DOMAIN batch : x \in KidSegs(j) /\ y \in KidSegs(k)
      BY <2>6
    <3>2. PICK p, q : p = Holding(batch[j], BatchRows(batch[j]))
                      /\ q = Holding(batch[k], BatchRows(batch[k]))
      OBVIOUS
    <3>3. Within(H(x), p) /\ Within(H(y), q) /\ p \in Live /\ q \in Live
      BY <1>9, <1>12, <3>1, <3>2
    <3>4. CASE j = k
      BY <1>7, <1>10, <2>1, <3>1, <3>3, <3>4
    <3>5. CASE j # k
      <4>1. x.nid # y.nid
        BY <3>1, <3>5, KidsApart
      <4>2. batch[j].nid # batch[k].nid
        BY <1>1, <3>5 DEF OnceInv, Once
      <4>3. p # q
        BY <1>8, <3>2, <4>2
      <4> QED BY <1>7, <3>3, <4>1, <4>3
    <3> QED BY <3>4, <3>5
  <2> QED BY <2>2, <2>4, <2>5, <2>6
<1>15. ASSUME NEW p \in Live
       PROVE  /\ \A i \in Span(p.begin, p.len) :
                   \E x \in Waiting \cup K : i \in Span(x.begin, x.len)
              /\ \A r \in p.rows : \E x \in Waiting \cup K : r \in RowSet(x)
  <2>1. CASE \E x \in Waiting : p = H(x)
    BY <1>7, <2>1
  <2>2. CASE \E e \in Elems(batch) : p = Holding(e, BatchRows(e))
    <3>1. PICK k \in DOMAIN batch : p = Holding(batch[k], BatchRows(batch[k]))
      BY <2>2 DEF Elems
    <3>2. PICK e, l, s : e = batch[k] /\ l = LeftSegment(k) /\ s = RightSegment(k)
      OBVIOUS
    <3>3. Parted(e, l, s)
      BY <3>2, KidsAre
    <3>4. l \in K /\ s \in K
      BY <3>2 DEF KidSegs
    <3>5. p.begin = e.begin /\ p.len = e.len /\ p.rows = BatchRows(e)
      BY <1>8, <3>1, <3>2
    <3> HIDE DEF K
    <3> QED BY <3>3, <3>4, <3>5 DEF Parted
  <2> QED BY <1>3, <2>1, <2>2 DEF P
<1> DEFINE M == {H(x) : x \in Waiting \cup K}
<1>16. Tiles(M)
  <2>1. \A s \in M : s.rows # {} /\ \E p \in Live : Within(s, p)
    BY <1>13
  <2>2. \A s, t \in M : s # t => /\ s.nid # t.nid
                                 /\ \E p, q \in Live : /\ Within(s, p) /\ Within(t, q)
                                                       /\ p = q => Apart(s, t)
    BY <1>14
  <2>3. \A p \in Live :
          /\ \A i \in Span(p.begin, p.len) : \E s \in M : i \in Span(s.begin, s.len)
          /\ \A r \in p.rows : \E s \in M : r \in s.rows
    <3> HIDE DEF K
    <3> QED BY <1>7, <1>15
  <2>4. Tiles(Live)
    BY <1>1 DEF TileInv
  <2> HIDE DEF M
  <2> QED BY <2>1, <2>2, <2>3, <2>4, DealtTiles
<1>17. Tiles(Live)'
  <2>1. Tiles(Live)' = Tiles(Live')
    BY DEF Tiles
  <2> QED BY <1>6, <1>16, <2>1
<1>18. RoutingInv'
  <2>1. PICK f \in [DOMAIN tree -> SUBSET Rows] : Routes(f) /\ \A s \in Live : s.rows = f[s.nid]
    BY <1>1 DEF RoutingInv
  <2>2. Routes(f)'
    BY <2>1, SameTree
  <2>3. \A x \in Waiting : RowSet(x) = f[x.nid]
    BY <1>7, <1>11, <2>1
  <2>4. ASSUME NEW x \in K PROVE RowSet(x) = f[x.nid]
    <3>1. PICK k \in DOMAIN batch : x \in KidSegs(k)
      BY <2>4
    <3>2. PICK e, l, s : e = batch[k] /\ l = LeftSegment(k) /\ s = RightSegment(k)
      OBVIOUS
    <3>3. /\ RowSet(l) = BatchRows(e) \cap e.rule /\ RowSet(s) = BatchRows(e) \ e.rule
          /\ l.nid = tree[e.nid].left /\ s.nid = tree[e.nid].right /\ l.nid # s.nid
          /\ l.nid \in DOMAIN tree \ {0} /\ s.nid \in DOMAIN tree \ {0}
          /\ tree[l.nid].parent = e.nid /\ tree[s.nid].parent = e.nid
          /\ tree[e.nid].rule = e.rule
      BY <3>2, KidsAre
    <3>4. Holding(e, BatchRows(e)) \in Live /\ f[e.nid] = BatchRows(e)
      <4>1. e \in Elems(batch)
        BY <3>2 DEF Elems
      <4>2. Holding(e, BatchRows(e)) \in Live
        BY <1>3, <4>1 DEF P
      <4> QED BY <1>8, <2>1, <4>2
    <3>5. f[l.nid] = f[e.nid] \cap e.rule /\ f[s.nid] = f[e.nid] \ e.rule
      BY <2>1, <3>3 DEF Routes
    <3>6. x = l \/ x = s
      BY <3>1, <3>2 DEF KidSegs
    <3> QED BY <3>3, <3>4, <3>5, <3>6
  <2>5. \A s \in Live' : s.rows = f[s.nid]
    BY <1>6, <1>7, <2>3, <2>4
  <2> QED BY <2>1, <2>2, <2>5 DEF RoutingInv
<1>19. Leaves = {s.nid : s \in Live'}
  <2>1. Leaves = Nids(queue) \cup Nids(leaf_segments) \cup UNION {Kids(e) : e \in Elems(batch)}
    BY <1>1 DEF TreeInv, Dealing
  <2>2. {s.nid : s \in Live'} = {x.nid : x \in Waiting} \cup {x.nid : x \in K}
    <3> HIDE DEF K
    <3> QED BY <1>6, <1>7
  <2>3. {x.nid : x \in Waiting} = Nids(queue) \cup Nids(leaf_segments)
    <3>1. /\ Nids(queue) = {x.nid : x \in Elems(queue)}
          /\ Nids(leaf_segments) = {x.nid : x \in Elems(leaf_segments)}
      BY NidsAre
    <3> QED BY <1>2, <3>1
  <2>4. {x.nid : x \in K} = UNION {Kids(e) : e \in Elems(batch)}
    <3>1. \A k \in DOMAIN batch : {x.nid : x \in KidSegs(k)} = Kids(batch[k])
      BY DEF KidSegs, LeftSegment, RightSegment, Kids
    <3>2. UNION {Kids(e) : e \in Elems(batch)} = UNION {Kids(batch[k]) : k \in DOMAIN batch}
      BY DEF Elems
    <3>3. {x.nid : x \in K} = UNION {{x.nid : x \in KidSegs(k)} : k \in DOMAIN batch}
      OBVIOUS
    <3>4. UNION {{x.nid : x \in KidSegs(k)} : k \in DOMAIN batch}
            = UNION {Kids(batch[k]) : k \in DOMAIN batch}
      BY <3>1
    <3> QED BY <3>2, <3>3, <3>4
  <2> QED BY <2>1, <2>2, <2>3, <2>4
<1>20. \A x \in Waiting' : OneSide(x, side[x.begin])
  <2>1. \A x \in Waiting : OneSide(x, side[x.begin])
    BY <1>1 DEF SideInv
  <2>2. \A x \in K : OneSide(x, side[x.begin])
    <3> SUFFICES ASSUME NEW x \in K PROVE OneSide(x, side[x.begin])
      OBVIOUS
    <3>1. PICK k \in DOMAIN batch : x \in KidSegs(k)
      OBVIOUS
    <3>2. OneSide(x, cur) /\ x.begin \in Span(x.begin, x.len)
      BY <1>9, <3>1
    <3> QED BY <3>2 DEF OneSide
  <2>3. \A x : OneSide(Segment(x), side[Segment(x).begin]) <=> OneSide(x, side[x.begin])
    BY DEF OneSide, Segment
  <2>4. \A x \in Waiting' : x \in Waiting \/ Segment(x) \in Waiting \cup K \/ x \in K
    BY <1>2 DEF Waiting
  <2> HIDE DEF K
  <2> QED BY <2>1, <2>2, <2>3, <2>4
<1>21. Live' = {Holding(x, RowSet(x)) : x \in Waiting \cup UNION {KidSegs(k) : k \in DOMAIN batch}}
  BY <1>6 DEF H, K
<1> HIDE DEF H, K, P
<1> QED BY <1>17, <1>18, <1>19, <1>20, <1>21

-----------------------------------------------------------------------------
(* Building the histograms of a batch. *)

(* The segments of the children of some candidates.                        *)
LEMMA KidsListed ==
  ASSUME IInv, pc = "build", NEW s \in Seq(DOMAIN batch)
  PROVE  LET p == [i \in 1 .. 2 * Len(s) |-> SegmentAt(i, s[CandidateAt(i)])]
         IN p \in Seq(Segs) /\ Elems(p) = UNION {KidSegs(k) : k \in Elems(s)}
<1> DEFINE p == [i \in 1 .. 2 * Len(s) |-> SegmentAt(i, s[CandidateAt(i)])]
<1>1. PICK n \in Nat : n = Len(s) /\ DOMAIN s = 1 .. n /\ \A j \in 1 .. n : s[j] \in DOMAIN batch
  OBVIOUS
<1>2. /\ \A i \in 1 .. 2 * n : CandidateAt(i) \in 1 .. n
      /\ \A j \in 1 .. n : /\ 2 * j \in 1 .. 2 * n /\ 2 * j - 1 \in 1 .. 2 * n
                           /\ CandidateAt(2 * j - 1) = j /\ (2 * j - 1) % 2 = 1
                           /\ CandidateAt(2 * j) = j /\ (2 * j) % 2 # 1
  BY PairAt
<1>3. \A k \in DOMAIN batch : LeftSegment(k) \in Segs /\ RightSegment(k) \in Segs
  BY KidsAre
<1>4. \A i \in 1 .. 2 * n : SegmentAt(i, s[CandidateAt(i)]) \in KidSegs(s[CandidateAt(i)])
  BY DEF SegmentAt, KidSegs
<1>5. \A i \in 1 .. 2 * n : SegmentAt(i, s[CandidateAt(i)]) \in Segs
  BY <1>1, <1>2, <1>3, <1>4 DEF KidSegs
<1>6. p = [i \in 1 .. 2 * n |-> SegmentAt(i, s[CandidateAt(i)])] /\ 2 * n \in Nat
  BY <1>1
<1>7. p \in Seq(Segs) /\ DOMAIN p = 1 .. 2 * n
      /\ \A i \in 1 .. 2 * n : p[i] = SegmentAt(i, s[CandidateAt(i)])
  <2> HIDE DEF p
  <2> DEFINE F(i) == SegmentAt(i, s[CandidateAt(i)])
  <2>1. p = [i \in 1 .. 2 * n |-> F(i)] /\ \A i \in 1 .. 2 * n : F(i) \in Segs
    BY <1>5, <1>6
  <2> HIDE DEF F
  <2>2. p \in Seq(Segs) /\ DOMAIN p = 1 .. 2 * n /\ \A i \in 1 .. 2 * n : p[i] = F(i)
    BY <1>6, <2>1
  <2> QED BY <2>2 DEF F
<1> HIDE DEF p
<1>8. ASSUME NEW i \in 1 .. 2 * n PROVE p[i] \in UNION {KidSegs(k) : k \in Elems(s)}
  <2>1. s[CandidateAt(i)] \in Elems(s)
    BY <1>1, <1>2 DEF Elems
  <2> QED BY <1>4, <1>7, <2>1
<1>9. ASSUME NEW k \in Elems(s) PROVE \A x \in KidSegs(k) : x \in Elems(p)
  <2>1. PICK j \in 1 .. n : k = s[j]
    BY <1>1 DEF Elems
  <2>2. p[2 * j - 1] = LeftSegment(k) /\ p[2 * j] = RightSegment(k)
    <3>1. /\ 2 * j \in 1 .. 2 * n /\ 2 * j - 1 \in 1 .. 2 * n
          /\ CandidateAt(2 * j - 1) = j /\ (2 * j - 1) % 2 = 1
          /\ CandidateAt(2 * j) = j /\ (2 * j) % 2 # 1
      BY <1>2
    <3> QED BY <1>7, <2>1, <3>1 DEF SegmentAt
  <2>3. p[2 * j - 1] \in Elems(p) /\ p[2 * j] \in Elems(p)
    BY <1>2, <1>7 DEF Elems
  <2> QED BY <2>2, <2>3 DEF KidSegs
<1>10. Elems(p) = UNION {KidSegs(k) : k \in Elems(s)}
  <2>1. \A x \in Elems(p) : x \in UNION {KidSegs(k) : k \in Elems(s)}
    BY <1>7, <1>8 DEF Elems
  <2> QED BY <1>9, <2>1
<1> QED BY <1>7, <1>10 DEF p

(* What the kernel leaves in a buffer: the rows of each child it builds.   *)
Wrote(t, jobs, late, rows) ==
  [t.pool EXCEPT ![t.buf] = [s \in DOMAIN @ |->
                               IF \E j \in jobs \ late : s = t.base + 2 * (j - 1)
                               THEN Built(@[s], rows[1 + (s - t.base) \div 2])
                               ELSE @[s]]]

(* Each slot that is built counts the rows of its child.                   *)
LEMMA BuiltSlots ==
  ASSUME NEW m \in Nat \ {0}, NEW t, Taken(t, 2 * m, arena, Held), NEW rows,
         NEW late, atomic_free \in BOOLEAN, NEW w, w = Wrote(t, 1 .. m, late, rows)
  PROVE  /\ w \in Seq(Slots) /\ DOMAIN w = DOMAIN t.pool
         /\ \A c \in DOMAIN t.pool : DOMAIN w[c] = DOMAIN t.pool[c]
         /\ \A j \in (1 .. m) \ late : w[t.buf][t.base + 2 * (j - 1)] = Counts(rows[j])
         /\ \A c \in DOMAIN t.pool : \A s \in DOMAIN t.pool[c] :
              (c = t.buf => s < t.base \/ s >= t.base + 2 * m) => w[c][s] = t.pool[c][s]
<1> DEFINE old == t.pool[t.buf]
           IsBuilt(s) == \E j \in (1 .. m) \ late : s = t.base + 2 * (j - 1)
           g == [s \in DOMAIN old |-> IF IsBuilt(s) THEN Built(old[s], rows[1 + (s - t.base) \div 2])
                                      ELSE old[s]]
<1>1. /\ t.pool \in Seq(Slots) /\ t.buf \in DOMAIN t.pool /\ t.base \in Nat
      /\ t.base .. t.base + 2 * m - 1 \subseteq DOMAIN old
      /\ ~atomic_free => \A s \in t.base .. t.base + 2 * m - 1 : old[s] = Zero
  BY DEF Taken
<1>2. w = [t.pool EXCEPT ![t.buf] = g]
  BY DEF Wrote
<1>3. old \in Slots
  BY <1>1
<1> HIDE DEF old
<1>4. PICK n \in Nat \ {0} : old \in [0 .. n - 1 -> Sums] /\ DOMAIN old = 0 .. n - 1
  BY <1>3, SlotsAre
<1>5. ASSUME NEW j \in 1 .. m
      PROVE  /\ t.base + 2 * (j - 1) \in t.base .. t.base + 2 * m - 1
             /\ 1 + ((t.base + 2 * (j - 1)) - t.base) \div 2 = j
  <2>1. ((j - 1) * 2 + 0) \div 2 = j - 1
    <3>1. j - 1 \in Nat /\ 2 \in Nat \ {0} /\ 0 \in 0 .. 2 - 1
      OBVIOUS
    <3> QED BY <3>1, DivOf
  <2>2. (t.base + 2 * (j - 1)) - t.base = (j - 1) * 2 + 0
    BY <1>1
  <2>3. 1 + ((t.base + 2 * (j - 1)) - t.base) \div 2 = j
    BY <2>1, <2>2
  <2>4. t.base + 2 * (j - 1) \in t.base .. t.base + 2 * m - 1
    BY <1>1
  <2> QED BY <2>3, <2>4
<1>6. \A s \in DOMAIN old : IsBuilt(s) =>
        Built(old[s], rows[1 + (s - t.base) \div 2]) = Counts(rows[1 + (s - t.base) \div 2])
  <2> SUFFICES ASSUME NEW s \in DOMAIN old, NEW j \in (1 .. m) \ late, s = t.base + 2 * (j - 1)
               PROVE  Built(old[s], rows[1 + (s - t.base) \div 2])
                        = Counts(rows[1 + (s - t.base) \div 2])
    OBVIOUS
  <2>1. ~atomic_free => old[s] = Zero
    BY <1>1, <1>5
  <2> QED BY <2>1, BuiltIs
<1>7. g \in [DOMAIN old -> Sums]
  <2>1. \A s \in DOMAIN old : old[s] \in Sums
    BY <1>4
  <2> HIDE DEF IsBuilt
  <2> QED BY <1>6, <2>1, SumsAre
<1>8. /\ \A j \in (1 .. m) \ late : g[t.base + 2 * (j - 1)] = Counts(rows[j])
      /\ \A s \in DOMAIN old : s < t.base \/ s >= t.base + 2 * m => g[s] = old[s]
  <2>1. ASSUME NEW j \in (1 .. m) \ late PROVE g[t.base + 2 * (j - 1)] = Counts(rows[j])
    <3>1. PICK s : s = t.base + 2 * (j - 1)
      OBVIOUS
    <3>2. s \in DOMAIN old /\ 1 + (s - t.base) \div 2 = j
      BY <1>1, <1>5, <3>1
    <3>3. IsBuilt(s)
      BY <3>1
    <3> HIDE DEF IsBuilt
    <3>4. g[s] = Built(old[s], rows[1 + (s - t.base) \div 2])
      BY <3>2, <3>3
    <3>5. g[s] = Counts(rows[1 + (s - t.base) \div 2])
      BY <1>6, <3>2, <3>3, <3>4
    <3> HIDE DEF g
    <3> QED BY <3>1, <3>2, <3>5
  <2>2. ASSUME NEW s \in DOMAIN old, s < t.base \/ s >= t.base + 2 * m PROVE g[s] = old[s]
    <3>1. s \in Int
      BY <1>4
    <3>2. ~IsBuilt(s)
      <4> SUFFICES ASSUME NEW j \in 1 .. m, s = t.base + 2 * (j - 1) PROVE FALSE
        OBVIOUS
      <4>1. t.base + 2 * (j - 1) >= t.base /\ t.base + 2 * (j - 1) < t.base + 2 * m
        BY <1>1
      <4> QED BY <1>1, <2>2, <3>1, <4>1
    <3> HIDE DEF IsBuilt
    <3> QED BY <3>2
  <2> QED BY <2>1, <2>2
<1> HIDE DEF g
<1>9. /\ w \in Seq(Slots) /\ DOMAIN w = DOMAIN t.pool /\ w[t.buf] = g
      /\ \A c \in DOMAIN t.pool : DOMAIN w[c] = DOMAIN t.pool[c] /\ (c # t.buf => w[c] = t.pool[c])
  <2>1. PICK pool, b : pool = t.pool /\ b = t.buf
    OBVIOUS
  <2>2. pool \in Seq(Slots) /\ b \in DOMAIN pool /\ g \in [DOMAIN pool[b] -> Sums]
    BY <1>1, <1>7, <2>1 DEF old
  <2>3. LET x == [pool EXCEPT ![b] = g]
        IN /\ x \in Seq(Slots) /\ DOMAIN x = DOMAIN pool /\ x[b] = g
           /\ \A c \in DOMAIN pool : /\ DOMAIN x[c] = DOMAIN pool[c]
                                     /\ c # b => x[c] = pool[c]
    BY <2>2, Written
  <2>4. w = [pool EXCEPT ![b] = g]
    BY <1>2, <2>1
  <2> QED BY <2>1, <2>3, <2>4
<1> QED BY <1>8, <1>9 DEF old

(* The children as they are listed, two slots for each candidate.          *)
SlotFor(i, base, right) ==
  base + 2 * (CandidateAt(i) - 1) + (IF (i % 2 = 1) <=> (CandidateAt(i) \in right) THEN 1 ELSE 0)
EntryAt(i, buf, base, right) ==
  ChildEntry(expandable[CandidateAt(i)], SegmentAt(i, expandable[CandidateAt(i)]), buf,
             SlotFor(i, base, right))
KidEntries(m, buf, base, right) == [i \in 1 .. 2 * m |-> EntryAt(i, buf, base, right)]
BuiltKid(j, right) ==
  IF j \in right THEN RightSegment(expandable[j]) ELSE LeftSegment(expandable[j])

(* What building the histograms of m candidates does.                      *)
BuildSlots(m, buf, base) ==
  /\ frontiers' \in Seq(Slots) /\ arena' \in Arenas /\ ArenaOk(arena', frontiers')
  /\ buf \in Nat /\ base \in Nat /\ arena'.buf = buf /\ arena'.next = base + 2 * m
  /\ buf \in DOMAIN frontiers' /\ base .. base + 2 * m - 1 \subseteq DOMAIN frontiers'[buf]
  /\ \A e \in Elems(queue) \cup Elems(batch) :
       /\ e.buf \in DOMAIN frontiers' /\ e.slot \in DOMAIN frontiers'[e.buf]
       /\ frontiers'[e.buf][e.slot] = frontiers[e.buf][e.slot]
       /\ e.buf = buf => e.slot < base
BuildKids(m, buf, base, right) ==
  /\ children' = KidEntries(m, buf, base, right)
  /\ \A j \in 1 .. m :
       (IF j \in DOMAIN pending' THEN pending'[j] ELSE frontiers'[buf][base + 2 * (j - 1)])
         = Counts(RowSet(BuiltKid(j, right)))

(* What is done with the slots that were taken.                            *)
BuildWith(t) ==
  \E right \in SUBSET (DOMAIN expandable),
     late \in (IF atomic_free THEN SUBSET (DOMAIN expandable) ELSE {{}}) :
        LET jobs == DOMAIN expandable
            BuiltSlot(j) == t.base + 2 * (j - 1)
            built == [j \in jobs |-> IF j \in right THEN RightSegment(expandable[j])
                                     ELSE LeftSegment(expandable[j])]
            rows == [j \in jobs |-> RowsOf(cur, built[j].begin, built[j].len)]
            IsSibling(i) == (i % 2 = 1) <=> (CandidateAt(i) \in right)
            SlotAt(i) == BuiltSlot(CandidateAt(i)) + (IF IsSibling(i) THEN 1 ELSE 0)
        IN /\ pending' = [j \in late |-> Counts(rows[j])]
           /\ frontiers' = [t.pool EXCEPT ![t.buf] =
                [s \in DOMAIN @ |->
                   IF \E j \in jobs \ late : s = BuiltSlot(j)
                   THEN Built(@[s], rows[1 + (s - t.base) \div 2])
                   ELSE @[s]]]
           /\ children' = [i \in 1 .. 2 * Len(expandable) |->
                LET k == expandable[CandidateAt(i)]
                IN ChildEntry(k, SegmentAt(i, k), t.buf, SlotAt(i))]
           /\ arena' = t.arena

(* What BuildHists does, by name.                                          *)
LEMMA BuildIs ==
  ASSUME IInv, BuildHists, expandable # <<>>
  PROVE  \E buf, base, right : BuildSlots(Len(expandable), buf, base)
                               /\ BuildKids(Len(expandable), buf, base, right)
<1>1. TypeInv /\ SlotInv /\ SideInv /\ PhaseInv
  BY DEF IInv
<1>2. /\ pc = "build" /\ frontiers \in Seq(Slots) /\ arena \in Arenas /\ atomic_free \in BOOLEAN
      /\ ArenaOk(arena, frontiers) /\ expandable \in Seq(DOMAIN batch) /\ queue \in Seq(Entries)
      /\ batch \in Seq(Entries) /\ bufs' = bufs /\ side' = side /\ atomic_free' = atomic_free
  BY <1>1 DEF TypeInv, SlotInv, BuildHists, partitioner
<1>3. PICK m \in Nat \ {0} : m = Len(expandable) /\ DOMAIN expandable = 1 .. m
  <2>1. Len(expandable) # 0
    BY <1>2
  <2> QED BY <1>2, <2>1
<1>4. PICK t : t = TakeSlots(2 * Len(expandable), arena, Held)
  OBVIOUS
<1>5. Taken(t, 2 * m, arena, Held)
  <2>1. 2 * m \in Nat \ {0}
    OBVIOUS
  <2> QED BY <1>2, <1>3, <1>4, <2>1, SlotsTaken
<1>a. BuildWith(t)
  <2>1. BuildWith(TakeSlots(2 * Len(expandable), arena, Held))
    BY DEF BuildHists, BuildWith
  <2> QED BY <1>4, <2>1
<1>6. PICK right \in SUBSET (DOMAIN expandable),
           late \in (IF atomic_free THEN SUBSET (DOMAIN expandable) ELSE {{}}) :
        LET jobs == DOMAIN expandable
            BuiltSlot(j) == t.base + 2 * (j - 1)
            built == [j \in jobs |-> IF j \in right THEN RightSegment(expandable[j])
                                     ELSE LeftSegment(expandable[j])]
            rows == [j \in jobs |-> RowsOf(cur, built[j].begin, built[j].len)]
            IsSibling(i) == (i % 2 = 1) <=> (CandidateAt(i) \in right)
            SlotAt(i) == BuiltSlot(CandidateAt(i)) + (IF IsSibling(i) THEN 1 ELSE 0)
        IN /\ pending' = [j \in late |-> Counts(rows[j])]
           /\ frontiers' = [t.pool EXCEPT ![t.buf] =
                [s \in DOMAIN @ |->
                   IF \E j \in jobs \ late : s = BuiltSlot(j)
                   THEN Built(@[s], rows[1 + (s - t.base) \div 2])
                   ELSE @[s]]]
           /\ children' = [i \in 1 .. 2 * Len(expandable) |->
                LET k == expandable[CandidateAt(i)]
                IN ChildEntry(k, SegmentAt(i, k), t.buf, SlotAt(i))]
           /\ arena' = t.arena
  BY <1>a DEF BuildWith
<1>7. PICK rows : rows = [j \in DOMAIN expandable |->
                            RowsOf(cur,
                                   [i \in DOMAIN expandable |-> IF i \in right THEN RightSegment(expandable[i])
                                      ELSE LeftSegment(expandable[i])][j].begin,
                                   [i \in DOMAIN expandable |-> IF i \in right THEN RightSegment(expandable[i])
                                      ELSE LeftSegment(expandable[i])][j].len)]
  OBVIOUS
<1>8. /\ pending' = [j \in late |-> Counts(rows[j])]
      /\ frontiers' = Wrote(t, 1 .. m, late, rows)
      /\ children' = [i \in 1 .. 2 * m |-> EntryAt(i, t.buf, t.base, right)]
      /\ arena' = t.arena
  <2>1. pending' = [j \in late |-> Counts(rows[j])]
    BY <1>6, <1>7
  <2>2. frontiers' = Wrote(t, DOMAIN expandable, late, rows)
    BY <1>6, <1>7 DEF Wrote
  <2>3. children' = [i \in 1 .. 2 * Len(expandable) |-> EntryAt(i, t.buf, t.base, right)]
    BY <1>6 DEF EntryAt, SlotFor
  <2>4. arena' = t.arena
    BY <1>6
  <2> QED BY <1>3, <2>1, <2>2, <2>3, <2>4
<1>9. ASSUME NEW j \in 1 .. m PROVE rows[j] = RowSet(BuiltKid(j, right))
  <2>1. PICK k \in DOMAIN batch : k = expandable[j]
    BY <1>2, <1>3
  <2>2. \A s \in KidSegs(k) : side[s.begin] = cur
    <3>1. ASSUME NEW s, s = LeftSegment(k) \/ s = RightSegment(k) PROVE side[s.begin] = cur
      <4>1. OneSide(s, cur) /\ s.begin \in Span(s.begin, s.len)
        BY <1>2, <3>1, KidsAre DEF Around
      <4> QED BY <4>1 DEF OneSide
    <3> QED BY <3>1 DEF KidSegs
  <2>3. BuiltKid(j, right) \in KidSegs(k)
    BY <2>1 DEF BuiltKid, KidSegs
  <2>4. PICK s : s = BuiltKid(j, right)
    OBVIOUS
  <2>5. rows[j] = RowsOf(cur, s.begin, s.len)
    BY <1>3, <1>7, <2>4 DEF BuiltKid
  <2> QED BY <2>2, <2>3, <2>4, <2>5 DEF RowSet
<1>10. /\ frontiers' \in Seq(Slots) /\ DOMAIN frontiers' = DOMAIN t.pool
       /\ \A c \in DOMAIN t.pool : DOMAIN frontiers'[c] = DOMAIN t.pool[c]
       /\ \A j \in (1 .. m) \ late : frontiers'[t.buf][t.base + 2 * (j - 1)] = Counts(rows[j])
       /\ \A c \in DOMAIN t.pool : \A s \in DOMAIN t.pool[c] :
            (c = t.buf => s < t.base \/ s >= t.base + 2 * m) => frontiers'[c][s] = t.pool[c][s]
  <2>1. PICK w : w = frontiers'
    OBVIOUS
  <2>2. w = Wrote(t, 1 .. m, late, rows)
    BY <1>8, <2>1
  <2>3. /\ w \in Seq(Slots) /\ DOMAIN w = DOMAIN t.pool
        /\ \A c \in DOMAIN t.pool : DOMAIN w[c] = DOMAIN t.pool[c]
        /\ \A j \in (1 .. m) \ late : w[t.buf][t.base + 2 * (j - 1)] = Counts(rows[j])
        /\ \A c \in DOMAIN t.pool : \A s \in DOMAIN t.pool[c] :
             (c = t.buf => s < t.base \/ s >= t.base + 2 * m) => w[c][s] = t.pool[c][s]
    BY <1>2, <1>5, <2>2, BuiltSlots
  <2> QED BY <2>1, <2>3
<1>11. /\ t.buf \in DOMAIN t.pool /\ t.buf \in Nat \ {0} /\ t.base \in Nat
       /\ t.base .. t.base + 2 * m - 1 \subseteq DOMAIN t.pool[t.buf]
       /\ t.arena \in Arenas /\ t.arena.buf = t.buf /\ t.arena.next = t.base + 2 * m
       /\ ArenaOk(t.arena, t.pool)
       /\ \A b \in DOMAIN frontiers \cap Held : \A s \in DOMAIN frontiers[b] :
            (b = arena.buf => s < arena.next) => Kept(t, b, s)
  BY <1>5 DEF Taken
<1>12. ArenaOk(arena', frontiers')
  <2>1. \A s \in t.arena.next .. t.arena.slots - 1 :
          s \in 0 .. t.arena.slots - 1 /\ s >= t.base + 2 * m
    BY <1>11 DEF Arenas
  <2>2. ~atomic_free =>
          \A s \in t.arena.next .. t.arena.slots - 1 : frontiers'[t.buf][s] = Zero
    <3>1. t.arena.buf # 0 /\ 0 .. t.arena.slots - 1 \subseteq DOMAIN t.pool[t.buf]
      BY <1>11 DEF ArenaOk
    <3>2. ~atomic_free =>
            \A s \in t.arena.next .. t.arena.slots - 1 : t.pool[t.buf][s] = Zero
      BY <1>11 DEF ArenaOk
    <3> QED BY <1>10, <1>11, <2>1, <3>1, <3>2
  <2> QED BY <1>2, <1>8, <1>10, <1>11, <2>2 DEF ArenaOk
<1>13. ASSUME NEW e \in Elems(queue) \cup Elems(batch)
       PROVE  /\ e.buf \in DOMAIN frontiers' /\ e.slot \in DOMAIN frontiers'[e.buf]
              /\ frontiers'[e.buf][e.slot] = frontiers[e.buf][e.slot]
              /\ e.buf = t.buf => e.slot < t.base
  <2>1. /\ e.buf \in DOMAIN frontiers /\ e.slot \in DOMAIN frontiers[e.buf]
        /\ e.buf = arena.buf => e.slot < arena.next
    BY <1>1, <1>2 DEF SlotInv, Handles, Parents, InBatch
  <2>2. e.buf \in Held
    BY DEF Held
  <2>3. Kept(t, e.buf, e.slot)
    BY <1>11, <2>1, <2>2
  <2> QED BY <1>10, <2>3 DEF Kept
<1>14. BuildSlots(m, t.buf, t.base)
  <2>1. arena' \in Arenas /\ arena'.buf = t.buf /\ arena'.next = t.base + 2 * m
    BY <1>8, <1>11
  <2>2. /\ t.buf \in DOMAIN frontiers' /\ t.buf \in Nat
        /\ t.base .. t.base + 2 * m - 1 \subseteq DOMAIN frontiers'[t.buf]
    BY <1>10, <1>11
  <2> QED BY <1>10, <1>11, <1>12, <1>13, <2>1, <2>2 DEF BuildSlots
<1>15. BuildKids(m, t.buf, t.base, right)
  <2>1. \A j \in 1 .. m :
          (IF j \in DOMAIN pending' THEN pending'[j] ELSE frontiers'[t.buf][t.base + 2 * (j - 1)])
            = Counts(RowSet(BuiltKid(j, right)))
    BY <1>8, <1>9, <1>10
  <2> QED BY <1>8, <2>1 DEF BuildKids, KidEntries
<1> QED BY <1>3, <1>14, <1>15

(* The entries of the children.                                            *)
EntryOf(x, seg, buf, slot) ==
  /\ Segment(x) = seg /\ x.nid = seg.nid /\ x.begin = seg.begin /\ x.len = seg.len
  /\ x.buf = buf /\ x.slot = slot

ChildEntries(c, m, buf, base, right) ==
  /\ c \in Seq(Entries) /\ Len(c) = 2 * m /\ DOMAIN c = 1 .. 2 * m /\ Once(c)
  /\ {Segment(x) : x \in Elems(c)} = UNION {KidSegs(k) : k \in Elems(expandable)}
  /\ \A x \in Elems(c) : /\ x.buf = buf /\ x.slot \in base .. base + 2 * m - 1
                         /\ \E k \in Elems(expandable) : /\ Segment(x) \in KidSegs(k)
                                                         /\ x.depth = batch[k].depth + 1
  /\ \A j \in 1 .. m :
       LET first == base + 2 * (j - 1)
       IN /\ EntryOf(c[2 * j - 1], LeftSegment(expandable[j]), buf,
                       IF j \in right THEN first + 1 ELSE first)
          /\ EntryOf(c[2 * j], RightSegment(expandable[j]), buf,
                       IF j \in right THEN first ELSE first + 1)

(* The children that are listed, two for each candidate that expands.      *)
LEMMA ChildrenAre ==
  ASSUME IInv, pc = "build", NEW m \in Nat, m = Len(expandable), NEW buf \in Nat,
         NEW base \in Nat, NEW right, NEW c, c = KidEntries(m, buf, base, right)
  PROVE  ChildEntries(c, m, buf, base, right)
<1>1. TypeInv /\ PhaseInv
  BY DEF IInv
<1>2. /\ expandable \in Seq(DOMAIN batch) /\ batch \in Seq(Entries)
      /\ \A j, k \in DOMAIN expandable : expandable[j] = expandable[k] => j = k
  BY <1>1 DEF TypeInv, PhaseInv
<1>3. DOMAIN expandable = 1 .. m /\ \A j \in 1 .. m : expandable[j] \in DOMAIN batch
  BY <1>2
<1>4. /\ \A i \in 1 .. 2 * m : /\ CandidateAt(i) \in 1 .. m
                               /\ i % 2 = 1 => i = 2 * CandidateAt(i) - 1
                               /\ i % 2 # 1 => i = 2 * CandidateAt(i)
      /\ \A j \in 1 .. m : /\ 2 * j \in 1 .. 2 * m /\ 2 * j - 1 \in 1 .. 2 * m
                           /\ CandidateAt(2 * j - 1) = j /\ (2 * j - 1) % 2 = 1
                           /\ CandidateAt(2 * j) = j /\ (2 * j) % 2 # 1
  BY PairAt
<1> DEFINE p == [i \in 1 .. 2 * Len(expandable) |-> SegmentAt(i, expandable[CandidateAt(i)])]
<1>5. p \in Seq(Segs) /\ Elems(p) = UNION {KidSegs(k) : k \in Elems(expandable)}
  BY <1>2, KidsListed
<1>6. /\ DOMAIN p = 1 .. 2 * m /\ Len(p) = 2 * m
      /\ \A i \in 1 .. 2 * m : p[i] = SegmentAt(i, expandable[CandidateAt(i)]) /\ p[i] \in Segs
  <2>1. p = [i \in 1 .. 2 * m |-> SegmentAt(i, expandable[CandidateAt(i)])]
    OBVIOUS
  <2>2. /\ DOMAIN p = 1 .. 2 * m
        /\ \A i \in 1 .. 2 * m : p[i] = SegmentAt(i, expandable[CandidateAt(i)])
    BY <2>1
  <2> HIDE DEF p
  <2>3. 2 * m \in Nat
    OBVIOUS
  <2>4. Len(p) = 2 * m
    BY <1>5, <2>2, <2>3
  <2> QED BY <1>5, <2>2
<1> HIDE DEF p
<1>7. \A i \in 1 .. 2 * m : c[i] = EntryAt(i, buf, base, right)
  BY DEF KidEntries
<1>8. DOMAIN c = 1 .. 2 * m /\ c = [i \in 1 .. 2 * m |-> c[i]]
  BY DEF KidEntries
<1>9. ASSUME NEW i \in 1 .. 2 * m
      PROVE  /\ EntryOf(c[i], p[i], buf, SlotFor(i, base, right))
             /\ c[i].depth = batch[expandable[CandidateAt(i)]].depth + 1
             /\ SlotFor(i, base, right) \in base .. base + 2 * m - 1 /\ c[i] \in Entries
  <2>1. PICK k, s, t : /\ k = expandable[CandidateAt(i)] /\ s = p[i]
                       /\ t = SlotFor(i, base, right)
    OBVIOUS
  <2>2. s = SegmentAt(i, k) /\ s \in Segs /\ k \in DOMAIN batch
    BY <1>3, <1>4, <1>6, <2>1
  <2>3. c[i] = ChildEntry(k, s, buf, t)
    BY <1>7, <2>1, <2>2 DEF EntryAt
  <2>4. c[i] = [nid |-> s.nid, depth |-> batch[k].depth + 1, begin |-> s.begin, len |-> s.len,
                buf |-> buf, slot |-> t, gain |-> 0, rule |-> {}]
    BY <2>3 DEF ChildEntry
  <2>5. t \in base .. base + 2 * m - 1
    <3>1. CandidateAt(i) \in 1 .. m
      BY <1>4
    <3>2. PICK a \in 1 .. m : a = CandidateAt(i)
      BY <3>1
    <3>3. t = base + 2 * (a - 1) \/ t = base + 2 * (a - 1) + 1
      BY <2>1, <3>2 DEF SlotFor
    <3> QED BY <3>3
  <2>6. batch[k].depth \in Nat
    <3>1. batch[k] \in Entries
      BY <1>2, <2>2
    <3> QED BY <3>1 DEF Entries
  <2>7. s.nid \in Nat /\ s.begin \in Positions /\ s.len \in Nat \ {0}
        /\ s = [nid |-> s.nid, begin |-> s.begin, len |-> s.len]
    BY <2>2 DEF Segs
  <2>8. t \in Nat /\ batch[k].depth + 1 \in Nat
    BY <2>5, <2>6
  <2>9. c[i] \in Entries
    BY <2>4, <2>7, <2>8 DEF Entries
  <2>10. EntryOf(c[i], s, buf, t)
    BY <2>4, <2>7 DEF EntryOf, Segment
  <2>11. c[i].depth = batch[k].depth + 1
    BY <2>4
  <2> QED BY <2>1, <2>5, <2>9, <2>10, <2>11
<1>10. c \in Seq(Entries) /\ Len(c) = 2 * m
  <2>1. 2 * m \in Nat /\ \A i \in 1 .. 2 * m : c[i] \in Entries
    BY <1>9
  <2>2. c = [i \in 1 .. 2 * m |-> c[i]]
    BY <1>8
  <2> QED BY <2>1, <2>2
<1>11. {Segment(x) : x \in Elems(c)} = Elems(p)
  <2>1. \A i \in 1 .. 2 * m : Segment(c[i]) = p[i]
    BY <1>9 DEF EntryOf
  <2> QED BY <1>6, <1>8, <2>1 DEF Elems
<1>12. \A i \in 1 .. 2 * m : p[i] \in KidSegs(expandable[CandidateAt(i)])
  BY <1>6 DEF SegmentAt, KidSegs
<1>13. Once(c)
  <2> SUFFICES ASSUME NEW i \in 1 .. 2 * m, NEW j \in 1 .. 2 * m, c[i].nid = c[j].nid
               PROVE  i = j
    BY <1>8 DEF Once
  <2>1. p[i].nid = p[j].nid
    BY <1>9 DEF EntryOf
  <2>2. PICK a \in 1 .. m, b \in 1 .. m : a = CandidateAt(i) /\ b = CandidateAt(j)
    BY <1>4
  <2>3. expandable[a] = expandable[b]
    <3>1. expandable[a] \in DOMAIN batch /\ expandable[b] \in DOMAIN batch
      BY <1>3
    <3>2. p[i] \in KidSegs(expandable[a]) /\ p[j] \in KidSegs(expandable[b])
      BY <1>12, <2>2
    <3> QED BY <2>1, <3>1, <3>2, KidsApart
  <2>4. a = b
    BY <1>2, <1>3, <2>3
  <2>5. (i % 2 = 1) <=> (j % 2 = 1)
    <3>1. PICK k \in DOMAIN batch : k = expandable[a]
      BY <1>3
    <3>2. LeftSegment(k).nid # RightSegment(k).nid
      BY KidsAre
    <3>3. p[i] = SegmentAt(i, k) /\ p[j] = SegmentAt(j, k)
      BY <1>6, <2>2, <2>4, <3>1
    <3> QED BY <2>1, <3>2, <3>3 DEF SegmentAt
  <2>6. CASE i % 2 = 1
    <3>1. i = 2 * CandidateAt(i) - 1
      BY <1>4, <2>6
    <3>2. j = 2 * CandidateAt(j) - 1
      BY <1>4, <2>5, <2>6
    <3> QED BY <2>2, <2>4, <3>1, <3>2
  <2>7. CASE i % 2 # 1
    <3>1. i = 2 * CandidateAt(i)
      BY <1>4, <2>7
    <3>2. j = 2 * CandidateAt(j)
      BY <1>4, <2>5, <2>7
    <3> QED BY <2>2, <2>4, <3>1, <3>2
  <2> QED BY <2>6, <2>7
<1>14. ASSUME NEW x \in Elems(c)
       PROVE  /\ x.buf = buf /\ x.slot \in base .. base + 2 * m - 1
              /\ \E k \in Elems(expandable) : /\ Segment(x) \in KidSegs(k)
                                              /\ x.depth = batch[k].depth + 1
  <2>1. PICK i \in 1 .. 2 * m : x = c[i]
    BY <1>8 DEF Elems
  <2>2. expandable[CandidateAt(i)] \in Elems(expandable)
    BY <1>3, <1>4 DEF Elems
  <2>3. Segment(x) \in KidSegs(expandable[CandidateAt(i)])
    BY <1>9, <1>12, <2>1 DEF EntryOf
  <2>4. x.buf = buf /\ x.slot = SlotFor(i, base, right)
    BY <1>9, <2>1 DEF EntryOf
  <2> QED BY <1>9, <2>1, <2>2, <2>3, <2>4
<1>15. ASSUME NEW j \in 1 .. m
       PROVE  LET first == base + 2 * (j - 1)
              IN /\ EntryOf(c[2 * j - 1], LeftSegment(expandable[j]), buf,
                              IF j \in right THEN first + 1 ELSE first)
                 /\ EntryOf(c[2 * j], RightSegment(expandable[j]), buf,
                              IF j \in right THEN first ELSE first + 1)
  <2>1. /\ 2 * j \in 1 .. 2 * m /\ 2 * j - 1 \in 1 .. 2 * m
        /\ CandidateAt(2 * j - 1) = j /\ (2 * j - 1) % 2 = 1
        /\ CandidateAt(2 * j) = j /\ (2 * j) % 2 # 1
    BY <1>4
  <2>2. /\ p[2 * j - 1] = LeftSegment(expandable[j]) /\ p[2 * j] = RightSegment(expandable[j])
    BY <1>6, <2>1 DEF SegmentAt
  <2>3. /\ SlotFor(2 * j - 1, base, right)
             = base + 2 * (j - 1) + (IF j \in right THEN 1 ELSE 0)
        /\ SlotFor(2 * j, base, right) = base + 2 * (j - 1) + (IF j \in right THEN 0 ELSE 1)
    <3>1. SlotFor(2 * j - 1, base, right)
             = base + 2 * (j - 1) + (IF j \in right THEN 1 ELSE 0)
      BY <2>1 DEF SlotFor
    <3>2. SlotFor(2 * j, base, right) = base + 2 * (j - 1) + (IF j \in right THEN 0 ELSE 1)
      BY <2>1 DEF SlotFor
    <3> QED BY <3>1, <3>2
  <2>4. /\ SlotFor(2 * j - 1, base, right)
             = IF j \in right THEN base + 2 * (j - 1) + 1 ELSE base + 2 * (j - 1)
        /\ SlotFor(2 * j, base, right)
             = IF j \in right THEN base + 2 * (j - 1) ELSE base + 2 * (j - 1) + 1
    BY <2>3
  <2>5. /\ EntryOf(c[2 * j - 1], p[2 * j - 1], buf, SlotFor(2 * j - 1, base, right))
        /\ EntryOf(c[2 * j], p[2 * j], buf, SlotFor(2 * j, base, right))
    BY <1>9, <2>1
  <2> QED BY <2>2, <2>4, <2>5
<1> QED BY <1>5, <1>8, <1>10, <1>11, <1>13, <1>14, <1>15 DEF ChildEntries

(* The leaves among the children.                                          *)
LEMMA StayIs ==
  ASSUME IInv, BuildHists
  PROVE  /\ leaf_segments' \in Seq(Segs)
         /\ Elems(leaf_segments') = Elems(leaf_segments)
              \cup UNION {KidSegs(k) : k \in DOMAIN batch \ Elems(expandable)}
<1>1. TypeInv /\ pc = "build"
  BY DEF IInv, BuildHists
<1>2. batch \in Seq(Entries) /\ leaf_segments \in Seq(Segs)
  BY <1>1 DEF TypeInv
<1>3. PICK s : s = Chosen(Numbered(batch), DOMAIN batch \ Elems(expandable))
  OBVIOUS
<1>4. s \in Seq(DOMAIN batch) /\ Elems(s) = DOMAIN batch \ Elems(expandable)
  BY <1>2, <1>3, ChosenPlaces
<1>5. PICK p : p = [i \in 1 .. 2 * Len(s) |-> SegmentAt(i, s[CandidateAt(i)])]
  OBVIOUS
<1>6. leaf_segments' = leaf_segments \o p
  BY <1>3, <1>5 DEF BuildHists
<1>7. p \in Seq(Segs) /\ Elems(p) = UNION {KidSegs(k) : k \in Elems(s)}
  BY <1>1, <1>4, <1>5, KidsListed
<1>8. leaf_segments \o p \in Seq(Segs)
      /\ Elems(leaf_segments \o p) = Elems(leaf_segments) \cup Elems(p)
  BY <1>2, <1>7, Concatenated
<1> QED BY <1>4, <1>6, <1>7, <1>8

(* BuildHists keeps the invariant: the children take the places of the     *)
(* batch.                                                                  *)
LEMMA BuildKeeps ==
  ASSUME IInv, BuildHists
  PROVE  /\ IInv'
         /\ Live' = {Holding(x, RowSet(x)) :
                       x \in Waiting \cup UNION {KidSegs(k) : k \in DOMAIN batch}}
<1>1. /\ TypeInv /\ PhaseInv /\ OnceInv /\ TileInv /\ SideInv /\ LevelInv /\ TreeInv
      /\ CandidateInv /\ SlotInv /\ DealtInv /\ RoutingInv
  BY DEF IInv
<1>2. /\ pc = "build" /\ param' = param /\ atomic_free' = atomic_free /\ trees' = trees
      /\ tree' = tree /\ bufs' = bufs /\ cur' = cur /\ side' = side
      /\ root' = root /\ queue' = queue /\ batch' = batch
      /\ expandable' = expandable /\ todo' = todo /\ left_counts' = left_counts
      /\ num_leaves' = num_leaves
  BY DEF BuildHists, partitioner
<1>3. /\ expandable = <<>> => /\ pc' = "pop" /\ frontiers' = frontiers /\ arena' = arena
                              /\ children' = children
      /\ expandable # <<>> => pc' = "subtract"
  BY DEF BuildHists
<1>4. /\ children = <<>> /\ Elems(children) = {} /\ Waiting = Elems(queue) \cup Elems(leaf_segments)
      /\ \A d \in Waiting : d.begin \in Span(d.begin, d.len)
  BY <1>2, LiveApart, NoElems DEF InBatch
<1>5. /\ expandable \in Seq(DOMAIN batch) /\ batch \in Seq(Entries)
      /\ frontiers \in Seq(Slots) /\ arena \in Arenas
  BY <1>1 DEF TypeInv
<1>6. PICK m \in Nat : m = Len(expandable) /\ DOMAIN expandable = 1 .. m
  BY <1>5
<1>7. /\ leaf_segments' \in Seq(Segs)
      /\ Elems(leaf_segments') = Elems(leaf_segments)
           \cup UNION {KidSegs(k) : k \in DOMAIN batch \ Elems(expandable)}
  BY StayIs
<1>8. \E buf, base, right :
        /\ expandable # <<>> => BuildSlots(m, buf, base) /\ BuildKids(m, buf, base, right)
  BY <1>6, BuildIs
<1>9. PICK buf, base, right :
        expandable # <<>> => BuildSlots(m, buf, base) /\ BuildKids(m, buf, base, right)
  BY <1>8
<1>10. expandable # <<>> =>
         /\ children' \in Seq(Entries) /\ Len(children') = 2 * m /\ DOMAIN children' = 1 .. 2 * m
         /\ Once(children')
         /\ {Segment(x) : x \in Elems(children')} = UNION {KidSegs(k) : k \in Elems(expandable)}
         /\ \A x \in Elems(children') :
              /\ x.buf = buf /\ x.slot \in base .. base + 2 * m - 1
              /\ \E k \in Elems(expandable) : /\ Segment(x) \in KidSegs(k)
                                              /\ x.depth = batch[k].depth + 1
         /\ \A j \in 1 .. m :
              LET first == base + 2 * (j - 1)
              IN /\ EntryOf(children'[2 * j - 1], LeftSegment(expandable[j]), buf,
                            IF j \in right THEN first + 1 ELSE first)
                 /\ EntryOf(children'[2 * j], RightSegment(expandable[j]), buf,
                            IF j \in right THEN first ELSE first + 1)
  <2> SUFFICES ASSUME expandable # <<>> PROVE ChildEntries(children', m, buf, base, right)
    BY DEF ChildEntries
  <2>1. children' = KidEntries(m, buf, base, right) /\ buf \in Nat /\ base \in Nat
    BY <1>9 DEF BuildSlots, BuildKids
  <2>2. PICK c : c = KidEntries(m, buf, base, right)
    OBVIOUS
  <2>3. ChildEntries(c, m, buf, base, right)
    BY <1>2, <1>6, <2>1, <2>2, ChildrenAre
  <2> QED BY <2>1, <2>2, <2>3
<1>11. expandable = <<>> => /\ children' = <<>> /\ Elems(children') = {} /\ Elems(expandable) = {}
                            /\ children' \in Seq(Entries) /\ Once(children')
  BY <1>3, <1>4, NoElems
<1>12. Elems(expandable) \subseteq DOMAIN batch
  BY <1>5, ElemsIn
<1>13. {Segment(x) : x \in Elems(children')} = UNION {KidSegs(k) : k \in Elems(expandable)}
  BY <1>10, <1>11
<1>14. Elems(leaf_segments') \cup {Segment(x) : x \in Elems(children')}
         = Elems(leaf_segments) \cup UNION {KidSegs(k) : k \in DOMAIN batch}
  BY <1>7, <1>12, <1>13
<1>15. pc' \in {"pop", "subtract"}
  BY <1>3
<1>16. /\ Tiles(Live)' /\ RoutingInv' /\ Leaves = {s.nid : s \in Live'}
       /\ \A x \in Waiting' : OneSide(x, side[x.begin])
       /\ Live' = {Holding(x, RowSet(x)) :
                     x \in Waiting \cup UNION {KidSegs(k) : k \in DOMAIN batch}}
  BY <1>2, <1>14, <1>15, KidsLive DEF InBatch
<1>17. TypeInv'
  <2>1. /\ param' \in Params /\ atomic_free' \in BOOLEAN /\ trees' \in 1 .. MaxTrees
        /\ \E n \in Nat \ {0} : tree' \in [0 .. n - 1 -> Nodes]
        /\ bufs' \in [0 .. 1 -> [Positions -> Rows]]
        /\ cur' \in 0 .. 1 /\ side' \in [Positions -> 0 .. 1]
        /\ root' \in Nat /\ queue' \in Seq(Entries)
        /\ batch' \in Seq(Entries) /\ num_leaves' \in Nat
        /\ expandable' \in Seq(DOMAIN batch')
    BY <1>1, <1>2 DEF TypeInv
  <2>2. frontiers' \in Seq(Slots) /\ arena' \in Arenas
    BY <1>3, <1>5, <1>9 DEF BuildSlots
  <2>3. pc' \in Phases
    BY <1>15 DEF Phases
  <2>4. children' \in Seq(Entries)
    BY <1>10, <1>11
  <2> QED BY <1>7, <2>1, <2>2, <2>3, <2>4 DEF TypeInv
<1>18. PhaseInv'
  <2>1. \A i, j \in DOMAIN expandable' : expandable'[i] = expandable'[j] => i = j
    BY <1>1, <1>2 DEF PhaseInv
  <2>2. pc' = "subtract" => expandable' # <<>>
    BY <1>2, <1>3
  <2>3. pc' # "subtract" => children' = <<>>
    BY <1>3, <1>4
  <2> QED BY <1>15, <2>1, <2>2, <2>3 DEF PhaseInv
<1>19. OnceInv'
  <2>1. Once(queue') /\ Once(batch') /\ Once(children')
    BY <1>1, <1>2, <1>10, <1>11 DEF OnceInv
  <2>2. /\ Nids(queue') = {e.nid : e \in Elems(queue)}
        /\ Nids(leaf_segments') = {e.nid : e \in Elems(leaf_segments')}
        /\ Nids(children') = {e.nid : e \in Elems(children')}
        /\ Nids(queue) = {e.nid : e \in Elems(queue)}
        /\ Nids(leaf_segments) = {e.nid : e \in Elems(leaf_segments)}
    BY <1>2, NidsAre
  <2>3. \A x \in Elems(children') : \E k \in Elems(expandable) : \E s \in KidSegs(k) : x.nid = s.nid
    <3> SUFFICES ASSUME NEW x \in Elems(children')
                 PROVE  \E k \in Elems(expandable) : \E s \in KidSegs(k) : x.nid = s.nid
      OBVIOUS
    <3>1. PICK k \in Elems(expandable) : Segment(x) \in KidSegs(k)
      BY <1>10, <1>11
    <3>2. Segment(x).nid = x.nid
      BY DEF Segment
    <3> QED BY <3>1, <3>2
  <2>4. /\ \A j, k \in DOMAIN batch : \A s \in KidSegs(j), t \in KidSegs(k) : j # k => s.nid # t.nid
        /\ \A k \in DOMAIN batch : \A s \in KidSegs(k), d \in Waiting : s.nid # d.nid
    BY <1>2, KidsApart
  <2>5. Nids(queue') \cap Nids(children') = {}
    BY <1>4, <1>12, <2>2, <2>3, <2>4
  <2>6. \A y \in Elems(leaf_segments') :
          y \in Elems(leaf_segments) \/ \E k \in DOMAIN batch \ Elems(expandable) : y \in KidSegs(k)
    BY <1>7
  <2>7. Nids(children') \cap Nids(leaf_segments') = {}
    <3> SUFFICES ASSUME NEW x \in Elems(children'), NEW y \in Elems(leaf_segments')
                 PROVE  x.nid # y.nid
      BY <2>2
    <3>0. PICK k \in Elems(expandable) : \E s \in KidSegs(k) : x.nid = s.nid
      BY <2>3
    <3>1. PICK s \in KidSegs(k) : x.nid = s.nid
      BY <3>0
    <3>2. k \in DOMAIN batch
      BY <1>12
    <3>3. CASE y \in Elems(leaf_segments)
      BY <1>4, <2>4, <3>1, <3>2, <3>3
    <3>4. CASE \E j \in DOMAIN batch \ Elems(expandable) : y \in KidSegs(j)
      BY <2>4, <3>1, <3>2, <3>4
    <3> QED BY <2>6, <3>3, <3>4
  <2>8. Nids(queue) \cap Nids(leaf_segments) = {}
    BY <1>1, <1>2 DEF OnceInv
  <2>9. Nids(queue') \cap Nids(leaf_segments') = {}
    <3> SUFFICES ASSUME NEW x \in Elems(queue), NEW y \in Elems(leaf_segments')
                 PROVE  x.nid # y.nid
      BY <2>2
    <3>1. CASE y \in Elems(leaf_segments)
      BY <2>2, <2>8, <3>1
    <3>2. CASE \E j \in DOMAIN batch \ Elems(expandable) : y \in KidSegs(j)
      BY <1>4, <2>4, <3>2
    <3> QED BY <2>6, <3>1, <3>2
  <2> QED BY <1>15, <2>1, <2>5, <2>7, <2>9 DEF OnceInv, InBatch
<1>20. TileInv'
  BY <1>16 DEF TileInv
<1>21. SideInv'
  <2>1. \A e : OneSide(e, side[e.begin])' <=> OneSide(e, side[e.begin])
    BY <1>2 DEF OneSide
  <2> QED BY <1>15, <1>16, <2>1 DEF SideInv, Dealing
<1>22. ASSUME NEW k \in DOMAIN batch, NEW s \in KidSegs(k)
       PROVE  side[s.begin] = cur
  <2>1. ASSUME NEW t, t = LeftSegment(k) \/ t = RightSegment(k) PROVE side[t.begin] = cur
    <3>1. OneSide(t, cur) /\ t.begin \in Span(t.begin, t.len)
      BY <1>2, <2>1, KidsAre DEF Around
    <3> QED BY <3>1 DEF OneSide
  <2> QED BY <1>22, <2>1 DEF KidSegs
<1>23. LevelInv'
  <2>1. \A d, e \in Elems(batch) : d.depth = e.depth /\ d.buf = e.buf
    BY <1>1, <1>2 DEF LevelInv, Parents, InBatch
  <2>2. param.grow_policy = "DepthWise" => queue = <<>>
    BY <1>1, <1>2 DEF LevelInv, Parents, InBatch
  <2>3. \A d, e \in Elems(children') : Together(d, e)'
    <3> SUFFICES ASSUME NEW d \in Elems(children'), NEW e \in Elems(children')
                 PROVE  Together(d, e)'
      OBVIOUS
    <3>1. expandable # <<>>
      BY <1>11
    <3>2. PICK j \in Elems(expandable) : Segment(d) \in KidSegs(j) /\ d.depth = batch[j].depth + 1
      BY <1>10, <3>1
    <3>3. PICK k \in Elems(expandable) : Segment(e) \in KidSegs(k) /\ e.depth = batch[k].depth + 1
      BY <1>10, <3>1
    <3>4. batch[j].depth = batch[k].depth
      BY <1>12, <2>1 DEF Elems
    <3>5. d.buf = e.buf
      BY <1>10, <3>1
    <3>6. side[d.begin] = cur /\ side[e.begin] = cur
      <4>1. Segment(d).begin = d.begin /\ Segment(e).begin = e.begin
        BY DEF Segment
      <4>2. side[Segment(d).begin] = cur /\ side[Segment(e).begin] = cur
        BY <1>12, <1>22, <3>2, <3>3
      <4> QED BY <4>1, <4>2
    <3> QED BY <1>2, <3>2, <3>3, <3>4, <3>5, <3>6 DEF Together
  <2>4. param.grow_policy = "DepthWise" => Elems(queue) = {}
    BY <2>2, NoElems
  <2> QED BY <1>2, <1>15, <2>1, <2>2, <2>3, <2>4 DEF LevelInv, Parents, InBatch
<1>24. TreeInv'
  <2>1. Linked' /\ Leaves' = Leaves
    BY <1>1, <1>2, SameTree DEF TreeInv
  <2> QED BY <1>15, <1>16, <2>1 DEF TreeInv, Dealing
<1>25. \A e \in Elems(queue) \cup Elems(batch) :
         /\ e.buf \in DOMAIN frontiers' /\ e.slot \in DOMAIN frontiers'[e.buf]
         /\ frontiers'[e.buf][e.slot] = frontiers[e.buf][e.slot]
         /\ e.buf = arena'.buf => e.slot < arena'.next
  <2>1. CASE expandable = <<>>
    BY <1>1, <1>2, <1>3, <2>1 DEF SlotInv, Handles, Parents, InBatch
  <2>2. CASE expandable # <<>>
    <3> SUFFICES ASSUME NEW e \in Elems(queue) \cup Elems(batch)
                 PROVE  /\ e.buf \in DOMAIN frontiers' /\ e.slot \in DOMAIN frontiers'[e.buf]
                        /\ frontiers'[e.buf][e.slot] = frontiers[e.buf][e.slot]
                        /\ e.buf = arena'.buf => e.slot < arena'.next
      OBVIOUS
    <3>1. /\ e.buf \in DOMAIN frontiers' /\ e.slot \in DOMAIN frontiers'[e.buf]
          /\ frontiers'[e.buf][e.slot] = frontiers[e.buf][e.slot]
          /\ e.buf = buf => e.slot < base
          /\ arena'.buf = buf /\ arena'.next = base + 2 * m /\ base \in Nat
      BY <1>9, <2>2 DEF BuildSlots
    <3>2. e.slot \in Nat
      <4>1. e \in Entries
        BY <1>1, ElemsIn DEF TypeInv
      <4> QED BY <4>1 DEF Entries
    <3> QED BY <3>1, <3>2
  <2> QED BY <2>1, <2>2
<1>26. \A x : RowSet(x)' = RowSet(x)
  BY <1>2, SameRows
<1>27. CandidateInv'
  <2>1. \A e \in Elems(queue) : Counted(e, RowSet(e)) /\ Separates(e, RowSet(e))
    BY <1>1 DEF CandidateInv
  <2>2. \A e \in Elems(queue) : Counted(e, RowSet(e))' /\ Separates(e, RowSet(e))'
    BY <1>25, <1>26, <2>1 DEF Counted, Separates
  <2> QED BY <1>2, <1>15, <2>2 DEF CandidateInv, InBatch
<1>28. SlotInv'
  <2>1. ArenaOk(arena, frontiers)'
    <3>1. ArenaOk(arena', frontiers')
      <4>1. CASE expandable = <<>>
        BY <1>1, <1>3, <4>1 DEF SlotInv
      <4>2. CASE expandable # <<>>
        BY <1>9, <4>2 DEF BuildSlots
      <4> QED BY <4>1, <4>2
    <3> QED BY <1>2, <3>1 DEF ArenaOk
  <2>2. \A x \in Elems(children') : /\ x.buf \in DOMAIN frontiers'
                                    /\ x.slot \in DOMAIN frontiers'[x.buf]
                                    /\ x.buf = arena'.buf => x.slot < arena'.next
    <3> SUFFICES ASSUME NEW x \in Elems(children')
                 PROVE  /\ x.buf \in DOMAIN frontiers'
                                    /\ x.slot \in DOMAIN frontiers'[x.buf]
                        /\ x.buf = arena'.buf => x.slot < arena'.next
      OBVIOUS
    <3>1. expandable # <<>>
      BY <1>11
    <3>2. x.buf = buf /\ x.slot \in base .. base + 2 * m - 1
      BY <1>10, <3>1
    <3>3. /\ buf \in DOMAIN frontiers' /\ base .. base + 2 * m - 1 \subseteq DOMAIN frontiers'[buf]
          /\ arena'.next = base + 2 * m /\ base \in Nat
      BY <1>9, <3>1 DEF BuildSlots
    <3> QED BY <3>2, <3>3
  <2>3. Handles' \subseteq Elems(queue) \cup Elems(batch) \cup Elems(children')
    BY <1>2 DEF Handles
  <2> QED BY <1>25, <2>1, <2>2, <2>3 DEF SlotInv
<1>29. DealtInv'
  BY <1>15 DEF DealtInv, Dealing
<1>30. PairInv'
  <2> SUFFICES ASSUME expandable # <<>>, pc' = "subtract" PROVE PairInv'
    BY <1>3 DEF PairInv
  <2>1. /\ Len(children') = 2 * m /\ DOMAIN children' = 1 .. 2 * m
        /\ \A j \in 1 .. m :
             LET first == base + 2 * (j - 1)
             IN /\ EntryOf(children'[2 * j - 1], LeftSegment(expandable[j]), buf,
                           IF j \in right THEN first + 1 ELSE first)
                /\ EntryOf(children'[2 * j], RightSegment(expandable[j]), buf,
                           IF j \in right THEN first ELSE first + 1)
    BY <1>10
  <2>2. /\ base \in Nat /\ arena'.buf = buf
        /\ \A e \in Elems(queue) \cup Elems(batch) :
             /\ frontiers'[e.buf][e.slot] = frontiers[e.buf][e.slot]
             /\ e.buf = buf => e.slot < base
    BY <1>9 DEF BuildSlots
  <2>3. \A j \in 1 .. m :
          (IF j \in DOMAIN pending' THEN pending'[j] ELSE frontiers'[buf][base + 2 * (j - 1)])
            = Counts(RowSet(BuiltKid(j, right)))
    BY <1>9 DEF BuildKids
  <2>4. m >= 1
    BY <1>5, <1>6
  <2>5. children'[1].buf = buf /\ FirstSlot' = base
    <3>1. 1 \in 1 .. m /\ 2 * 1 - 1 = 1 /\ 2 * 1 = 2 /\ base + 2 * (1 - 1) = base
      BY <2>2, <2>4
    <3>2. /\ EntryOf(children'[1], LeftSegment(expandable[1]), buf,
                     IF 1 \in right THEN base + 1 ELSE base)
          /\ EntryOf(children'[2], RightSegment(expandable[1]), buf,
                     IF 1 \in right THEN base ELSE base + 1)
      BY <2>1, <3>1
    <3>3. /\ children'[1].slot = IF 1 \in right THEN base + 1 ELSE base
          /\ children'[2].slot = IF 1 \in right THEN base ELSE base + 1
          /\ children'[1].buf = buf
      BY <3>2 DEF EntryOf
    <3> QED BY <2>2, <3>3 DEF FirstSlot
  <2>7. \A e \in Elems(queue) : e.buf = children'[1].buf => e.slot < FirstSlot'
    BY <2>2, <2>5
  <2>8. \A x : RowSet(x)' = RowSet(x)
    BY <1>2, SameRows
  <2>9. ASSUME NEW j \in DOMAIN expandable
        PROVE  LET l == children[2 * j - 1]
                   r == children[2 * j]
                   e == batch[expandable[j]]
                   first == FirstSlot + 2 * (j - 1)
               IN /\ l'.buf = children'[1].buf /\ r'.buf = children'[1].buf
                  /\ frontiers'[e'.buf][e'.slot] = Counts(RowSet(l)' \cup RowSet(r)')
                  /\ \/ l'.slot = first' /\ r'.slot = first' + 1 /\ BuiltSums(j)' = Counts(RowSet(l)')
                     \/ r'.slot = first' /\ l'.slot = first' + 1 /\ BuiltSums(j)' = Counts(RowSet(r)')
    <3>1. PICK l, r, e, first : /\ l = children'[2 * j - 1] /\ r = children'[2 * j]
                                /\ e = batch[expandable[j]] /\ first = base + 2 * (j - 1)
      OBVIOUS
    <3>2. /\ l.buf = buf /\ r.buf = buf
          /\ frontiers'[e.buf][e.slot] = Counts(RowSet(l) \cup RowSet(r))
          /\ \/ l.slot = first /\ r.slot = first + 1 /\ BuiltSums(j)' = Counts(RowSet(l))
             \/ r.slot = first /\ l.slot = first + 1 /\ BuiltSums(j)' = Counts(RowSet(r))
      <4>0. j \in 1 .. m
        BY <1>6
      <4>1. PICK k \in DOMAIN batch : k = expandable[j]
        BY <1>5, <1>6
      <4>2. /\ EntryOf(l, LeftSegment(k), buf, IF j \in right THEN first + 1 ELSE first)
            /\ EntryOf(r, RightSegment(k), buf, IF j \in right THEN first ELSE first + 1)
        BY <2>1, <3>1, <4>0, <4>1
      <4>3. RowSet(l) = RowSet(LeftSegment(k)) /\ RowSet(r) = RowSet(RightSegment(k))
        BY <4>2 DEF EntryOf, RowSet
      <4>4. BuiltSums(j)' = Counts(RowSet(BuiltKid(j, right)))
        <5>1. FirstSlot' + 2 * (j - 1) = first
          BY <2>5, <3>1
        <5>2. BuiltSums(j)' = IF j \in DOMAIN pending' THEN pending'[j]
                              ELSE frontiers'[children'[1].buf][FirstSlot' + 2 * (j - 1)]
          BY DEF BuiltSums
        <5> QED BY <2>3, <2>5, <3>1, <4>0, <5>1, <5>2
      <4>5. BuiltSums(j)' = IF j \in right THEN Counts(RowSet(r)) ELSE Counts(RowSet(l))
        BY <4>1, <4>3, <4>4 DEF BuiltKid
      <4>6. /\ l.slot = IF j \in right THEN first + 1 ELSE first
            /\ r.slot = IF j \in right THEN first ELSE first + 1
            /\ l.buf = buf /\ r.buf = buf
        BY <4>2 DEF EntryOf
      <4>7. frontiers'[e.buf][e.slot] = Counts(RowSet(l) \cup RowSet(r))
        <5>1. e \in Elems(batch) /\ e = batch[k]
          BY <3>1, <4>1 DEF Elems
        <5>2. frontiers'[e.buf][e.slot] = Counts(BatchRows(e))
          BY <1>1, <1>2, <2>2, <5>1 DEF CandidateInv, Counted, InBatch
        <5>3. Parted(e, LeftSegment(k), RightSegment(k))
          BY <1>2, <5>1, KidsAre
        <5>4. BatchRows(e) = RowSet(l) \cup RowSet(r)
          BY <4>3, <5>3 DEF Parted
        <5> QED BY <5>2, <5>4
      <4> QED BY <4>5, <4>6, <4>7
    <3>3. /\ RowSet(children[2 * j - 1])' = RowSet(l) /\ RowSet(children[2 * j])' = RowSet(r)
      BY <1>2, <3>1 DEF RowSet, RowsOf
    <3>4. batch'[expandable'[j]] = e
      BY <1>2, <3>1
    <3> QED BY <2>5, <3>1, <3>2, <3>3, <3>4
  <2> QED BY <1>2, <1>6, <2>1, <2>7, <2>9 DEF PairInv
<1> QED BY <1>16, <1>17, <1>18, <1>19, <1>20, <1>21, <1>23, <1>24, <1>27, <1>28, <1>29, <1>30
        DEF IInv

-----------------------------------------------------------------------------
(* Subtracting: the siblings are what their parents have more.             *)

(* What a parent counts more than one child is what the other child        *)
(* counts.                                                                 *)
LEMMA DifferenceIs ==
  ASSUME NEW A \in SUBSET Rows, NEW B \in SUBSET Rows, A \cap B = {}
  PROVE  /\ Difference(Counts(A \cup B), Counts(A)) = Counts(B)
         /\ Difference(Counts(A \cup B), Counts(B)) = Counts(A)
BY DEF Difference, Counts

(* The slots of a pair, and the pair of a slot.                            *)
LEMMA PairSlots ==
  ASSUME NEW m \in Nat, NEW f \in Nat
  PROVE  /\ \A j \in 1 .. m :
              LET first == f + 2 * (j - 1)
              IN /\ first \in f .. f + 2 * m - 1 /\ first + 1 \in f .. f + 2 * m - 1
                 /\ 1 + (first - f) \div 2 = j /\ (first - f) % 2 = 0
                 /\ 1 + ((first + 1) - f) \div 2 = j /\ ((first + 1) - f) % 2 # 0
         /\ \A s \in f .. f + 2 * m - 1 : 1 + (s - f) \div 2 \in 1 .. m
<1>1. ASSUME NEW j \in 1 .. m, NEW first, first = f + 2 * (j - 1)
      PROVE  /\ first \in f .. f + 2 * m - 1 /\ first + 1 \in f .. f + 2 * m - 1
             /\ 1 + (first - f) \div 2 = j /\ (first - f) % 2 = 0
             /\ 1 + ((first + 1) - f) \div 2 = j /\ ((first + 1) - f) % 2 # 0
  <2>1. /\ ((j - 1) * 2 + 0) \div 2 = j - 1 /\ ((j - 1) * 2 + 0) % 2 = 0
        /\ ((j - 1) * 2 + 1) \div 2 = j - 1 /\ ((j - 1) * 2 + 1) % 2 = 1
    <3>1. j - 1 \in Nat /\ 2 \in Nat \ {0} /\ 0 \in 0 .. 2 - 1 /\ 1 \in 0 .. 2 - 1
      OBVIOUS
    <3> QED BY <3>1, DivOf
  <2>2. first - f = (j - 1) * 2 + 0 /\ (first + 1) - f = (j - 1) * 2 + 1
    BY <1>1
  <2>3. first \in f .. f + 2 * m - 1 /\ first + 1 \in f .. f + 2 * m - 1
    BY <1>1
  <2> QED BY <2>1, <2>2, <2>3
<1>2. ASSUME NEW s \in f .. f + 2 * m - 1 PROVE 1 + (s - f) \div 2 \in 1 .. m
  <2>1. PICK n \in Nat : n = s - f /\ n < 2 * m
    OBVIOUS
  <2>2. n \div 2 \in Nat /\ (n \div 2) * 2 <= n
    BY DivBounds
  <2> QED BY <2>1, <2>2
<1> QED BY <1>1, <1>2

(* SubtractHists keeps the invariant: each sibling's slot counts its rows. *)
LEMMA SubtractKeeps == ASSUME IInv, SubtractHists PROVE IInv' /\ Live' = Live
<1>1. /\ TypeInv /\ PhaseInv /\ OnceInv /\ TileInv /\ SideInv /\ LevelInv /\ TreeInv
      /\ CandidateInv /\ SlotInv /\ PairInv /\ RoutingInv
  BY DEF IInv
<1>2. /\ pc = "subtract" /\ pc' = "evaluate" /\ param' = param /\ atomic_free' = atomic_free
      /\ trees' = trees /\ tree' = tree /\ bufs' = bufs /\ cur' = cur /\ side' = side
      /\ arena' = arena /\ root' = root /\ queue' = queue /\ batch' = batch
      /\ expandable' = expandable /\ todo' = todo /\ left_counts' = left_counts
      /\ children' = children /\ num_leaves' = num_leaves /\ leaf_segments' = leaf_segments
  BY DEF SubtractHists, partitioner
<1>3. /\ expandable \in Seq(DOMAIN batch) /\ batch \in Seq(Entries) /\ children \in Seq(Entries)
      /\ queue \in Seq(Entries) /\ frontiers \in Seq(Slots) /\ expandable # <<>>
      /\ bufs \in [0 .. 1 -> [Positions -> Rows]] /\ side \in [Positions -> 0 .. 1]
  BY <1>1, <1>2 DEF TypeInv, PhaseInv
<1>4. PICK m \in Nat \ {0} : m = Len(expandable) /\ DOMAIN expandable = 1 .. m
  <2>1. Len(expandable) # 0
    BY <1>3
  <2> QED BY <1>3, <2>1
<1>5. PICK f, b : f = FirstSlot /\ b = children[1].buf
  OBVIOUS
<1>6. /\ Len(children) = 2 * m /\ DOMAIN children = 1 .. 2 * m
      /\ \A e \in Elems(queue) : e.buf = b => e.slot < f
  <2>1. Len(children) = 2 * m
    BY <1>1, <1>2, <1>4 DEF PairInv
  <2>2. DOMAIN children = 1 .. Len(children)
    BY <1>3
  <2>3. \A e \in Elems(queue) : e.buf = b => e.slot < f
    BY <1>1, <1>2, <1>5 DEF PairInv
  <2> QED BY <2>1, <2>2, <2>3
<1>7. \A i \in 1 .. 2 * m : children[i] \in Entries /\ children[i] \in Elems(children)
  BY <1>3, <1>6 DEF Elems
<1>8. f \in Nat /\ b \in Nat
  <2>1. children[1] \in Entries /\ children[2] \in Entries
    <3>1. 1 \in 1 .. 2 * m /\ 2 \in 1 .. 2 * m
      OBVIOUS
    <3> QED BY <1>7, <3>1
  <2> QED BY <1>5, <2>1 DEF FirstSlot, Entries
<1>9. ASSUME NEW j \in 1 .. m
      PROVE  /\ 2 * j - 1 \in 1 .. 2 * m /\ 2 * j \in 1 .. 2 * m
             /\ children[2 * j - 1].buf = b /\ children[2 * j].buf = b
             /\ RowSet(children[2 * j - 1]) \cap RowSet(children[2 * j]) = {}
             /\ RowSet(children[2 * j - 1]) \in SUBSET Rows
             /\ RowSet(children[2 * j]) \in SUBSET Rows
  <2>1. /\ 2 * j - 1 \in 1 .. 2 * m /\ 2 * j \in 1 .. 2 * m /\ 2 * j - 1 # 2 * j
    OBVIOUS
  <2>2. PICK l, r : l = children[2 * j - 1] /\ r = children[2 * j]
    OBVIOUS
  <2>3. l.buf = b /\ r.buf = b
    BY <1>1, <1>2, <1>4, <1>5, <2>2 DEF PairInv
  <2>4. l.nid # r.nid
    BY <1>1, <1>6, <2>1, <2>2 DEF OnceInv, Once
  <2>5. l \in Elems(children) /\ r \in Elems(children)
    BY <1>7, <2>1, <2>2
  <2>6. Holding(l, RowSet(l)) \in Live /\ Holding(r, RowSet(r)) \in Live
    BY <2>5 DEF Live, Waiting
  <2>7. Holding(l, RowSet(l)) # Holding(r, RowSet(r))
    BY <2>4 DEF Holding
  <2>8. /\ RowSet(l) \cap RowSet(r) = {} /\ RowSet(l) \in SUBSET Rows /\ RowSet(r) \in SUBSET Rows
    <3>1. Tiles(Live)
      BY <1>1, <1>2 DEF TileInv
    <3> QED BY <2>6, <2>7, <3>1 DEF Tiles, Holding
  <2> QED BY <2>1, <2>2, <2>3, <2>8
<1>10. ASSUME NEW j \in 1 .. m
       PROVE  \E l, r, first :
                /\ l = children[2 * j - 1] /\ r = children[2 * j] /\ first = f + 2 * (j - 1)
                /\ \/ /\ l.slot = first /\ r.slot = first + 1
                      /\ BuiltSums(j) = Counts(RowSet(l)) /\ Sibling(j) = Counts(RowSet(r))
                   \/ /\ r.slot = first /\ l.slot = first + 1
                      /\ BuiltSums(j) = Counts(RowSet(r)) /\ Sibling(j) = Counts(RowSet(l))
  <2>1. PICK l, r, first : l = children[2 * j - 1] /\ r = children[2 * j] /\ first = f + 2 * (j - 1)
    OBVIOUS
  <2>2. PICK e : e = batch[expandable[j]]
    OBVIOUS
  <2>3. /\ frontiers[e.buf][e.slot] = Counts(RowSet(l) \cup RowSet(r))
        /\ \/ l.slot = first /\ r.slot = first + 1 /\ BuiltSums(j) = Counts(RowSet(l))
           \/ r.slot = first /\ l.slot = first + 1 /\ BuiltSums(j) = Counts(RowSet(r))
    BY <1>1, <1>2, <1>4, <1>5, <2>1, <2>2 DEF PairInv
  <2>4. batch[expandable[1]].buf = e.buf
    <3>1. expandable[1] \in DOMAIN batch /\ expandable[j] \in DOMAIN batch
      BY <1>3, <1>4
    <3>2. batch[expandable[1]] \in Elems(batch) /\ e \in Elems(batch)
      BY <2>2, <3>1 DEF Elems
    <3> QED BY <1>1, <1>2, <3>2 DEF LevelInv, Parents
  <2>5. Sibling(j) = Difference(Counts(RowSet(l) \cup RowSet(r)), BuiltSums(j))
    BY <2>2, <2>3, <2>4 DEF Sibling
  <2>6. /\ Difference(Counts(RowSet(l) \cup RowSet(r)), Counts(RowSet(l))) = Counts(RowSet(r))
        /\ Difference(Counts(RowSet(l) \cup RowSet(r)), Counts(RowSet(r))) = Counts(RowSet(l))
    BY <1>9, <2>1, DifferenceIs
  <2> QED BY <2>1, <2>3, <2>5, <2>6
<1>11. ASSUME NEW j \in 1 .. m PROVE BuiltSums(j) \in Sums /\ Sibling(j) \in Sums
  BY <1>10, SumsAre
<1> DEFINE w == f .. f + 2 * m - 1
           Job(s) == 1 + (s - f) \div 2
           g == [s \in DOMAIN frontiers[b] |-> IF s \notin w THEN frontiers[b][s]
                                              ELSE IF (s - f) % 2 = 0 THEN BuiltSums(Job(s))
                                              ELSE Sibling(Job(s))]
<1>12. frontiers' = [frontiers EXCEPT ![b] = g]
  BY <1>4, <1>5 DEF SubtractHists
<1>13. /\ \A j \in 1 .. m :
            LET first == f + 2 * (j - 1)
            IN /\ first \in w /\ first + 1 \in w
               /\ Job(first) = j /\ (first - f) % 2 = 0
               /\ Job(first + 1) = j /\ ((first + 1) - f) % 2 # 0
       /\ \A s \in w : Job(s) \in 1 .. m
  BY <1>8, PairSlots
<1>14. \A i \in 1 .. 2 * m : /\ children[i].buf = b /\ b \in DOMAIN frontiers
                             /\ children[i].slot \in DOMAIN frontiers[b]
                             /\ b = arena.buf => children[i].slot < arena.next
  <2> SUFFICES ASSUME NEW i \in 1 .. 2 * m
               PROVE  /\ children[i].buf = b /\ b \in DOMAIN frontiers
                      /\ children[i].slot \in DOMAIN frontiers[b]
                      /\ b = arena.buf => children[i].slot < arena.next
    OBVIOUS
  <2>1. children[i].buf = b
    <3>1. /\ CandidateAt(i) \in 1 .. m
          /\ i % 2 = 1 => i = 2 * CandidateAt(i) - 1
          /\ i % 2 # 1 => i = 2 * CandidateAt(i)
      BY PairAt
    <3> QED BY <1>9, <3>1
  <2>2. children[i] \in Handles
    BY <1>7 DEF Handles
  <2> QED BY <1>1, <2>1, <2>2 DEF SlotInv
<1>15. /\ b \in DOMAIN frontiers /\ DOMAIN frontiers[b] \subseteq Int
       /\ frontiers[b] \in [DOMAIN frontiers[b] -> Sums]
  <2>1. 1 \in 1 .. 2 * m
    OBVIOUS
  <2>2. b \in DOMAIN frontiers
    BY <1>14, <2>1
  <2>3. frontiers[b] \in Slots
    BY <1>3, <2>2
  <2> QED BY <2>2, <2>3, SlotsAre
<1> HIDE DEF w, Job
<1>16. g \in [DOMAIN frontiers[b] -> Sums]
  BY <1>11, <1>13, <1>15
<1>17. /\ frontiers' \in Seq(Slots) /\ DOMAIN frontiers' = DOMAIN frontiers /\ frontiers'[b] = g
       /\ \A c \in DOMAIN frontiers : /\ DOMAIN frontiers'[c] = DOMAIN frontiers[c]
                                      /\ c # b => frontiers'[c] = frontiers[c]
  <2> HIDE DEF g
  <2> QED BY <1>3, <1>12, <1>15, <1>16, Written
<1>18. ASSUME NEW i \in 1 .. 2 * m
       PROVE  frontiers'[children[i].buf][children[i].slot] = Counts(RowSet(children[i]))
  <2>1. PICK j \in 1 .. m : i = 2 * j - 1 \/ i = 2 * j
    <3>1. /\ CandidateAt(i) \in 1 .. m
          /\ i % 2 = 1 => i = 2 * CandidateAt(i) - 1
          /\ i % 2 # 1 => i = 2 * CandidateAt(i)
      BY PairAt
    <3> QED BY <3>1
  <2>2. PICK l, r, first :
                /\ l = children[2 * j - 1] /\ r = children[2 * j] /\ first = f + 2 * (j - 1)
                /\ \/ /\ l.slot = first /\ r.slot = first + 1
                      /\ BuiltSums(j) = Counts(RowSet(l)) /\ Sibling(j) = Counts(RowSet(r))
                   \/ /\ r.slot = first /\ l.slot = first + 1
                      /\ BuiltSums(j) = Counts(RowSet(r)) /\ Sibling(j) = Counts(RowSet(l))
    BY <1>10
  <2>3. l.slot \in DOMAIN frontiers[b] /\ r.slot \in DOMAIN frontiers[b]
    BY <1>9, <1>14, <2>2
  <2>4. /\ first \in w /\ first + 1 \in w /\ Job(first) = j /\ (first - f) % 2 = 0
        /\ Job(first + 1) = j /\ ((first + 1) - f) % 2 # 0
    BY <1>13, <2>2
  <2>5. first \in DOMAIN frontiers[b] /\ first + 1 \in DOMAIN frontiers[b]
    BY <2>2, <2>3
  <2>6. g[first] = BuiltSums(j) /\ g[first + 1] = Sibling(j)
    <3>1. g[first] = BuiltSums(j)
      BY <2>4, <2>5
    <3>2. PICK next : next = first + 1
      OBVIOUS
    <3>3. /\ next \in w /\ next \in DOMAIN frontiers[b] /\ Job(next) = j /\ (next - f) % 2 # 0
      <4>1. next \in w /\ next \in DOMAIN frontiers[b]
        BY <2>4, <2>5, <3>2
      <4>2. Job(next) = j
        BY <2>4, <3>2, Zenon
      <4>3. (next - f) % 2 # 0
        BY <2>4, <3>2, Zenon
      <4> QED BY <4>1, <4>2, <4>3
    <3>4. g[next] = Sibling(j)
      BY <3>3
    <3> HIDE DEF g
    <3> QED BY <3>1, <3>2, <3>4
  <2>7. g[l.slot] = Counts(RowSet(l)) /\ g[r.slot] = Counts(RowSet(r))
    BY <2>2, <2>6
  <2> HIDE DEF g
  <2> QED BY <1>14, <1>17, <2>1, <2>2, <2>7
<1>19. \A c \in DOMAIN frontiers : \A s \in DOMAIN frontiers[c] :
         (c = b => s \notin w) => frontiers'[c][s] = frontiers[c][s]
  BY <1>17
<1> HIDE DEF g
<1>20. \A e \in Elems(queue) : frontiers'[e.buf][e.slot] = frontiers[e.buf][e.slot]
  <2> SUFFICES ASSUME NEW e \in Elems(queue)
               PROVE  frontiers'[e.buf][e.slot] = frontiers[e.buf][e.slot]
    OBVIOUS
  <2>1. e.buf \in DOMAIN frontiers /\ e.slot \in DOMAIN frontiers[e.buf]
    BY <1>1 DEF SlotInv, Handles
  <2>2. e.buf = b => e.slot \notin w
    <3>1. e.slot \in Nat
      <4>1. e \in Entries
        BY <1>3, ElemsIn
      <4> QED BY <4>1 DEF Entries
    <3> QED BY <1>6, <1>8, <3>1 DEF w
  <2> QED BY <1>19, <2>1, <2>2
<1>21. ArenaOk(arena, frontiers)'
  <2>1. arena \in Arenas /\ ArenaOk(arena, frontiers)
    BY <1>1 DEF TypeInv, SlotInv
  <2>2. b = arena.buf => f + 2 * m - 1 < arena.next
    <3>1. PICK l, r, first :
                /\ l = children[2 * m - 1] /\ r = children[2 * m] /\ first = f + 2 * (m - 1)
                /\ \/ /\ l.slot = first /\ r.slot = first + 1
                      /\ BuiltSums(m) = Counts(RowSet(l)) /\ Sibling(m) = Counts(RowSet(r))
                   \/ /\ r.slot = first /\ l.slot = first + 1
                      /\ BuiltSums(m) = Counts(RowSet(r)) /\ Sibling(m) = Counts(RowSet(l))
      <4>1. m \in 1 .. m
        OBVIOUS
      <4> QED BY <1>10, <4>1
    <3>2. 2 * m - 1 \in 1 .. 2 * m /\ 2 * m \in 1 .. 2 * m
      OBVIOUS
    <3>3. b = arena.buf => l.slot < arena.next /\ r.slot < arena.next
      BY <1>14, <3>1, <3>2
    <3>4. first + 1 = f + 2 * m - 1
      BY <1>8, <3>1
    <3> QED BY <3>1, <3>3, <3>4
  <2>3. ~atomic_free => \A s \in arena.next .. arena.slots - 1 : frontiers'[arena.buf][s] = Zero
    <3> SUFFICES ASSUME ~atomic_free, NEW s \in arena.next .. arena.slots - 1
                 PROVE  frontiers'[arena.buf][s] = Zero
      OBVIOUS
    <3>1. frontiers[arena.buf][s] = Zero
      BY <2>1 DEF ArenaOk
    <3>2. arena.next \in Nat /\ arena.slots \in Nat
      BY <2>1 DEF Arenas
    <3>3. s \in 0 .. arena.slots - 1 /\ s >= arena.next
      BY <3>2
    <3>4. arena.buf \in DOMAIN frontiers /\ s \in DOMAIN frontiers[arena.buf]
      BY <2>1, <3>2, <3>3 DEF ArenaOk
    <3>5. arena.buf = b => s \notin w
      BY <1>8, <2>2, <3>2, <3>3 DEF w
    <3> QED BY <1>19, <3>1, <3>4, <3>5
  <2> QED BY <1>2, <1>17, <2>1, <2>3 DEF ArenaOk
<1>22. \A x : RowSet(x)' = RowSet(x)
  BY <1>2, SameRows
<1>23. Live' = Live /\ Waiting' = Waiting
  BY <1>2, <1>22 DEF Live, Waiting, InBatch
<1>24. TypeInv'
  <2>1. pc' \in Phases
    BY <1>2 DEF Phases
  <2> QED BY <1>1, <1>2, <1>17, <2>1 DEF TypeInv
<1>25. PhaseInv'
  <2>1. children # <<>>
    BY <1>6
  <2> QED BY <1>2, <2>1 DEF PhaseInv
<1>26. OnceInv'
  BY <1>1, <1>2 DEF OnceInv, InBatch
<1>27. TileInv' /\ RoutingInv'
  <2>1. RoutingInv' /\ Tiles(Live)'
    BY <1>1, <1>2, <1>23, SameLive DEF TileInv
  <2> QED BY <2>1 DEF TileInv
<1>28. SideInv'
  <2>1. \A e : OneSide(e, side[e.begin])' <=> OneSide(e, side[e.begin])
    BY <1>2 DEF OneSide
  <2> QED BY <1>1, <1>2, <1>23, <2>1 DEF SideInv, Dealing
<1>29. LevelInv'
  <2>1. \A d, e : Together(d, e)' <=> Together(d, e)
    BY <1>2 DEF Together
  <2> QED BY <1>1, <1>2, <2>1 DEF LevelInv, Parents, InBatch
<1>30. TreeInv'
  <2>1. Linked' /\ Leaves' = Leaves
    BY <1>1, <1>2, SameTree DEF TreeInv
  <2> QED BY <1>1, <1>2, <1>23, <2>1 DEF TreeInv, Dealing
<1>31. CandidateInv'
  <2>1. \A e \in Elems(queue) : Counted(e, RowSet(e))' /\ Separates(e, RowSet(e))'
    BY <1>1, <1>20, <1>22 DEF CandidateInv, Counted, Separates
  <2>2. \A e \in Elems(children) : Counted(e, RowSet(e))'
    BY <1>6, <1>18, <1>22 DEF Elems, Counted
  <2> QED BY <1>2, <2>1, <2>2 DEF CandidateInv, InBatch
<1>32. SlotInv'
  <2>1. Handles' \subseteq Handles
    BY <1>2 DEF Handles, Parents, InBatch
  <2> QED BY <1>1, <1>2, <1>17, <1>21, <2>1 DEF SlotInv
<1>33. DealtInv' /\ PairInv'
  BY <1>2 DEF DealtInv, PairInv, Dealing
<1> QED BY <1>23, <1>24, <1>25, <1>26, <1>27, <1>28, <1>29, <1>30, <1>31, <1>32, <1>33 DEF IInv

-----------------------------------------------------------------------------
(* Evaluating the children one by one.                                     *)

(* The rest of a sequence.                                                 *)
LEMMA TailOf ==
  ASSUME NEW X, NEW u \in Seq(X), u # <<>>
  PROVE  /\ Tail(u) \in Seq(X) /\ u[1] \in X
         /\ Elems(u) = {u[1]} \cup Elems(Tail(u))
         /\ Once(u) => Once(Tail(u)) /\ \A x \in Elems(Tail(u)) : x.nid # u[1].nid
<1> DEFINE n == Len(u)
           v == Tail(u)
<1>1. n \in Nat \ {0} /\ DOMAIN u = 1 .. n /\ \A i \in 1 .. n : u[i] \in X
  OBVIOUS
<1>2. /\ v \in Seq(X) /\ DOMAIN v = 1 .. n - 1 /\ \A i \in 1 .. n - 1 : v[i] = u[i + 1]
  OBVIOUS
<1> HIDE DEF n, v
<1>3. 1 \in 1 .. n /\ \A i \in 1 .. n - 1 : i + 1 \in 1 .. n /\ i + 1 # 1
  BY <1>1
<1>4. \A x \in Elems(v) : \E i \in 1 .. n - 1 : x = u[i + 1]
  BY <1>2 DEF Elems
<1>5. \A i \in 1 .. n : i = 1 \/ (i - 1 \in 1 .. n - 1 /\ (i - 1) + 1 = i)
  BY <1>1
<1>6. Elems(u) = {u[1]} \cup Elems(v)
  <2>1. ASSUME NEW i \in 1 .. n PROVE u[i] \in {u[1]} \cup Elems(v)
    <3>1. CASE i = 1
      BY <3>1
    <3>2. CASE i # 1
      <4>1. v[i - 1] = u[i] /\ i - 1 \in DOMAIN v
        BY <1>2, <1>5, <3>2
      <4> QED BY <4>1 DEF Elems
    <3> QED BY <3>1, <3>2
  <2>2. \A x \in Elems(v) : x \in Elems(u)
    BY <1>1, <1>3, <1>4 DEF Elems
  <2>3. u[1] \in Elems(u)
    BY <1>1, <1>3 DEF Elems
  <2>4. \A x \in Elems(u) : x \in {u[1]} \cup Elems(v)
    BY <1>1, <2>1 DEF Elems
  <2> QED BY <2>2, <2>3, <2>4
<1>7. ASSUME Once(u) PROVE Once(v) /\ \A x \in Elems(v) : x.nid # u[1].nid
  <2>1. \A i, j \in 1 .. n : u[i].nid = u[j].nid => i = j
    BY <1>1, <1>7 DEF Once
  <2>2. ASSUME NEW i \in 1 .. n - 1, NEW j \in 1 .. n - 1, v[i].nid = v[j].nid PROVE i = j
    <3>1. i + 1 = j + 1
      BY <1>2, <1>3, <2>1, <2>2
    <3> QED BY <1>1, <3>1
  <2>3. \A x \in Elems(v) : x.nid # u[1].nid
    BY <1>3, <1>4, <2>1
  <2> QED BY <1>2, <2>2, <2>3 DEF Once
<1> QED BY <1>1, <1>2, <1>3, <1>6, <1>7 DEF v

(* EvaluateChild keeps the invariant: the child waits in the queue.        *)
LEMMA EvaluateKeeps == ASSUME IInv, EvaluateChild PROVE IInv' /\ Live' = Live
<1>1. /\ TypeInv /\ PhaseInv /\ OnceInv /\ TileInv /\ SideInv /\ LevelInv /\ TreeInv
      /\ CandidateInv /\ SlotInv /\ RoutingInv
  BY DEF IInv
<1>2. /\ pc = "evaluate" /\ param' = param /\ atomic_free' = atomic_free
      /\ trees' = trees /\ tree' = tree /\ bufs' = bufs /\ cur' = cur /\ side' = side
      /\ frontiers' = frontiers /\ arena' = arena /\ root' = root /\ batch' = batch
      /\ expandable' = expandable /\ todo' = todo /\ left_counts' = left_counts
      /\ pending' = pending /\ children' = Tail(children) /\ num_leaves' = num_leaves
      /\ pc' = IF children' = <<>> THEN "pop" ELSE "evaluate"
  BY DEF EvaluateChild, partitioner, histograms
<1>3. PICK c : c = children[1]
  OBVIOUS
<1>4. PICK s \in Splits(frontiers[c.buf][c.slot]) :
        \/ /\ s.gain > 0 /\ queue' = Append(queue, [c EXCEPT !.gain = s.gain, !.rule = s.rule])
           /\ leaf_segments' = leaf_segments
        \/ /\ ~(s.gain > 0) /\ leaf_segments' = Append(leaf_segments, Segment(c))
           /\ queue' = queue
  BY <1>3 DEF EvaluateChild
<1>5. /\ children \in Seq(Entries) /\ children # <<>> /\ queue \in Seq(Entries)
      /\ leaf_segments \in Seq(Segs)
  BY <1>1, <1>2 DEF TypeInv, PhaseInv
<1>6. /\ children' \in Seq(Entries) /\ c \in Entries
      /\ Elems(children) = {c} \cup Elems(children')
      /\ Once(children') /\ \A x \in Elems(children') : x.nid # c.nid
  BY <1>1, <1>2, <1>3, <1>5, TailOf DEF OnceInv
<1>7. PICK q : q = [c EXCEPT !.gain = s.gain, !.rule = s.rule]
  OBVIOUS
<1>8. RowSet(c) \in SUBSET Rows /\ Counted(c, RowSet(c))
  <2>1. Holding(c, RowSet(c)) \in Live
    BY <1>6 DEF Live, Waiting
  <2>2. Tiles(Live)
    BY <1>1, <1>2 DEF TileInv
  <2>3. RowSet(c) \in SUBSET Rows
    BY <2>1, <2>2 DEF Tiles, Holding
  <2> QED BY <1>1, <1>2, <1>6, <2>3 DEF CandidateInv
<1>9. /\ s.gain \in Nat /\ s.rule \in SUBSET Rows
      /\ s.gain > 0 => s.rule \subseteq RowSet(c) /\ s.rule # {} /\ s.rule # RowSet(c)
  <2>1. s \in Splits(Counts(RowSet(c)))
    BY <1>4, <1>8 DEF Counted
  <2> QED BY <1>8, <2>1, SplitIs
<1>10. /\ q \in Entries /\ q.gain = s.gain /\ q.rule = s.rule
       /\ q.nid = c.nid /\ q.depth = c.depth /\ q.begin = c.begin /\ q.len = c.len
       /\ q.buf = c.buf /\ q.slot = c.slot
  <2>1. PICK g : g = s.gain
    OBVIOUS
  <2>2. PICK r : r = s.rule
    OBVIOUS
  <2>3. g \in Nat /\ r \in SUBSET Rows /\ q = [c EXCEPT !.gain = g, !.rule = r]
    BY <1>7, <1>9, <2>1, <2>2
  <2>4. /\ q \in Entries /\ q.gain = g /\ q.rule = r
        /\ q.nid = c.nid /\ q.depth = c.depth /\ q.begin = c.begin /\ q.len = c.len
        /\ q.buf = c.buf /\ q.slot = c.slot
    <3>1. PICK d : d = [c EXCEPT !.gain = g]
      OBVIOUS
    <3>2. /\ d \in Entries /\ d.gain = g /\ d.nid = c.nid /\ d.depth = c.depth
          /\ d.begin = c.begin /\ d.len = c.len /\ d.buf = c.buf /\ d.slot = c.slot
      BY <1>6, <2>3, <3>1 DEF Entries
    <3>3. q = [d EXCEPT !.rule = r]
      BY <2>3, <3>1
    <3> QED BY <2>3, <3>2, <3>3 DEF Entries
  <2> QED BY <2>1, <2>2, <2>4
<1>11. /\ Segment(c) \in Segs /\ Segment(c).nid = c.nid /\ Segment(c).begin = c.begin
       /\ Segment(c).len = c.len
  BY <1>6, SegmentsAre DEF Segment
<1>12. \/ /\ s.gain > 0 /\ Elems(queue') = Elems(queue) \cup {q} /\ queue' \in Seq(Entries)
          /\ leaf_segments' = leaf_segments
       \/ /\ Elems(leaf_segments') = Elems(leaf_segments) \cup {Segment(c)}
          /\ leaf_segments' \in Seq(Segs) /\ queue' = queue
  <2>1. CASE s.gain > 0 /\ queue' = Append(queue, q) /\ leaf_segments' = leaf_segments
    BY <1>5, <1>10, <2>1, Appended, AppendedElems
  <2>2. CASE leaf_segments' = Append(leaf_segments, Segment(c)) /\ queue' = queue
    BY <1>5, <1>11, <2>2, Appended, AppendedElems
  <2> QED BY <1>4, <1>7, <2>1, <2>2
<1>13. \A x : RowSet(x)' = RowSet(x)
  BY <1>2, SameRows
<1>14. RowSet(q) = RowSet(c) /\ RowSet(Segment(c)) = RowSet(c)
  BY <1>10, <1>11 DEF RowSet
<1>15. Holding(q, RowSet(q)) = Holding(c, RowSet(c))
       /\ Holding(Segment(c), RowSet(Segment(c))) = Holding(c, RowSet(c))
  BY <1>10, <1>11, <1>14 DEF Holding
<1>16. pc' \in {"pop", "evaluate"}
  BY <1>2
<1>17. Live' = Live
  <2> DEFINE H(x) == Holding(x, RowSet(x))
  <2>1. Live = {H(x) : x \in Waiting} /\ Live' = {H(x) : x \in Waiting'}
    BY <1>2, <1>13, <1>16 DEF Live, InBatch
  <2>2. H(q) = H(c) /\ H(Segment(c)) = H(c)
    BY <1>15
  <2> HIDE DEF H
  <2>3. Waiting = Elems(queue) \cup {c} \cup Elems(children') \cup Elems(leaf_segments)
    BY <1>6 DEF Waiting
  <2>4. \/ Waiting' = Elems(queue) \cup {q} \cup Elems(children') \cup Elems(leaf_segments)
        \/ Waiting' = Elems(queue) \cup {Segment(c)} \cup Elems(children') \cup Elems(leaf_segments)
    BY <1>12 DEF Waiting
  <2> QED BY <2>1, <2>2, <2>3, <2>4
<1>18. TypeInv'
  <2>1. queue' \in Seq(Entries) /\ leaf_segments' \in Seq(Segs)
    BY <1>5, <1>12
  <2>2. pc' \in Phases
    BY <1>16 DEF Phases
  <2> QED BY <1>1, <1>2, <1>6, <2>1, <2>2 DEF TypeInv
<1>19. PhaseInv'
  <2>1. pc' = "evaluate" => children' # <<>>
    BY <1>2
  <2>2. pc' = "pop" => children' = <<>>
    BY <1>2
  <2> QED BY <1>16, <2>1, <2>2 DEF PhaseInv
<1>20. OnceInv'
  <2>1. /\ Nids(queue) = {e.nid : e \in Elems(queue)}
        /\ Nids(leaf_segments) = {e.nid : e \in Elems(leaf_segments)}
        /\ Nids(children) = {e.nid : e \in Elems(children)}
        /\ Nids(queue') = {e.nid : e \in Elems(queue')}
        /\ Nids(leaf_segments') = {e.nid : e \in Elems(leaf_segments')}
        /\ Nids(children') = {e.nid : e \in Elems(children')}
    BY NidsAre
  <2>2. /\ Once(queue) /\ Once(batch) /\ Nids(queue) \cap Nids(children) = {}
        /\ Nids(children) \cap Nids(leaf_segments) = {}
        /\ Nids(queue) \cap Nids(leaf_segments) = {}
    BY <1>1, <1>2 DEF OnceInv
  <2>3. Nids(children) = {c.nid} \cup Nids(children') /\ c.nid \notin Nids(children')
    BY <1>6, <2>1
  <2>4. \/ Nids(queue') = Nids(queue) \cup {c.nid} /\ leaf_segments' = leaf_segments
        \/ Nids(leaf_segments') = Nids(leaf_segments) \cup {c.nid} /\ queue' = queue
    BY <1>10, <1>11, <1>12, <2>1
  <2>5. Once(queue')
    <3>1. CASE queue' = queue
      BY <2>2, <3>1
    <3>2. CASE queue' = Append(queue, q)
      <4>1. \A y \in Elems(queue) : y.nid # q.nid
        BY <1>10, <2>1, <2>2, <2>3
      <4> QED BY <1>5, <1>10, <2>2, <3>2, <4>1, AppendedOnce
    <3> QED BY <1>4, <1>7, <3>1, <3>2
  <2>6. /\ Nids(queue') \cap Nids(children') = {}
        /\ Nids(children') \cap Nids(leaf_segments') = {}
        /\ Nids(queue') \cap Nids(leaf_segments') = {}
    BY <2>2, <2>3, <2>4
  <2> QED BY <1>2, <1>6, <1>16, <2>2, <2>5, <2>6 DEF OnceInv, InBatch
<1>21. TileInv' /\ RoutingInv'
  <2>1. RoutingInv' /\ Tiles(Live)'
    BY <1>1, <1>2, <1>17, SameLive DEF TileInv
  <2> QED BY <2>1 DEF TileInv
<1>22. SideInv'
  <2>1. \A e : OneSide(e, side[e.begin])' <=> OneSide(e, side[e.begin])
    BY <1>2 DEF OneSide
  <2>2. OneSide(c, side[c.begin])
    BY <1>1, <1>6 DEF SideInv, Waiting
  <2>3. OneSide(q, side[q.begin]) /\ OneSide(Segment(c), side[Segment(c).begin])
    BY <1>10, <1>11, <2>2 DEF OneSide
  <2>4. \A e \in Waiting' : e \in Waiting \/ e = q \/ e = Segment(c)
    BY <1>6, <1>12 DEF Waiting
  <2>5. \A e \in Waiting : OneSide(e, side[e.begin])
    BY <1>1 DEF SideInv
  <2> QED BY <1>16, <2>1, <2>3, <2>4, <2>5 DEF SideInv, Dealing
<1>23. LevelInv'
  <2> SUFFICES ASSUME param.grow_policy = "DepthWise",
                      NEW d \in Elems(queue') \cup Elems(children'),
                      NEW e \in Elems(queue') \cup Elems(children')
               PROVE  Together(d, e)'
    BY <1>2, <1>16 DEF LevelInv, Parents, InBatch
  <2>1. \A x, y \in Elems(queue) \cup Elems(children) : Together(x, y)
    BY <1>1 DEF LevelInv
  <2>2. \A x \in Elems(queue') \cup Elems(children') :
          \E y \in Elems(queue) \cup Elems(children) :
            x.depth = y.depth /\ x.buf = y.buf /\ x.begin = y.begin
    BY <1>6, <1>10, <1>12
  <2>3. PICK x, y \in Elems(queue) \cup Elems(children) :
          /\ d.depth = x.depth /\ d.buf = x.buf /\ d.begin = x.begin
          /\ e.depth = y.depth /\ e.buf = y.buf /\ e.begin = y.begin
    BY <2>2
  <2> QED BY <1>2, <2>1, <2>3 DEF Together
<1>24. TreeInv'
  <2>1. Linked' /\ Leaves' = Leaves
    BY <1>1, <1>2, SameTree DEF TreeInv
  <2> QED BY <1>1, <1>2, <1>16, <1>17, <2>1 DEF TreeInv, Dealing
<1>25. CandidateInv'
  <2>1. \A e \in Elems(queue) : Counted(e, RowSet(e)) /\ Separates(e, RowSet(e))
    BY <1>1 DEF CandidateInv
  <2>2. \A e \in Elems(children) : Counted(e, RowSet(e))
    BY <1>1, <1>2 DEF CandidateInv
  <2>3. Counted(q, RowSet(q)) /\ (s.gain > 0 => Separates(q, RowSet(q)))
    BY <1>8, <1>9, <1>10, <1>14 DEF Counted, Separates
  <2>4. \A e \in Elems(queue') : Counted(e, RowSet(e)) /\ Separates(e, RowSet(e))
    BY <1>12, <2>1, <2>3
  <2>5. \A e : /\ Counted(e, RowSet(e))' <=> Counted(e, RowSet(e))
               /\ Separates(e, RowSet(e))' <=> Separates(e, RowSet(e))
    BY <1>2, <1>13 DEF Counted, Separates
  <2>6. \A e \in Elems(children') : Counted(e, RowSet(e))
    BY <1>6, <2>2
  <2> QED BY <1>16, <2>4, <2>5, <2>6 DEF CandidateInv, InBatch
<1>26. SlotInv'
  <2>1. ArenaOk(arena, frontiers)'
    BY <1>1, <1>2 DEF SlotInv, ArenaOk
  <2>2. Handles' = Elems(queue') \cup Elems(children')
    BY <1>16 DEF Handles, Parents, InBatch
  <2>3. \A x \in Elems(queue') \cup Elems(children') :
          \E y \in Handles : x.buf = y.buf /\ x.slot = y.slot
    BY <1>6, <1>10, <1>12 DEF Handles
  <2>4. \A y \in Handles : /\ y.buf \in DOMAIN frontiers /\ y.slot \in DOMAIN frontiers[y.buf]
                           /\ y.buf = arena.buf => y.slot < arena.next
    BY <1>1 DEF SlotInv
  <2>5. ASSUME NEW x \in Elems(queue') \cup Elems(children')
        PROVE  /\ x.buf \in DOMAIN frontiers /\ x.slot \in DOMAIN frontiers[x.buf]
               /\ x.buf = arena.buf => x.slot < arena.next
    BY <2>3, <2>4
  <2> QED BY <1>2, <2>1, <2>2, <2>5 DEF SlotInv
<1>27. DealtInv' /\ PairInv'
  BY <1>16 DEF DealtInv, PairInv, Dealing
<1> QED BY <1>17, <1>18, <1>19, <1>20, <1>21, <1>22, <1>23, <1>24, <1>25, <1>26, <1>27 DEF IInv

-----------------------------------------------------------------------------
(* The invariant. *)

(* A step that changes nothing keeps the invariant.                        *)
LEMMA StutterKeeps == ASSUME IInv, UNCHANGED vars PROVE IInv'
<1>1. /\ pc' = pc /\ param' = param /\ atomic_free' = atomic_free /\ trees' = trees /\ tree' = tree
      /\ bufs' = bufs /\ cur' = cur /\ side' = side /\ frontiers' = frontiers /\ arena' = arena
      /\ root' = root /\ queue' = queue /\ batch' = batch /\ expandable' = expandable
      /\ todo' = todo /\ left_counts' = left_counts /\ pending' = pending /\ children' = children
      /\ num_leaves' = num_leaves /\ leaf_segments' = leaf_segments
  BY DEF vars, partitioner, histograms
<1>2. TypeInv' /\ PhaseInv' /\ OnceInv'
  <2>1. TypeInv'
    BY <1>1 DEF IInv, TypeInv
  <2>2. PhaseInv'
    BY <1>1 DEF IInv, PhaseInv
  <2>3. OnceInv'
    BY <1>1 DEF IInv, OnceInv
  <2> QED BY <2>1, <2>2, <2>3
<1>3. \A x : RowSet(x)' = RowSet(x) /\ BatchRows(x)' = BatchRows(x)
  BY <1>1 DEF RowSet, RowsOf, BatchRows
<1>4. Live' = Live
  BY <1>1, <1>3 DEF Live, Waiting
<1>5. TileInv' /\ RoutingInv'
  BY <1>1, <1>4, SameLive DEF IInv, TileInv
<1>6. SideInv' /\ LevelInv'
  BY <1>1 DEF IInv, SideInv, LevelInv, Waiting, OneSide, Together
<1>7. TreeInv'
  BY <1>1, <1>4, SameTree DEF IInv, TreeInv, Kids
<1>8. CandidateInv'
  BY <1>1, <1>3 DEF IInv, CandidateInv, Counted, Separates
<1>9. SlotInv'
  BY <1>1 DEF IInv, SlotInv, ArenaOk, Handles
<1>10. DealtInv'
  <2> SUFFICES ASSUME pc \in Dealing, NEW k \in DOMAIN batch \ todo
               PROVE  (LET e == batch[k]
                           rows == RowsOf(1 - cur, e.begin, e.len)
                       IN /\ left_counts[k] \in 1 .. e.len - 1
                          /\ RowsOf(cur, e.begin, left_counts[k]) = rows \cap e.rule
                          /\ RowsOf(cur, e.begin + left_counts[k], e.len - left_counts[k])
                               = rows \ e.rule)'
    BY <1>1 DEF DealtInv
  <2>1. LET e == batch[k]
            rows == RowsOf(1 - cur, e.begin, e.len)
        IN /\ left_counts[k] \in 1 .. e.len - 1
           /\ RowsOf(cur, e.begin, left_counts[k]) = rows \cap e.rule
           /\ RowsOf(cur, e.begin + left_counts[k], e.len - left_counts[k]) = rows \ e.rule
    BY DEF IInv, DealtInv
  <2>2. batch[k]' = batch[k] /\ left_counts[k]' = left_counts[k]
    BY <1>1
  <2> QED BY <1>1, <2>1, <2>2 DEF RowsOf
<1>11. PairInv'
  <2>1. FirstSlot' = FirstSlot
    BY <1>1 DEF FirstSlot
  <2>2. ASSUME NEW j PROVE BuiltSums(j)' = BuiltSums(j)
    BY <1>1, <2>1 DEF BuiltSums
  <2> SUFFICES ASSUME pc = "subtract" PROVE PairInv'
    BY <1>1 DEF PairInv
  <2>3. PairInv
    BY DEF IInv
  <2>4. ASSUME NEW j \in DOMAIN expandable
        PROVE  (LET l == children[2 * j - 1]
                    r == children[2 * j]
                    e == batch[expandable[j]]
                    first == FirstSlot + 2 * (j - 1)
                IN /\ l.buf = children[1].buf /\ r.buf = children[1].buf
                   /\ frontiers[e.buf][e.slot] = Counts(RowSet(l) \cup RowSet(r))
                   /\ \/ l.slot = first /\ r.slot = first + 1 /\ BuiltSums(j) = Counts(RowSet(l))
                      \/ r.slot = first /\ l.slot = first + 1 /\ BuiltSums(j) = Counts(RowSet(r)))'
    <3>1. PICK l : l = children[2 * j - 1]
      OBVIOUS
    <3>2. PICK r : r = children[2 * j]
      OBVIOUS
    <3>3. PICK e : e = batch[expandable[j]]
      OBVIOUS
    <3>4. /\ l.buf = children[1].buf /\ r.buf = children[1].buf
          /\ frontiers[e.buf][e.slot] = Counts(RowSet(l) \cup RowSet(r))
          /\ \/ l.slot = FirstSlot + 2 * (j - 1) /\ r.slot = (FirstSlot + 2 * (j - 1)) + 1
                /\ BuiltSums(j) = Counts(RowSet(l))
             \/ r.slot = FirstSlot + 2 * (j - 1) /\ l.slot = (FirstSlot + 2 * (j - 1)) + 1
                /\ BuiltSums(j) = Counts(RowSet(r))
      BY <2>3, <3>1, <3>2, <3>3 DEF PairInv
    <3>5. children'[2 * j - 1] = l /\ children'[2 * j] = r /\ batch'[expandable'[j]] = e
      BY <1>1, <3>1, <3>2, <3>3
    <3>6. /\ RowSet(l)' = RowSet(l) /\ RowSet(r)' = RowSet(r)
          /\ (RowSet(l) \cup RowSet(r))' = RowSet(l) \cup RowSet(r)
      BY <1>3
    <3>7. /\ l.buf = children'[1].buf /\ r.buf = children'[1].buf
          /\ frontiers'[e.buf][e.slot] = Counts(RowSet(l)' \cup RowSet(r)')
          /\ \/ l.slot = FirstSlot' + 2 * (j - 1) /\ r.slot = (FirstSlot' + 2 * (j - 1)) + 1
                /\ BuiltSums(j)' = Counts(RowSet(l)')
             \/ r.slot = FirstSlot' + 2 * (j - 1) /\ l.slot = (FirstSlot' + 2 * (j - 1)) + 1
                /\ BuiltSums(j)' = Counts(RowSet(r)')
      BY <1>1, <2>1, <2>2, <3>4, <3>6
    <3> QED BY <3>5, <3>7 DEF RowSet, RowsOf
  <2>5. \A e \in Elems(queue') : e.buf = children'[1].buf => e.slot < FirstSlot'
    BY <1>1, <2>1, <2>3 DEF PairInv
  <2>6. Len(children') = 2 * Len(expandable')
    BY <1>1, <2>3 DEF PairInv
  <2> QED BY <1>1, <2>4, <2>5, <2>6 DEF PairInv
<1> QED BY <1>2, <1>5, <1>6, <1>7, <1>8, <1>9, <1>10, <1>11 DEF IInv

(* Every step keeps the invariant.                                         *)
LEMMA InvariantKept == ASSUME IInv, [Next]_vars PROVE IInv'
<1>1. CASE UNCHANGED vars
  BY <1>1, StutterKeeps
<1>2. CASE Finished
  BY <1>1, <1>2 DEF Finished
<1>3. CASE Grow
  BY <1>3, StartTreeKeeps, PopKeeps, ApplyKeeps, DealKeeps, BuildKeeps, SubtractKeeps,
     EvaluateKeeps, NextTreeKeeps DEF Grow
<1> QED BY <1>1, <1>2, <1>3 DEF Next

(* The inductive invariant holds in every reachable state: segments share  *)
(* out the positions and the rows, slots count the rows of those who name  *)
(* them, buffers of the pool are not in use, and the tree routes each row  *)
(* to the leaf that holds it.                                              *)
THEOREM Invariant == Spec => []IInv
<1>1. Init => IInv
  BY InitHolds
<1>2. IInv /\ [Next]_vars => IInv'
  BY InvariantKept
<1> QED BY <1>1, <1>2, PTL DEF Spec

(* The slot of a candidate counts the rows of its segment: no slot is      *)
(* given out again, cleared or added to while a candidate still names it.  *)
THEOREM HistogramsMatch == Spec => []HistMatchesRows
<1>1. IInv => HistMatchesRows
  <2> SUFFICES ASSUME IInv PROVE HistMatchesRows
    OBVIOUS
  <2>1. \A e \in Elems(queue) : frontiers[e.buf][e.slot] = Counts(RowSet(e))
    BY DEF IInv, CandidateInv, Counted
  <2>2. pc = "apply" => \A e \in Elems(batch) : frontiers[e.buf][e.slot] = Counts(RowSet(e))
    BY DEF IInv, CandidateInv, Counted, InBatch, BatchRows
  <2>3. pc = "evaluate" => \A e \in Elems(children) : frontiers[e.buf][e.slot] = Counts(RowSet(e))
    BY DEF IInv, CandidateInv, Counted
  <2> QED BY <2>1, <2>2, <2>3 DEF HistMatchesRows, RowSet
<1> QED BY <1>1, Invariant, PTL

(* The candidates of a batch share one frontier buffer and one side of the *)
(* row index, so that one launch can bind a single buffer for all of them. *)
THEOREM BatchesTogether == Spec => []BatchTogether
<1>1. IInv => BatchTogether
  BY DEF IInv, LevelInv, Together, BatchTogether
<1> QED BY <1>1, Invariant, PTL

-----------------------------------------------------------------------------
(* The finished tree. *)

(* The rows of the nodes are defined by the tree alone: a node's parent    *)
(* was appended before it.                                                 *)
LEMMA RoutedIs ==
  ASSUME IInv
  PROVE  \E f \in [DOMAIN tree -> SUBSET Rows] : f = Routed /\ \A s \in Live : s.rows = f[s.nid]
<1>1. PICK f \in [DOMAIN tree -> SUBSET Rows] : Routes(f) /\ \A s \in Live : s.rows = f[s.nid]
  BY DEF IInv, RoutingInv
<1>2. PICK m \in Nat \ {0} : DOMAIN tree = 0 .. m - 1
  BY DEF IInv, TypeInv
<1> DEFINE D == DOMAIN tree
           E(h, n) == IF n = 0 THEN Rows
                      ELSE IF tree[tree[n].parent].left = n
                           THEN h[tree[n].parent] \cap tree[tree[n].parent].rule
                           ELSE h[tree[n].parent] \ tree[tree[n].parent].rule
           R == CHOOSE h : h = [n \in DOMAIN tree |-> E(h, n)]
<1>3. Routed = R
  BY DEF Routed
<1>4. \A n \in D : f[n] = E(f, n)
  BY <1>1, <1>2 DEF Routes
<1>5. f = [n \in DOMAIN tree |-> E(f, n)]
  <2>1. f = [n \in DOMAIN tree |-> f[n]]
    OBVIOUS
  <2> HIDE DEF E
  <2> QED BY <1>4, <2>1
<1>6. R = [n \in DOMAIN tree |-> E(R, n)]
  <2> HIDE DEF E
  <2> QED BY <1>5
<1> HIDE DEF R
<1>7. \A n \in D : R[n] = E(R, n)
  <2> DEFINE G == [n \in DOMAIN tree |-> E(R, n)]
  <2>1. \A n \in D : G[n] = E(R, n)
    OBVIOUS
  <2>2. R = G
    BY <1>6
  <2> HIDE DEF G, E
  <2> QED BY <2>1, <2>2
<1> DEFINE T == {n \in D : R[n] # f[n]}
<1>8. T = {}
  <2> SUFFICES ASSUME T # {} PROVE FALSE
    OBVIOUS
  <2>1. T \in SUBSET Nat
    BY <1>2
  <2>2. PICK n \in T : \A k \in T : n <= k
    <3> HIDE DEF T
    <3> QED BY <2>1, LeastOf
  <2>3. n \in D /\ R[n] # f[n]
    BY <2>2
  <2>4. n # 0
    BY <1>4, <1>7, <2>3
  <2>5. tree[n].parent \in D /\ tree[n].parent < n
    BY <2>3, <2>4 DEF IInv, TreeInv, Linked
  <2>6. tree[n].parent \notin T
    BY <1>2, <2>2, <2>3, <2>5
  <2>7. R[tree[n].parent] = f[tree[n].parent]
    BY <2>5, <2>6
  <2>8. R[n] = E(R, n) /\ f[n] = E(f, n)
    <3> HIDE DEF E
    <3> QED BY <1>4, <1>7, <2>3
  <2>9. E(R, n) = E(f, n)
    BY <2>7
  <2> HIDE DEF E, T
  <2> QED BY <2>3, <2>8, <2>9
<1>9. R = f
  <2>1. R = [n \in D |-> R[n]] /\ f = [n \in D |-> f[n]]
    <3>1. DOMAIN R = D
      <4> DEFINE G == [n \in DOMAIN tree |-> E(R, n)]
      <4>1. DOMAIN G = D
        OBVIOUS
      <4> HIDE DEF E
      <4> QED BY <1>6, <4>1
    <3> HIDE DEF E
    <3> QED BY <1>6, <3>1
  <2>2. \A n \in D : R[n] = f[n]
    BY <1>8
  <2> QED BY <2>1, <2>2
<1> QED BY <1>1, <1>3, <1>9

(* The last segment that starts at or before a position is the one that    *)
(* holds it, and its rows are on one side.                                 *)
LEMMA LeavesListed ==
  ASSUME IInv, pc = "done"
  PROVE  /\ Live = {Holding(e, RowSet(e)) : e \in Elems(leaf_segments)}
         /\ \A k \in DOMAIN leaf_segments :
              /\ leaf_segments[k] \in Segs
              /\ \A i \in Span(leaf_segments[k].begin, leaf_segments[k].len) :
                   i \in Positions /\ side[i] = side[leaf_segments[k].begin]
         /\ \A i \in Positions : \A k \in DOMAIN leaf_segments :
              k \in SegmentsAt(i) <=> i \in Span(leaf_segments[k].begin, leaf_segments[k].len)
<1> DEFINE At(k) == Span(leaf_segments[k].begin, leaf_segments[k].len)
           H(e) == Holding(e, RowSet(e))
           D == DOMAIN leaf_segments
<1>1. /\ TypeInv /\ PhaseInv /\ TileInv /\ SideInv
  BY DEF IInv
<1>2. Live = {H(e) : e \in Elems(leaf_segments)}
  <2>1. \A e : H(Segment(e)) = H(e)
    BY SegmentHolds
  <2>2. Live = {H(e) : e \in Waiting}
    BY DEF Live, InBatch
  <2> HIDE DEF H
  <2>3. Waiting = Elems(queue) \cup Elems(leaf_segments)
    BY <1>1, NoElems DEF Waiting, PhaseInv
  <2>4. \A e \in Elems(queue) : Segment(e) \in Elems(leaf_segments)
    BY <1>1 DEF PhaseInv
  <2>5. \A x \in Live : x \in {H(e) : e \in Elems(leaf_segments)}
    BY <2>1, <2>2, <2>3, <2>4
  <2> QED BY <2>2, <2>3, <2>5
<1>3. \A k \in D : leaf_segments[k] \in Segs /\ leaf_segments[k] \in Elems(leaf_segments)
  BY <1>1 DEF TypeInv, Elems
<1>4. \A k \in D : /\ leaf_segments[k].begin \in Positions
                   /\ leaf_segments[k].len \in Nat \ {0} /\ leaf_segments[k].begin \in Nat
  BY <1>3, GpuGrowerAssumption DEF Segs, Positions
<1>5. Tiles(Live)
  BY <1>1 DEF TileInv
<1>6. \A k \in D : H(leaf_segments[k]) \in Live
  BY <1>2, <1>3
<1>7. ASSUME NEW k \in D, NEW i \in At(k)
      PROVE  i \in Positions /\ side[i] = side[leaf_segments[k].begin]
  <2>1. At(k) \subseteq Positions
    BY <1>5, <1>6 DEF Tiles, Holding
  <2>2. OneSide(leaf_segments[k], side[leaf_segments[k].begin])
    BY <1>1, <1>3 DEF SideInv, Waiting
  <2> QED BY <1>7, <2>1, <2>2 DEF OneSide
<1>8. ASSUME NEW k \in D, NEW m \in D, NEW i \in At(k), i \in At(m)
      PROVE  /\ leaf_segments[k].begin = leaf_segments[m].begin
             /\ leaf_segments[k].len = leaf_segments[m].len
  <2>1. PICK x, y \in Live : x = H(leaf_segments[k]) /\ y = H(leaf_segments[m])
    BY <1>6
  <2>2. i \in Span(x.begin, x.len) \cap Span(y.begin, y.len)
    BY <1>8, <2>1 DEF Holding
  <2>3. x = y
    BY <1>5, <2>2 DEF Tiles
  <2> QED BY <2>1, <2>3 DEF Holding
<1>9. ASSUME NEW i \in Positions PROVE \E k \in D : i \in At(k)
  <2>1. PICK x \in Live : i \in Span(x.begin, x.len)
    BY <1>5 DEF Tiles
  <2>2. PICK k \in D : x = H(leaf_segments[k])
    BY <1>2, <2>1 DEF Elems
  <2> QED BY <2>1, <2>2 DEF Holding
<1>10. \A k \in D : leaf_segments[k].begin \in At(k)
  BY <1>4 DEF Span
<1>11. \A k \in D : \A i : i \in At(k) <=> /\ i \in Int /\ leaf_segments[k].begin <= i
                                           /\ i < leaf_segments[k].begin + leaf_segments[k].len
  BY <1>4 DEF Span
<1>12. Positions \subseteq Int
  BY GpuGrowerAssumption DEF Positions
<1> HIDE DEF At, H
<1>13. ASSUME NEW i \in Positions, NEW k \in D
       PROVE  k \in SegmentsAt(i) <=> i \in At(k)
  <2>1. ASSUME i \in At(k) PROVE k \in SegmentsAt(i)
    <3>1. leaf_segments[k].begin <= i
      BY <1>11, <2>1
    <3>2. ASSUME NEW m \in D, leaf_segments[m].begin > leaf_segments[k].begin,
                 leaf_segments[m].begin <= i
          PROVE  FALSE
      <4>1. PICK p : p = leaf_segments[m].begin
        OBVIOUS
      <4>2. p \in At(m) /\ p \in At(k)
        <5>1. p \in At(m) /\ p \in Int
          BY <1>4, <1>10, <4>1
        <5>2. i < leaf_segments[k].begin + leaf_segments[k].len
          BY <1>11, <2>1
        <5>3. leaf_segments[k].begin <= p /\ p < leaf_segments[k].begin + leaf_segments[k].len
          BY <1>4, <1>12, <3>2, <4>1, <5>2
        <5> QED BY <1>11, <5>1, <5>3
      <4>3. leaf_segments[k].begin = leaf_segments[m].begin
        BY <1>8, <4>2
      <4> QED BY <1>4, <3>2, <4>3
    <3>3. \A m \in D : \/ leaf_segments[m].begin <= leaf_segments[k].begin
                       \/ leaf_segments[m].begin > i
      BY <1>4, <1>12, <3>2
    <3> QED BY <3>1, <3>3 DEF SegmentsAt
  <2>2. ASSUME k \in SegmentsAt(i) PROVE i \in At(k)
    <3>1. PICK m \in D : i \in At(m)
      BY <1>9
    <3>2. leaf_segments[k].begin <= i
          /\ \/ leaf_segments[m].begin <= leaf_segments[k].begin
             \/ leaf_segments[m].begin > i
      BY <2>2 DEF SegmentsAt
    <3>3. leaf_segments[m].begin <= i /\ i < leaf_segments[m].begin + leaf_segments[m].len
      BY <1>11, <3>1
    <3>4. leaf_segments[m].begin <= leaf_segments[k].begin
      BY <1>4, <1>12, <3>2, <3>3
    <3>5. PICK p : p = leaf_segments[k].begin
      OBVIOUS
    <3>6. p \in At(k) /\ p \in At(m)
      <4>1. p \in At(k) /\ p \in Int
        BY <1>4, <1>10, <3>5
      <4>2. p < leaf_segments[m].begin + leaf_segments[m].len
        BY <1>4, <1>12, <3>2, <3>3, <3>5
      <4> QED BY <1>11, <3>4, <3>5, <4>1, <4>2
    <3>7. leaf_segments[k].begin = leaf_segments[m].begin
          /\ leaf_segments[k].len = leaf_segments[m].len
      BY <1>8, <3>6
    <3> QED BY <1>11, <1>12, <3>3, <3>7
  <2> QED BY <2>1, <2>2
<1> QED BY <1>2, <1>3, <1>7, <1>13 DEF At, H

(* Host and device both add to each training row the one leaf a traversal  *)
(* of the finished tree reaches.                                           *)
THEOREM ScoresTraverse == Spec => []ScoresMatchTraversal
<1>1. IInv => ScoresMatchTraversal
  <2> SUFFICES ASSUME IInv, pc = "done", NEW r \in Rows
               PROVE  /\ HostLeaves(r) = {n \in Leaves : r \in Routed[n]}
                      /\ DeviceLeaves(r) = {n \in Leaves : r \in Routed[n]}
    BY DEF ScoresMatchTraversal
  <2> DEFINE D == DOMAIN leaf_segments
             At(k) == Span(leaf_segments[k].begin, leaf_segments[k].len)
             H(e) == Holding(e, RowSet(e))
             X == {leaf_segments[k].nid : k \in {k \in D : r \in RowSet(leaf_segments[k])}}
  <2>1. PICK f \in [DOMAIN tree -> SUBSET Rows] : f = Routed /\ \A s \in Live : s.rows = f[s.nid]
    BY RoutedIs
  <2>2. /\ Live = {H(e) : e \in Elems(leaf_segments)}
        /\ \A k \in D : \A i \in At(k) : i \in Positions /\ side[i] = side[leaf_segments[k].begin]
        /\ \A i \in Positions : \A k \in D : k \in SegmentsAt(i) <=> i \in At(k)
    BY LeavesListed
  <2>3. Leaves = {s.nid : s \in Live}
    BY DEF IInv, TreeInv, Dealing
  <2>4. ASSUME NEW k \in D
        PROVE  /\ leaf_segments[k].nid \in Leaves
               /\ Routed[leaf_segments[k].nid] = RowSet(leaf_segments[k])
    <3>1. PICK s \in Live : s = H(leaf_segments[k])
      BY <2>2 DEF Elems
    <3>2. s.nid = leaf_segments[k].nid /\ s.rows = RowSet(leaf_segments[k])
      BY <3>1 DEF Holding
    <3>3. s.nid \in Leaves /\ Routed[s.nid] = s.rows
      BY <2>1, <2>3, <3>1
    <3> QED BY <3>2, <3>3
  <2>5. ASSUME NEW n \in Leaves PROVE \E k \in D : n = leaf_segments[k].nid
    <3>1. PICK s \in Live : n = s.nid
      BY <2>3
    <3>2. PICK k \in D : s = H(leaf_segments[k])
      BY <2>2 DEF Elems
    <3>3. s.nid = leaf_segments[k].nid
      BY <3>2 DEF Holding
    <3> QED BY <3>1, <3>3
  <2>6. {n \in Leaves : r \in Routed[n]} = X
    <3>1. \A n \in Leaves : r \in Routed[n] => n \in X
      BY <2>4, <2>5
    <3>2. \A n \in X : n \in Leaves /\ r \in Routed[n]
      BY <2>4
    <3> QED BY <3>1, <3>2
  <2>7. ASSUME NEW k \in D
        PROVE  r \in RowSet(leaf_segments[k])
                 <=> \E i \in At(k) : bufs[side[leaf_segments[k].begin]][i] = r
    BY DEF RowSet, RowsOf
  <2>8. HostLeaves(r) = X
    <3>1. \A k \in D : \A i \in At(k) : RowAt(i, i) = bufs[side[leaf_segments[k].begin]][i]
      BY <2>2 DEF RowAt
    <3>2. \A k \in D : (\E i \in At(k) : RowAt(i, i) = r) <=> r \in RowSet(leaf_segments[k])
      BY <2>7, <3>1
    <3>3. HostLeaves(r)
            = {leaf_segments[k].nid : k \in {k \in D : \E i \in At(k) : RowAt(i, i) = r}}
      BY DEF HostLeaves
    <3>4. {k \in D : \E i \in At(k) : RowAt(i, i) = r} = {k \in D : r \in RowSet(leaf_segments[k])}
      BY <3>2
    <3> HIDE DEF At
    <3> QED BY <3>3, <3>4
  <2>9. DeviceLeaves(r) = X
    <3> DEFINE P == UNION {{m \in SegmentsAt(i) : RowAt(i, leaf_segments[m].begin) = r}
                             : i \in Positions}
    <3>1. DeviceLeaves(r) = {leaf_segments[k].nid : k \in P}
      BY DEF DeviceLeaves
    <3>2. \A i : SegmentsAt(i) \subseteq D
      BY DEF SegmentsAt
    <3>3. ASSUME NEW k \in P PROVE k \in D /\ r \in RowSet(leaf_segments[k])
      <4>1. PICK i \in Positions : k \in SegmentsAt(i) /\ RowAt(i, leaf_segments[k].begin) = r
        OBVIOUS
      <4>2. k \in D /\ i \in At(k)
        BY <2>2, <3>2, <4>1
      <4>3. bufs[side[leaf_segments[k].begin]][i] = r
        BY <4>1 DEF RowAt
      <4> QED BY <2>7, <4>2, <4>3
    <3>4. ASSUME NEW k \in D, r \in RowSet(leaf_segments[k]) PROVE k \in P
      <4>1. PICK i \in At(k) : bufs[side[leaf_segments[k].begin]][i] = r
        BY <2>7, <3>4
      <4>2. i \in Positions /\ k \in SegmentsAt(i)
        BY <2>2, <4>1
      <4>3. RowAt(i, leaf_segments[k].begin) = r
        BY <4>1 DEF RowAt
      <4> QED BY <4>2, <4>3
    <3> HIDE DEF P
    <3>5. P = {k \in D : r \in RowSet(leaf_segments[k])}
      BY <3>3, <3>4
    <3> QED BY <3>1, <3>5
  <2> QED BY <2>6, <2>8, <2>9
<1> QED BY <1>1, Invariant, PTL

-----------------------------------------------------------------------------
(* The refinement of LeafSplitting. *)

(* The row sets of the live segments, unless some are dealt and some are   *)
(* not; and what a dealt one leaves.                                       *)
RowsListed ==
  pc # "tree" /\ (pc \in Dealing => todo = DOMAIN batch) => LiveRowSets = {s.rows : s \in Live}
DealtParts ==
  pc \in Dealing => \A k \in DOMAIN batch :
    LET rows == BatchRows(batch[k])
    IN Dealt(k) = IF k \in todo THEN {rows} ELSE {rows \cap batch[k].rule, rows \ batch[k].rule}

(* The rows of a batch, dealt or not, are the parts of its candidates.     *)
LEMMA DealtIs ==
  ASSUME IInv, pc \in Dealing, NEW k \in DOMAIN batch
  PROVE  Dealt(k) = IF k \in todo THEN {BatchRows(batch[k])}
                    ELSE {BatchRows(batch[k]) \cap batch[k].rule,
                          BatchRows(batch[k]) \ batch[k].rule}
<1>1. PICK e : e = batch[k]
  OBVIOUS
<1>2. BatchRows(e) = RowsOf(1 - cur, e.begin, e.len)
  BY DEF BatchRows, Dealing
<1>3. CASE k \in todo
  BY <1>1, <1>2, <1>3 DEF Dealt
<1>4. CASE k \notin todo
  <2>1. /\ left_counts[k] \in 1 .. e.len - 1
        /\ RowsOf(cur, e.begin, left_counts[k]) = BatchRows(e) \cap e.rule
        /\ RowsOf(cur, e.begin + left_counts[k], e.len - left_counts[k]) = BatchRows(e) \ e.rule
    BY <1>1, <1>2, <1>4 DEF IInv, DealtInv
  <2>2. e \in Elems(batch)
    BY <1>1 DEF Elems
  <2>3. e.begin \in Int /\ e.len \in Nat
    <3>1. e.begin \in Positions /\ e.len \in Nat
      BY <2>2, LiveApart DEF Dealing, InBatch
    <3> QED BY <3>1, GpuGrowerAssumption DEF Positions
  <2>4. e.begin \in Span(e.begin, e.len) /\ e.begin + left_counts[k] \in Span(e.begin, e.len)
    BY <2>1, <2>3 DEF Span
  <2>5. side[e.begin] = cur /\ side[e.begin + left_counts[k]] = cur
    BY <2>2, <2>4 DEF IInv, SideInv, OneSide
  <2>6. /\ RowSet(LeftSegment(k)) = RowsOf(cur, e.begin, left_counts[k])
        /\ RowSet(RightSegment(k)) = RowsOf(cur, e.begin + left_counts[k], e.len - left_counts[k])
    BY <1>1, <2>5 DEF RowSet, LeftSegment, RightSegment
  <2>7. Dealt(k) = {RowSet(LeftSegment(k)), RowSet(RightSegment(k))}
    BY <1>4 DEF Dealt
  <2> QED BY <1>1, <1>4, <2>1, <2>6, <2>7
<1> QED BY <1>3, <1>4

(* The row sets that are live are those of the leaves, the queue and the   *)
(* batch.                                                                  *)
LEMMA LiveRows ==
  ASSUME IInv, pc # "tree", pc \in Dealing => todo = DOMAIN batch
  PROVE  LiveRowSets = {s.rows : s \in Live}
<1>1. \A e : Holding(e, RowSet(e)).rows = RowSet(e) /\ Holding(e, BatchRows(e)).rows = BatchRows(e)
  BY DEF Holding
<1> DEFINE W == {RowSet(e) : e \in Waiting}
           B == IF pc \in InBatch THEN {BatchRows(e) : e \in Elems(batch)} ELSE {}
<1>2. {s.rows : s \in Live} = W \cup B
  <2>1. ASSUME NEW s \in Live PROVE s.rows \in W \cup B
    <3>1. CASE \E e \in Waiting : s = Holding(e, RowSet(e))
      BY <1>1, <3>1
    <3>2. CASE pc \in InBatch /\ \E e \in Elems(batch) : s = Holding(e, BatchRows(e))
      BY <1>1, <3>2
    <3> QED BY <2>1, <3>1, <3>2 DEF Live
  <2>2. ASSUME NEW x \in W PROVE \E s \in Live : x = s.rows
    <3>1. PICK e \in Waiting : x = RowSet(e)
      BY <2>2
    <3>2. Holding(e, RowSet(e)) \in Live
      BY DEF Live
    <3> QED BY <1>1, <3>1, <3>2
  <2>3. ASSUME NEW x \in B PROVE \E s \in Live : x = s.rows
    <3>1. pc \in InBatch
      BY <2>3
    <3>2. PICK e \in Elems(batch) : x = BatchRows(e)
      BY <2>3, <3>1
    <3>3. Holding(e, BatchRows(e)) \in Live
      BY <3>1 DEF Live
    <3> QED BY <1>1, <3>2, <3>3
  <2> HIDE DEF W, B
  <2> QED BY <2>1, <2>2, <2>3
<1>3. CASE pc \in Dealing
  <2>1. \A k \in DOMAIN batch : Dealt(k) = {BatchRows(batch[k])}
    BY <1>3, DealtIs
  <2>2. UNION {Dealt(k) : k \in DOMAIN batch} = {BatchRows(e) : e \in Elems(batch)}
    BY <2>1 DEF Elems
  <2>3. pc \in InBatch /\ pc # "apply" /\ pc \in {"partition", "build"}
    BY <1>3 DEF InBatch, Dealing
  <2>4. LiveRowSets = W \cup UNION {Dealt(k) : k \in DOMAIN batch}
    BY <2>3 DEF LiveRowSets, Waiting
  <2> QED BY <1>2, <2>2, <2>3, <2>4
<1>4. CASE pc = "apply"
  <2>1. \A e : BatchRows(e) = RowSet(e)
    BY <1>4 DEF BatchRows
  <2>2. LiveRowSets = {RowSet(e) : e \in Waiting \cup Elems(batch)}
    BY <1>4 DEF LiveRowSets, Waiting
  <2>3. B = {RowSet(e) : e \in Elems(batch)}
    BY <1>4, <2>1 DEF InBatch
  <2> QED BY <1>2, <2>2, <2>3
<1>5. CASE pc \notin Dealing /\ pc # "apply"
  <2>1. pc \notin InBatch /\ pc \notin {"partition", "build"}
    BY <1>5 DEF Dealing, InBatch
  <2>2. LiveRowSets = W
    BY <1>5, <2>1 DEF LiveRowSets, Waiting
  <2> QED BY <1>2, <2>1, <2>2
<1> QED BY <1>3, <1>4, <1>5

(* The row sets of the mapping are the live ones.                          *)
LEMMA RowsAre == IInv => RowsListed /\ DealtParts
BY LiveRows, DealtIs DEF RowsListed, DealtParts

(* A segment that is dealt leaves two in its place.                        *)
LEMMA DealSplits ==
  ASSUME IInv, DealtParts', PartitionSegment
  PROVE  \E leaf \in LiveRowSets : \E left \in (SUBSET leaf) \ {{}, leaf} :
           LiveRowSets' = (LiveRowSets \ {leaf}) \cup {left, leaf \ left}
<1>1. /\ Waiting' = Waiting /\ \A d \in Waiting : RowSet(d)' = RowSet(d)
      /\ \A d : BatchRows(d)' = BatchRows(d)
  BY DealKeeps
<1>2. PICK k \in todo : todo' = todo \ {k}
  BY DEF PartitionSegment
<1>3. /\ pc = "partition" /\ pc' \in {"partition", "build"} /\ batch' = batch
      /\ todo \subseteq DOMAIN batch /\ batch \in Seq(Entries)
  BY DEF PartitionSegment, IInv, PhaseInv, TypeInv
<1> DEFINE W == {RowSet(d) : d \in Waiting}
           J == DOMAIN batch
           rows(j) == BatchRows(batch[j])
           left(j) == rows(j) \cap batch[j].rule
           D(j) == IF j \in todo THEN {rows(j)} ELSE {left(j), rows(j) \ left(j)}
           leaf == rows(k)
           part == left(k)
           Others == W \cup UNION {D(j) : j \in J \ {k}}
<1>4. /\ \A j \in J : Dealt(j) = D(j)
      /\ LiveRowSets = W \cup UNION {Dealt(j) : j \in J}
  <2>1. ASSUME NEW j \in J PROVE Dealt(j) = D(j)
    <3>1. rows(j) \ left(j) = rows(j) \ batch[j].rule
      OBVIOUS
    <3> QED BY <1>3, <3>1, DealtIs DEF Dealing
  <2>2. LiveRowSets = W \cup UNION {Dealt(j) : j \in J}
    BY <1>3 DEF LiveRowSets, Waiting
  <2> QED BY <2>1, <2>2
<1>5. /\ \A j \in J : j # k => Dealt(j)' = D(j)
      /\ Dealt(k)' = {part, leaf \ part}
      /\ LiveRowSets' = W \cup UNION {Dealt(j)' : j \in J}
  <2>1. ASSUME NEW j \in J
        PROVE  Dealt(j)' = IF j \in todo' THEN {rows(j)} ELSE {left(j), rows(j) \ left(j)}
    <3>1. PICK e : e = batch[j]
      OBVIOUS
    <3>2. batch'[j] = e /\ BatchRows(e)' = BatchRows(e)
      BY <1>1, <1>3, <3>1
    <3>3. Dealt(j)' = IF j \in todo' THEN {BatchRows(e)'}
                      ELSE {BatchRows(e)' \cap e.rule, BatchRows(e)' \ e.rule}
      BY <1>3, <3>2 DEF DealtParts, Dealing, BatchRows, RowsOf, RowSet
    <3>4. BatchRows(e) \ (BatchRows(e) \cap e.rule) = BatchRows(e) \ e.rule
      OBVIOUS
    <3> QED BY <3>1, <3>2, <3>3, <3>4
  <2>2. LiveRowSets' = {RowSet(d)' : d \in Waiting'} \cup UNION {Dealt(j)' : j \in J}
    BY <1>3 DEF LiveRowSets, Waiting
  <2>3. {RowSet(d)' : d \in Waiting'} = W
    BY <1>1
  <2>4. k \in J /\ \A j \in J : j # k => (j \in todo' <=> j \in todo)
    BY <1>2, <1>3
  <2>5. ASSUME NEW j \in J, j # k PROVE Dealt(j)' = D(j)
    <3> HIDE DEF rows, left
    <3> QED BY <2>1, <2>4, <2>5
  <2>6. Dealt(k)' = {part, leaf \ part}
    <3>1. k \notin todo'
      BY <1>2
    <3> HIDE DEF rows, left
    <3> QED BY <2>1, <2>4, <3>1
  <2>7. LiveRowSets' = W \cup UNION {Dealt(j)' : j \in J}
    <3> HIDE DEF W
    <3> QED BY <2>2, <2>3
  <2> HIDE DEF W, D, leaf, part
  <2> QED BY <2>5, <2>6, <2>7
<1>6. k \in J
  BY <1>2, <1>3
<1>7. leaf # {} /\ part \in (SUBSET leaf) \ {{}, leaf}
  <2>1. batch[k] \in Elems(batch)
    BY <1>6 DEF Elems
  <2>2. Separates(batch[k], rows(k))
    BY <1>3, <2>1 DEF IInv, CandidateInv, InBatch
  <2> QED BY <2>2 DEF Separates
<1>8. ASSUME NEW x \in Others PROVE x # leaf
  <2>1. Tiles(Live)
    BY <1>3 DEF IInv, TileInv
  <2>2. PICK p : p = Holding(batch[k], leaf)
    OBVIOUS
  <2>3. p \in Live /\ p.rows = leaf /\ p.nid = batch[k].nid /\ batch[k] \in Elems(batch)
    <3>1. batch[k] \in Elems(batch)
      BY <1>6 DEF Elems
    <3>2. p \in Live
      BY <1>3, <2>2, <3>1 DEF Live, InBatch
    <3> QED BY <2>2, <3>1, <3>2 DEF Holding
  <2>4. CASE x \in W
    <3>1. PICK d \in Waiting : x = RowSet(d)
      BY <2>4
    <3>2. PICK q : q = Holding(d, RowSet(d))
      OBVIOUS
    <3>3. q \in Live /\ q.rows = x /\ q.nid = d.nid
      BY <3>1, <3>2 DEF Live, Holding
    <3>4. d.nid # batch[k].nid
      BY <1>3, <2>3, LiveApart DEF InBatch
    <3>5. p.rows \cap q.rows = {}
      BY <2>1, <2>3, <3>3, <3>4 DEF Tiles
    <3> QED BY <1>7, <2>3, <3>3, <3>5
  <2>5. CASE x \in UNION {D(j) : j \in J \ {k}}
    <3>1. PICK j \in J \ {k} : x \in D(j)
      BY <2>5
    <3>2. PICK q : q = Holding(batch[j], rows(j))
      OBVIOUS
    <3>3. q \in Live /\ q.rows = rows(j) /\ q.nid = batch[j].nid
      <4>1. batch[j] \in Elems(batch)
        BY <3>1 DEF Elems
      <4>2. q \in Live
        BY <1>3, <3>2, <4>1 DEF Live, InBatch
      <4> QED BY <3>2, <4>2 DEF Holding
    <3>4. batch[j].nid # batch[k].nid
      BY <1>6, <3>1 DEF IInv, OnceInv, Once
    <3>5. p.rows \cap q.rows = {}
      BY <2>1, <2>3, <3>3, <3>4 DEF Tiles
    <3>6. x \subseteq rows(j)
      BY <3>1
    <3> QED BY <1>7, <2>3, <3>3, <3>5, <3>6
  <2> QED BY <1>8, <2>4, <2>5
<1>9. LiveRowSets = Others \cup {leaf}
  <2>1. D(k) = {leaf}
    BY <1>2
  <2> HIDE DEF D, W, leaf
  <2> QED BY <1>4, <1>6, <2>1
<1>10. LiveRowSets' = Others \cup {part, leaf \ part}
  <2> HIDE DEF D, W, leaf, part
  <2> QED BY <1>5, <1>6
<1> HIDE DEF Others, leaf, part
<1>11. LiveRowSets' = (LiveRowSets \ {leaf}) \cup {part, leaf \ part} /\ leaf \in LiveRowSets
  BY <1>8, <1>9, <1>10
<1> QED BY <1>7, <1>11

(* What the children of a batch hold when they are listed is what the      *)
(* segments hold once all are dealt.                                       *)
LEMMA ListSame ==
  ASSUME IInv, RowsListed', BuildHists
  PROVE  LiveRowSets' = LiveRowSets
<1> DEFINE K == UNION {KidSegs(k) : k \in DOMAIN batch}
<1>1. Live' = {Holding(x, RowSet(x)) : x \in Waiting \cup K}
  BY BuildKeeps
<1>2. pc = "build" /\ todo = {} /\ pc' \in {"pop", "subtract"}
  BY DEF BuildHists, IInv, PhaseInv
<1>3. LiveRowSets' = {s.rows : s \in Live'}
  BY <1>2 DEF RowsListed, Dealing
<1>4. \A x : Holding(x, RowSet(x)).rows = RowSet(x)
  BY DEF Holding
<1> HIDE DEF K
<1>5. LiveRowSets' = {RowSet(x) : x \in Waiting \cup K}
  BY <1>1, <1>3, <1>4
<1>6. \A k \in DOMAIN batch : Dealt(k) = {RowSet(x) : x \in KidSegs(k)}
  BY <1>2 DEF Dealt, KidSegs
<1>7. UNION {Dealt(k) : k \in DOMAIN batch} = {RowSet(x) : x \in K}
  BY <1>6 DEF K
<1>8. LiveRowSets = {RowSet(x) : x \in Waiting} \cup UNION {Dealt(k) : k \in DOMAIN batch}
  BY <1>2 DEF LiveRowSets, Waiting
<1> QED BY <1>5, <1>7, <1>8

(* What the grower does to the row sets, LeafSplitting does: a segment     *)
(* that is dealt is a Split, an empty batch a Stop, another tree a         *)
(* NextTree, and every other step a stutter.                               *)
THEOREM SplittingSafety == Spec => Splitting!Init /\ [][Splitting!Next]_Splitting!vars
<1>1. Init => Splitting!Init
  BY DEF Init, Splitting!Init, LiveRowSets
<1>2. IInv' => RowsListed' /\ DealtParts'
  BY RowsAre, PTL
<1>3. IInv /\ [Next]_vars => [Splitting!Next]_Splitting!vars
  <2> SUFFICES ASSUME IInv, [Next]_vars
               PROVE  Splitting!Next \/ UNCHANGED Splitting!vars
    OBVIOUS
  <2>1. /\ IInv' /\ RowsListed' /\ DealtParts' /\ RowsListed /\ DealtParts
    BY <1>2, InvariantKept, RowsAre
  <2>2. CASE PartitionSegment
    <3>1. pc = "partition" /\ pc' # "done" /\ trees' = trees
      BY <2>2 DEF PartitionSegment
    <3>2. \E leaf \in LiveRowSets : \E left \in (SUBSET leaf) \ {{}, leaf} :
            LiveRowSets' = (LiveRowSets \ {leaf}) \cup {left, leaf \ left}
      BY <2>1, <2>2, DealSplits
    <3> QED BY <3>1, <3>2 DEF Splitting!Next, Splitting!Split
  <2>3. CASE PopBatch
    <3>1. pc = "pop" /\ pc' \in {"apply", "done"} /\ trees' = trees
      BY <2>3 DEF PopBatch
    <3>2. LiveRowSets' = LiveRowSets
      BY <2>1, <2>3, <3>1, PopKeeps DEF RowsListed, Dealing
    <3> QED BY <3>1, <3>2 DEF Splitting!Next, Splitting!Stop, Splitting!vars
  <2>4. CASE StartTree
    <3>1. pc = "tree" /\ pc' = "pop" /\ trees' = trees
      BY <2>4 DEF StartTree
    <3>2. PICK e : Live' = {Holding(e, Rows)}
      BY <2>4, StartTreeKeeps
    <3>3. LiveRowSets' = {Rows}
      BY <2>1, <3>1, <3>2 DEF RowsListed, Dealing, Holding
    <3>4. LiveRowSets = {Rows}
      BY <3>1 DEF LiveRowSets
    <3> QED BY <3>1, <3>3, <3>4 DEF Splitting!vars
  <2>5. CASE ApplySplits
    <3>1. pc = "apply" /\ pc' = "partition" /\ trees' = trees /\ todo' = DOMAIN batch'
      BY <2>5 DEF ApplySplits
    <3>2. LiveRowSets' = LiveRowSets
      BY <2>1, <2>5, <3>1, ApplyKeeps DEF RowsListed, Dealing
    <3> QED BY <3>1, <3>2 DEF Splitting!vars
  <2>6. CASE BuildHists
    <3>1. pc = "build" /\ pc' # "done" /\ trees' = trees
      BY <2>6 DEF BuildHists
    <3>2. LiveRowSets' = LiveRowSets
      BY <2>1, <2>6, ListSame
    <3> QED BY <3>1, <3>2 DEF Splitting!vars
  <2>7. CASE SubtractHists
    <3>1. pc = "subtract" /\ pc' = "evaluate" /\ trees' = trees
      BY <2>7 DEF SubtractHists
    <3>2. LiveRowSets' = LiveRowSets
      BY <2>1, <2>7, <3>1, SubtractKeeps DEF RowsListed, Dealing
    <3> QED BY <3>1, <3>2 DEF Splitting!vars
  <2>8. CASE EvaluateChild
    <3>1. pc = "evaluate" /\ pc' \in {"pop", "evaluate"} /\ trees' = trees
      BY <2>8 DEF EvaluateChild
    <3>2. LiveRowSets' = LiveRowSets
      BY <2>1, <2>8, <3>1, EvaluateKeeps DEF RowsListed, Dealing
    <3> QED BY <3>1, <3>2 DEF Splitting!vars
  <2>9. CASE NextTree
    <3>1. pc = "done" /\ pc' = "tree" /\ trees' = trees + 1 /\ trees < param.rounds
      BY <2>9 DEF NextTree
    <3>2. trees < MaxTrees
      <4>1. param.rounds \in 1 .. MaxTrees /\ trees \in Int /\ MaxTrees \in Nat
        BY GpuGrowerAssumption DEF IInv, TypeInv
      <4> QED BY <3>1, <4>1
    <3>3. LiveRowSets' = {Rows}
      BY <3>1 DEF LiveRowSets
    <3> QED BY <3>1, <3>2, <3>3 DEF Splitting!Next, Splitting!NextTree
  <2>10. CASE UNCHANGED vars
    <3>1. pc' = pc /\ trees' = trees /\ todo' = todo /\ batch' = batch /\ cur' = cur
          /\ bufs' = bufs /\ side' = side /\ queue' = queue /\ children' = children
          /\ leaf_segments' = leaf_segments /\ left_counts' = left_counts /\ tree' = tree
      BY <2>10 DEF vars, partitioner
    <3>2. LiveRowSets' = LiveRowSets
      BY <3>1 DEF LiveRowSets, RowSet, RowsOf, Dealt, LeftSegment, RightSegment
    <3> QED BY <3>1, <3>2 DEF Splitting!vars
  <2> QED BY <2>2, <2>3, <2>4, <2>5, <2>6, <2>7, <2>8, <2>9, <2>10 DEF Next, Grow, Finished
<1> QED BY Invariant, <1>1, <1>3, PTL DEF Spec

=============================================================================
