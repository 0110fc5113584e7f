---------------------------- MODULE HistogramBuild ----------------------------
(***************************************************************************)
(* A batch of nodes' histograms: in row lanes and feature groups on the    *)
(* CPU's threads (src/tree/hist.rs), and on the device from quantised      *)
(* gradients (src/gpu/quantiser.rs), added by cubes with atomics or by     *)
(* chunks that own their cells (src/gpu/histogram.rs).                     *)
(*                                                                         *)
(* A CPU cell is the rows added to it in the order of the additions, lane  *)
(* by lane: equal cells are equal floating-point sums.  A device sum has   *)
(* 2 * HalfBits bits where the code's has 64, in two words.                *)
(***************************************************************************)
EXTENDS Sampling

CONSTANTS
  BlockRows, MaxLanes,       \* the CPU's row blocks, and its lanes
  LaneBudget,                \* cells of partial histograms for a node
  GroupMinUpdates,           \* (row, feature) visits worth feature groups
  HalfBits,                  \* bits of an atomic's word: 32
  ReduceRows, ReduceCubes,   \* rows worth a cube of a reduction, its cubes
  TileItems,                 \* (row, feature) items of a cube's tile
  MaxBlocks,                 \* cubes of a node, per feature group
  SharedBins,                \* bins of a cube's shared memory
  DeviceChunkRows, MaxChunks,\* rows of a chunk without atomics, and chunks
  LineBins, TouchRows,       \* bins of a cache line, rows touched together
  MostGroups                 \* bound on the host's feature groups

VARIABLES
  batch,      \* node -> its rows, in order
  target,     \* the target whose histograms are being built
  lane_buf,   \* <<node, lane>> -> bin -> rows added
  done,       \* the host tasks run: <<node, lane, group>>, and group 0 to zero
  hists,      \* target -> node -> bin -> lanes of rows
  fixed,      \* target -> row -> quantised <<grad, hess>>
  root_sum,   \* the targets' sums, added
  groups,     \* the feature groups: <<first feature, features>>
  words,      \* the frontier: two words for each sum
  shared,     \* the cubes whose additions are still to their shared memory
  todo,       \* cube -> the <<first word, value>> it has still to add
  carried,    \* cube -> <<>>, or the high word of the sum it is adding
  partials,   \* chunk -> bin -> <<grad, hess>>
  items       \* the chunks run

hostVars == <<lane_buf, done, hists>>
deviceVars == <<fixed, root_sum, groups, words, shared, todo, carried, partials, items>>
histVars == <<batch, target, hostVars, deviceVars>>
launchVars == <<dataVars, tree, rowVars, columnVars, hostVars, batch, fixed, root_sum, groups>>

Bins == 0 .. TotalBins - 1

(* The rows of the batch's nodes: the root's, or those of the two sides of *)
(* a split of it at fit.split, missing values going left.                  *)
BatchBy(cell) ==
  IF fit.split = <<>> THEN <<Indices(NumRow)>>
  ELSE LET left(r) == cell[r, fit.split[1]] <= fit.split[2]
       IN <<SelectSeq(Indices(NumRow), left), SelectSeq(Indices(NumRow), LAMBDA r : ~left(r))>>

-----------------------------------------------------------------------------
(* hist.rs. *)

(* lanes_for. *)
LanesFor(n_rows) ==
  LesserOf(LesserOf(GreaterOf(CeilDiv(n_rows, BlockRows), 1), MaxLanes),
           GreaterOf(LaneBudget \div GreaterOf(TotalBins, 1), 1))

(* Whether a node's lanes are cut into feature groups, and into how many.  *)
Grouped(rows, lanes) ==
  /\ fit.lossguide /\ index.is_dense
  /\ Len(rows) * index.row_stride >= GroupMinUpdates
  /\ IF lanes = 1 THEN fit.threads > 1 ELSE lanes * 2 <= fit.threads
GroupsOf(rows, lanes) ==
  IF ~Grouped(rows, lanes) THEN 1
  ELSE GreaterOf(LesserOf(CeilDiv(fit.threads, lanes), index.row_stride), 1)
GroupFeatures(g, n) ==   \* g from 1
  {f \in Columns : /\ ((g - 1) * matrix.num_col) \div n <= f
                   /\ f < (g * matrix.num_col) \div n}

(* Lane l takes blocks l, l + lanes, ... in order.                         *)
LaneRows(rows, lane, lanes) ==
  Pick(rows, {k \in DOMAIN rows : ((k - 1) \div BlockRows) % lanes = lane})

(* build_dense and build_sparse: each row in turn into the cells of its    *)
(* bins.                                                                   *)
AddRows(hist, rows, features) ==
  Accumulate(LAMBDA h, r :
      LET bins == RowGlobalBins(r)
          mine == {bins[k] : k \in {k \in DOMAIN bins : ~index.is_dense \/ (k - 1) \in features}}
      IN [b \in Bins |-> IF b \in mine THEN Append(h[b], r) ELSE h[b]],
    hist, rows)

Empty == [b \in Bins |-> <<>>]
StaleRow == 0
Stale == [b \in Bins |-> <<StaleRow>>]

HostTasks ==
  UNION {LET rows == batch[i] lanes == LanesFor(Len(rows))
         IN {i} \X (0 .. lanes - 1) \X (0 .. GroupsOf(rows, lanes)) : i \in DOMAIN batch}

StartHost ==
  /\ phase = "hist" /\ ~fit.device
  /\ batch' = BatchBy([r \in Rows, f \in Columns |-> ColumnGet(f, r)])
  /\ target' = 1 /\ done' = {}
  /\ hists' = [t \in Targets |-> <<>>]
  /\ lane_buf' = [at \in (DOMAIN batch') \X (0 .. MaxLanes - 1) |-> Stale]
  /\ phase' = "lanes"
  /\ UNCHANGED <<dataVars, tree, rowVars, columnVars, deviceVars>>

(* A lane's buffer is zeroed, then its groups run side by side.            *)
RunTask(task) ==
  LET at == <<task[1], task[2]>>
      rows == batch[task[1]]
      lanes == LanesFor(Len(rows))
      features == GroupFeatures(task[3], GroupsOf(rows, lanes))
  IN /\ phase = "lanes" /\ task \in HostTasks \ done
     /\ task[3] # 0 => <<task[1], task[2], 0>> \in done
     /\ lane_buf' = [lane_buf EXCEPT ![at] =
                       IF task[3] = 0 THEN Empty
                       ELSE AddRows(@, LaneRows(rows, task[2], lanes), features)]
     /\ done' = done \cup {task}
     /\ UNCHANGED <<dataVars, phase, tree, rowVars, columnVars, batch, target, hists, deviceVars>>

(* The lanes are joined in lane order; then the next target's pass.        *)
ReduceLanes ==
  /\ phase = "lanes" /\ done = HostTasks
  /\ hists' = [hists EXCEPT ![target] =
       [i \in DOMAIN batch |-> [b \in Bins |->
          [l \in 1 .. LanesFor(Len(batch[i])) |-> lane_buf[<<i, l - 1>>][b]]]]]
  /\ done' = {}
  /\ IF target = Cardinality(Targets) THEN phase' = "nodes" /\ UNCHANGED target
     ELSE target' = target + 1 /\ UNCHANGED phase
  /\ UNCHANGED <<dataVars, tree, rowVars, columnVars, batch, lane_buf, deviceVars>>

-----------------------------------------------------------------------------
(* quantiser.rs. *)

SumBits == 2 * HalfBits
Wrap(v) == ((v + 2^(SumBits - 1)) % 2^SumBits) - 2^(SumBits - 1)

(* The reductions run in cubes of consecutive rows.                        *)
ReduceGrid == LesserOf(GreaterOf(CeilDiv(NumRow, ReduceRows), 1), ReduceCubes)
CubeRows(c) ==
  LET chunk == GreaterOf(CeilDiv(NumRow, ReduceGrid), 1)
  IN SelectSeq(Indices(NumRow), LAMBDA r : (c - 1) * chunk < r /\ r <= c * chunk)

(* gpair_bounds_kernel: a cube's positive and negative parts.              *)
Positive(a) == IF Below(Zero, a) THEN a ELSE Zero
PlusBoth(a, b) == <<Plus(a[1], b[1]), Plus(a[2], b[2])>>
CubeBounds(t, channel, c) ==
  Accumulate(LAMBDA s, r : LET v == gpair[t][r][channel]
                           IN PlusBoth(s, <<Positive(v), Positive(Minus(Zero, v))>>),
             <<Zero, Zero>>, CubeRows(c))

(* new_on_device: the greater of the positive and the negative part of     *)
(* each target, added up.                                                  *)
Bound(channel) ==
  Accumulate(LAMBDA total, t :
      LET parts == Accumulate(LAMBDA s, c : PlusBoth(s, CubeBounds(t, channel, c)),
                              <<Zero, Zero>>, Indices(ReduceGrid))
      IN Plus(total, IF Below(parts[1], parts[2]) THEN parts[2] ELSE parts[1]),
    Zero, Indices(Cardinality(Targets)))

(* create_rounding_factor: the power of two above the bound.               *)
TwoTo(e) == IF e >= 0 THEN <<2^e, 1>> ELSE <<1, 2^(-e)>>
RoundingFactor(bound) ==
  IF bound = Zero THEN TwoTo(0)
  ELSE TwoTo(CHOOSE e \in (1 - SumBits) .. 2 * SumBits :
               Below(bound, TwoTo(e)) /\ AtMost(TwoTo(e - 1), bound))

(* to_fixed_point: the factor is given 2^(SumBits - 2), and the quotient   *)
(* truncated; a positive hessian stays positive.                           *)
ToFixed(v, factor) ==
  LET n == v[1] * 2^(SumBits - 2) * factor[2]
      d == v[2] * factor[1]
  IN IF n >= 0 THEN n \div d ELSE -((-n) \div d)
Quantised ==
  LET by_grad == RoundingFactor(Bound(1))
      by_hess == RoundingFactor(Bound(2))
      pair(g) == LET hess == ToFixed(g[2], by_hess)
                 IN <<ToFixed(g[1], by_grad),
                      IF Below(Zero, g[2]) /\ hess = 0 THEN 1 ELSE hess>>
  IN [t \in Targets |-> Table([r \in Rows |-> pair(gpair[t][r])])]

AddWrapped(a, b) == <<Wrap(a[1] + b[1]), Wrap(a[2] + b[2])>>
(* gpair_sum_kernel, and the sum of its cubes.                             *)
CubeSum(t, quantised, c) ==
  Accumulate(LAMBDA s, r : AddWrapped(s, quantised[t][r]), <<0, 0>>, CubeRows(c))
SumOf(t, quantised) ==
  Accumulate(LAMBDA s, c : AddWrapped(s, CubeSum(t, quantised, c)), <<0, 0>>, Indices(ReduceGrid))

-----------------------------------------------------------------------------
(* histogram.rs: what is launched. *)

DeviceCell(r, f) ==
  LET bin == LoadBin(ell.gidx_t, f * NumRow + r - 1, ell.bits)
  IN IF bin = ell.null_value THEN NoBin ELSE bin

(* A node's slot has a histogram for each target.                          *)
SlotOf(j, t) == ((j - 1) * Cardinality(Targets) + t - 1) * TotalBins
WordAt(bin, channel) == 4 * bin + 2 * channel - 1   \* of the low word, from 1
HalfSize == 2^HalfBits
LoWord(v) == v % HalfSize
HiWord(v) == (v \div HalfSize) % HalfSize
Joined(lo, hi) == Wrap(hi * HalfSize + lo)
AtomicFree == fit.atomics = "none"

(* frontier: zeroed where kernels add, as it comes where they write.       *)
StaleWord == 3
Frontier(n) ==
  [w \in 1 .. 4 * n * Cardinality(Targets) * TotalBins |->
     IF AtomicFree THEN StaleWord ELSE 0]

(* build_feature_groups: <<first feature, features>> whose bins fit, or    *)
(* one group of all of them, in global memory.                             *)
RECURSIVE GroupsFrom(_)
GroupsFrom(start) ==
  LET fits == {e \in start + 1 .. matrix.num_col : CutPtr(e) - CutPtr(start) <= SharedBins}
      rest == GroupsFrom(Largest(fits))
  IN IF start = matrix.num_col THEN <<>>
     ELSE IF \E f \in start .. matrix.num_col - 1 : Len(cuts[f]) > SharedBins THEN <<>>
     ELSE <<<<start, Largest(fits) - start>>>> \o rest
WholeGroup == <<<<0, matrix.num_col>>>>
UseShared == ~fit.force_global /\ GroupsFrom(0) # <<>>

Blocks(j) ==
  LET columns == CeilDiv(matrix.num_col, Len(groups))
  IN LesserOf(GreaterOf(CeilDiv(Len(batch[j]) * columns, TileItems), 1), MaxBlocks)
Cubes == {c \in (DOMAIN batch) \X (DOMAIN groups) \X (1 .. MaxBlocks) : c[3] <= Blocks(c[1])}

-----------------------------------------------------------------------------
(* hist_cube. *)

(* Entry i of a cube's rows and features, row by row, and whether the cube *)
(* counts it: it takes the tiles of its rank, then every Blocks-th one.    *)
EntryRow(c, i) == batch[c[1]][((i - 1) \div groups[c[2]][2]) + 1]
EntryFeature(c, i) == groups[c[2]][1] + ((i - 1) % groups[c[2]][2])
EntryBin(c, i) ==
  LoadBin(ell.gidx, (EntryRow(c, i) - 1) * matrix.num_col + EntryFeature(c, i), ell.bits)
Counted(c, i) ==
  /\ ((i - 1) \div TileItems) % Blocks(c[1]) = c[3] - 1
  /\ ell.dense \/ EntryBin(c, i) # ell.null_value

(* The additions of an entry: to the words of its bin's two sums.          *)
EntryAdds(c, i) ==
  LET bin == EntryBin(c, i) + CutPtr(EntryFeature(c, i))
      cell == SlotOf(c[1], target) + bin
      g == fixed[target][EntryRow(c, i)]
  IN <<<<WordAt(cell, 1), g[1]>>, <<WordAt(cell, 2), g[2]>>>>
CubeAdds(c) ==
  Accumulate(LAMBDA out, i : IF Counted(c, i) THEN out \o EntryAdds(c, i) ELSE out,
             <<>>, Indices(Len(batch[c[1]]) * groups[c[2]][2]))

(* atomic_add_i64_as_u32, on words nobody else is adding to.               *)
(* Mutated: off by one. *)
CarryOfPast(old, lo) == IF old + lo > HalfSize THEN 1 ELSE 0
CarryOf(old, lo) == IF old + lo >= HalfSize THEN 1 ELSE 0
AddTo(pair, v) ==
  <<(pair[1] + LoWord(v)) % HalfSize,
    (pair[2] + HiWord(v) + CarryOf(pair[1], LoWord(v))) % HalfSize>>

(* The histogram a cube adds up in its shared memory, and the additions to *)
(* the frontier it makes of it after its barrier, of the sums not zero.    *)
SharedHistogram(adds) ==
  Accumulate(LAMBDA h, add : [h EXCEPT ![add[1]] = AddTo(@, add[2])],
             [w \in {adds[k][1] : k \in DOMAIN adds} |-> <<0, 0>>], adds)
FlushAdds(h) ==
  LET nonzero == SelectSeq(Indices(Len(words)), LAMBDA w : w \in DOMAIN h /\ h[w] # <<0, 0>>)
  IN [k \in DOMAIN nonzero |-> <<nonzero[k], Joined(h[nonzero[k]][1], h[nonzero[k]][2])>>]

(* The row chunks of a node without atomics, <<job, chunk, rows>>.         *)
ChunkCount(n) == LesserOf(GreaterOf(CeilDiv(n, DeviceChunkRows), 1), MaxChunks)
Items ==
  UNION {LET rows == batch[j]
             pieces == ChunkCount(Len(rows))
             size == CeilDiv(Len(rows), pieces)
         IN {<<j, k, SubSeq(rows, (k - 1) * size + 1, LesserOf(k * size, Len(rows)))>> :
               k \in 1 .. pieces} : j \in DOMAIN batch}
IsDirect(item) == ChunkCount(Len(batch[item[1]])) = 1

StartDevice ==
  /\ phase = "hist" /\ fit.device
  /\ IF fit.force_global /\ AtomicFree
     THEN phase' = "refused" /\ UNCHANGED <<batch, target, deviceVars>>
     ELSE /\ batch' = BatchBy([r \in Rows, f \in Columns |-> DeviceCell(r, f)])
          /\ fixed' = Quantised
          /\ root_sum' = Accumulate(LAMBDA s, t : AddWrapped(s, SumOf(t, fixed')), <<0, 0>>,
                                    Indices(Cardinality(Targets)))
          /\ groups' = IF UseShared THEN GroupsFrom(0) ELSE WholeGroup
          /\ words' = Frontier(Len(batch')) /\ target' = 1
          /\ phase' = "launch"
          /\ UNCHANGED <<shared, todo, carried, partials, items>>
  /\ UNCHANGED <<dataVars, tree, rowVars, columnVars, hostVars>>

Launch ==
  /\ phase = "launch"
  /\ IF AtomicFree
     THEN /\ items' = {} /\ partials' = <<>> /\ phase' = "chunks"
          /\ UNCHANGED <<shared, todo, carried>>
     ELSE /\ todo' = [c \in Cubes |-> CubeAdds(c)]
          /\ shared' = IF UseShared THEN DOMAIN todo' ELSE {}
          /\ carried' = [c \in DOMAIN todo' |-> <<>>]
          /\ phase' = "cubes"
          /\ UNCHANGED <<items, partials>>
  /\ UNCHANGED <<launchVars, target, words>>

(* Only cubes of one node and group add to the same words, so the others'  *)
(* additions are taken one (node, group) after the other.                  *)
Busy(c) == todo[c] # <<>> \/ c \in shared
Racing(c) ==
  \A d \in DOMAIN todo :
    Busy(d) => c[1] < d[1] \/ (c[1] = d[1] /\ c[2] <= d[2])
Adding(c) == phase = "cubes" /\ todo[c] # <<>> /\ c \notin shared /\ Racing(c)
cubeOthers == <<launchVars, phase, target, partials, items>>

FlushCube(c) ==
  /\ phase = "cubes" /\ c \in shared /\ Racing(c)
  /\ \E h \in {SharedHistogram(todo[c])} : todo' = [todo EXCEPT ![c] = FlushAdds(h)]
  /\ shared' = shared \ {c}
  /\ UNCHANGED <<cubeOthers, words, carried>>

(* add_gpair_global: a native addition, or the low word and then the high  *)
(* one with the carry.                                                     *)
AddNative(c) ==
  /\ Adding(c) /\ fit.atomics = "native"
  /\ LET add == todo[c][1]
         sum == AddTo(SubSeq(words, add[1], add[1] + 1), add[2])
     IN words' = [words EXCEPT ![add[1]] = sum[1], ![add[1] + 1] = sum[2]]
  /\ todo' = [todo EXCEPT ![c] = Tail(@)]
  /\ UNCHANGED <<cubeOthers, shared, carried>>
AddLow(c) ==
  /\ Adding(c) /\ fit.atomics = "carry" /\ carried[c] = <<>>
  /\ LET add == todo[c][1]
     IN /\ words' = [words EXCEPT ![add[1]] = (@ + LoWord(add[2])) % HalfSize]
        /\ carried' = [carried EXCEPT ![c] =
                         <<HiWord(add[2]) + CarryOf(words[add[1]], LoWord(add[2]))>>]
  /\ UNCHANGED <<cubeOthers, shared, todo>>
AddHigh(c) ==
  /\ phase = "cubes" /\ carried[c] # <<>>
  /\ words' = [words EXCEPT ![todo[c][1][1] + 1] = (@ + carried[c][1]) % HalfSize]
  /\ carried' = [carried EXCEPT ![c] = <<>>]
  /\ todo' = [todo EXCEPT ![c] = Tail(@)]
  /\ UNCHANGED <<cubeOthers, shared>>

(* hist_atomic_free_kernel: the cells of a chunk, zeroed and then visited, *)
(* a block of rows at a time the first bin of each line and then the rest. *)
VisitOrder(rows) ==
  LET block(k) == SubSeq(rows, (k - 1) * TouchRows + 1, LesserOf(k * TouchRows, Len(rows)))
      heads == SelectSeq(Indices(matrix.num_col), LAMBDA f : (f - 1) % LineBins = 0)
      rest == SelectSeq(Indices(matrix.num_col), LAMBDA f : (f - 1) % LineBins # 0)
      over(rs, fs) == [k \in 1 .. Len(rs) * Len(fs) |->
                         <<rs[((k - 1) \div Len(fs)) + 1], fs[((k - 1) % Len(fs)) + 1] - 1>>]
  IN IF fit.planes THEN over(rows, Indices(matrix.num_col))
     ELSE Accumulate(LAMBDA out, k : out \o over(block(k), heads) \o over(block(k), rest),
                     <<>>, Indices(CeilDiv(Len(rows), TouchRows)))
ChunkSums(rows) ==
  Accumulate(LAMBDA sums, at :
      LET bin == LoadBin(ell.gidx, (at[1] - 1) * matrix.num_col + at[2], ell.bits)
      IN IF ~ell.dense /\ bin = ell.null_value THEN sums
         ELSE [sums EXCEPT ![bin + CutPtr(at[2])] = AddWrapped(@, fixed[target][at[1]])],
    [b \in Bins |-> <<0, 0>>], VisitOrder(rows))

(* A node's histogram written over its slot.                               *)
Written(j, sums) ==
  LET slot == SlotOf(j, target)
      channel(b, ch) == WordAt(slot + b, ch)
      lows == {channel(b, ch) : b \in Bins, ch \in {1, 2}}
      value(w) == LET cell == ((w - 1) \div 2) - 2 * slot IN sums[cell \div 2][(cell % 2) + 1]
  IN [w \in DOMAIN words |->
        IF w \in lows THEN LoWord(value(w))
        ELSE IF w - 1 \in lows THEN HiWord(value(w - 1)) ELSE words[w]]

RunItem(item) ==
  /\ phase = "chunks" /\ item \in Items \ items
  /\ IF IsDirect(item) THEN words' = Written(item[1], ChunkSums(item[3])) /\ UNCHANGED partials
     ELSE partials' = (<<item[1], item[2]>> :> ChunkSums(item[3])) @@ partials /\ UNCHANGED words
  /\ items' = items \cup {item}
  /\ UNCHANGED <<launchVars, phase, target, shared, todo, carried>>

(* merge_partials_kernel: the chunks of a node summed into its slot.       *)
Merged(j) ==
  [b \in Bins |-> Accumulate(LAMBDA s, k : AddWrapped(s, partials[<<j, k>>][b]), <<0, 0>>,
                             Indices(ChunkCount(Len(batch[j]))))]
MergedWords ==
  LET chunked == {j \in DOMAIN batch : ChunkCount(Len(batch[j])) > 1}
      wrote == [j \in chunked |-> Written(j, Merged(j))]
      owner(w) == {j \in chunked : /\ 4 * SlotOf(j, target) < w
                                   /\ w <= 4 * (SlotOf(j, target) + TotalBins)}
  IN Table([w \in DOMAIN words |-> IF owner(w) = {} THEN words[w]
                                   ELSE wrote[Largest(owner(w))][w]])

(* The launches of a target are over: the next target's, or the nodes are  *)
(* evaluated.                                                              *)
FinishTarget ==
  /\ \/ phase = "cubes" /\ \A c \in DOMAIN todo : ~Busy(c)
     \/ phase = "chunks" /\ items = Items
  /\ words' = IF phase = "chunks" THEN MergedWords ELSE words
  /\ IF target = Cardinality(Targets) THEN phase' = "nodes" /\ UNCHANGED target
     ELSE target' = target + 1 /\ phase' = "launch"
  /\ UNCHANGED <<launchVars, shared, todo, carried, partials, items>>

-----------------------------------------------------------------------------
HistInit ==
  /\ SampleInit
  /\ batch = <<>> /\ target = 1 /\ lane_buf = <<>> /\ done = {} /\ hists = <<>>
  /\ fixed = <<>> /\ root_sum = <<0, 0>> /\ groups = <<>> /\ words = <<>>
  /\ shared = {} /\ todo = <<>> /\ carried = <<>> /\ partials = <<>> /\ items = {}

HistNext ==
  \/ SampleNext /\ UNCHANGED histVars
  \/ StartHost \/ ReduceLanes \/ StartDevice \/ Launch \/ FinishTarget
  \/ \E i \in DOMAIN fit.data, l \in 0 .. MaxLanes - 1, g \in 0 .. MostGroups : RunTask(<<i, l, g>>)
  \/ \E c \in DOMAIN todo : FlushCube(c) \/ AddNative(c) \/ AddLow(c) \/ AddHigh(c)
  \/ phase = "chunks" /\ \E item \in Items : RunItem(item)

-----------------------------------------------------------------------------
(* Properties. *)

(* The rows of a node that hold a bin, straight from the matrix.           *)
Holders(rows, b) ==
  SelectSeq(rows, LAMBDA r : \E k \in DOMAIN Row(r) :
                               CutPtr(Row(r)[k][1]) + TrueBin(Row(r)[k][2], Row(r)[k][1]) = b)
TrueSum(t, rows, b, channel) ==
  LET held == Holders(rows, b)
  IN MapThenSumSet(LAMBDA k : fixed[t][held[k]][channel], DOMAIN held)

(* Every bin of every node of the batch holds each of its rows once.  On   *)
(* the CPU they are added in an order the data alone decide, whatever the  *)
(* threads and the feature groups; on the device the sum is the exact sum  *)
(* of the quantised gradients, no addition lost between cubes and none out *)
(* of range, the targets added together included.                          *)
HistogramIsSum ==
  (phase = "nodes" /\ node_sets = <<>>) =>
    IF ~fit.device
    THEN \A t \in Targets, i \in DOMAIN batch :
           LET rows == batch[i] lanes == LanesFor(Len(rows))
           IN \A b \in Bins :
                hists[t][i][b] = [l \in 1 .. lanes |-> Holders(LaneRows(rows, l - 1, lanes), b)]
    ELSE /\ \A t \in Targets, j \in DOMAIN batch, b \in Bins, channel \in {1, 2} :
              LET w == WordAt(SlotOf(j, t) + b, channel)
              IN Joined(words[w], words[w + 1]) = TrueSum(t, batch[j], b, channel)
         /\ \A channel \in {1, 2} :
              root_sum[channel] =
                MapThenSumSet(LAMBDA t : MapThenSumSet(LAMBDA r : fixed[t][r][channel], Rows),
                              Targets)
=============================================================================
