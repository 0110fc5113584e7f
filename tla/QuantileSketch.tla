---------------------------- MODULE QuantileSketch ----------------------------
(***************************************************************************)
(* From the caller's table to the cut points of its columns: the matrix of *)
(* src/data/mod.rs, the weighted quantile sketch of src/data/cuts.rs, fed  *)
(* by tasks that each own some columns, and the device's sort of a column  *)
(* and the cuts it reads off it (src/gpu/sketch.rs).                       *)
(*                                                                         *)
(* Values and weights are integers, so ranks are exact: the rounding of    *)
(* the f32 ranks is left out.  The unit stands for the 1e-5 by which the   *)
(* last cut clears the largest value, and OutOfRangeCat for 2^24.          *)
(***************************************************************************)
EXTENDS Integers, FiniteSets, Sequences, SequencesExt, TLC

CONSTANTS
  Fits,          \* tables and parameters
  Missing,       \* NaN
  OutOfRangeCat, \* the first code that is no category
  KeyBits,       \* bits of a float and of its key: 32
  RadixBits,     \* bits of a pass of the device's sort: 8
  SortItems,     \* keys a unit sorts
  MaxDeviceBin   \* the largest max_bin the device reads cuts for

VARIABLES
  fit,       \* the table and the parameters
  phase,     \* the step the fit is at
  matrix,    \* the rows, each the <<column, value>> entries kept, and num_col
  sketches,  \* column -> the staging queue and the levels
  ranges,    \* categorical column -> its least and largest code, or <<>>
  fed,       \* task -> the rows it has read
  keys,      \* column -> the keys being sorted
  pass,      \* passes of the sort done
  cuts       \* column -> its cut values

sketchVars == <<fit, phase, matrix, sketches, ranges, fed, keys, pass, cuts>>

LesserOf(a, b) == IF a < b THEN a ELSE b
GreaterOf(a, b) == IF a > b THEN a ELSE b
CeilDiv(a, b) == (a + b - 1) \div b
Least(S) == CHOOSE x \in S : \A y \in S : x <= y
Largest(S) == CHOOSE x \in S : \A y \in S : x >= y
Indices(n) == [i \in 1 .. n |-> i]
Pick(s, S) == LET at == SelectSeq(Indices(Len(s)), LAMBDA i : i \in S)
              IN [k \in DOMAIN at |-> s[at[k]]]
Ascending(s) == SortSeq(s, LAMBDA a, b : a < b)
RECURSIVE Accumulate(_, _, _)
Accumulate(Step(_, _), start, s) ==
  IF s = <<>> THEN start ELSE Accumulate(Step, Step(start, Head(s)), Tail(s))

(* A sequence, each of whose entries TLC computes once.                    *)
Table(s) == <<>> \o s

-----------------------------------------------------------------------------
(* data/mod.rs: the matrix. *)

IsMissing(v) == v \in {Missing, fit.missing}
Present(entries) == SelectSeq(entries, LAMBDA e : ~IsMissing(e[2]))

FromDense ==
  [r \in DOMAIN fit.data |->
     Present([c \in 1 .. fit.num_col |-> <<c - 1, fit.data[r][c]>>])]
FromCsr == [r \in DOMAIN fit.data |-> Present(fit.data[r])]

(* from_libsvm_str: every token is kept, and the columns are counted.      *)
Tokens == UNION {{fit.data[r][k] : k \in DOMAIN fit.data[r]} : r \in DOMAIN fit.data}
InferredColumns == IF Tokens = {} THEN 0 ELSE Largest({e[1] : e \in Tokens}) + 1

Loaded ==
  CASE fit.form = "dense" -> [rows |-> FromDense, num_col |-> fit.num_col]
    [] fit.form = "csr" -> [rows |-> FromCsr, num_col |-> fit.num_col]
    [] fit.form = "libsvm" -> [rows |-> fit.data, num_col |-> InferredColumns]

(* The shapes the loaders and set_weights refuse.                          *)
Misshapen ==
  \/ fit.form = "dense" /\ \E r \in DOMAIN fit.data : Len(fit.data[r]) # fit.num_col
  \/ fit.form = "csr" /\ \E e \in Tokens : ~IsMissing(e[2]) /\ e[1] >= fit.num_col
  \/ fit.weights # <<>> /\ Len(fit.weights) # Len(fit.data)

NumRow == Len(matrix.rows)
Columns == 0 .. matrix.num_col - 1
Rows == 1 .. NumRow
Row(r) == matrix.rows[r]
RowPtr(r) == MapThenSumSet(LAMBDA q : Len(Row(q)), 1 .. r - 1)
NumNonzero == RowPtr(NumRow + 1)
IsDense == NumNonzero = NumRow * matrix.num_col
ColumnEntries(f) == [r \in Rows |-> SelectSeq(Row(r), LAMBDA e : e[1] = f)]
ColumnSize(f) == MapThenSumSet(LAMBDA r : Len(ColumnEntries(f)[r]), Rows)
Weight(r) == IF fit.weights = <<>> THEN 1 ELSE fit.weights[r]
IsCat(f) == f \in fit.cat

-----------------------------------------------------------------------------
(* cuts.rs: summaries.  An entry is a value and bounds on the rank below   *)
(* and at it.                                                              *)

Entry(rmin, rmax, wmin, v) == [rmin |-> rmin, rmax |-> rmax, wmin |-> wmin, value |-> v]
RminNext(e) == e.rmin + e.wmin
RmaxPrev(e) == e.rmax - e.wmin
TwiceMid(e) == e.rmin + e.rmax

(* make_summary: equal values of the sorted queue become one entry.        *)
MakeSummary(queue) ==
  Accumulate(
    LAMBDA s, q :
      IF s # <<>> /\ Last(s).value = q.value
      THEN [s EXCEPT ![Len(s)] = Entry(@.rmin, @.rmax + q.weight, @.wmin + q.weight, @.value)]
      ELSE LET above == IF s = <<>> THEN 0 ELSE Last(s).rmax
           IN Append(s, Entry(above, above + q.weight, q.weight, q.value)),
    <<>>, SortSeq(queue, LAMBDA a, b : a.value < b.value))

(* set_prune: the first, the last, and the entry nearest to each of        *)
(* maxsize - 2 ranks spaced evenly between them.  Ranks are compared times *)
(* 2 * (maxsize - 1).                                                      *)
SetPrune(s, maxsize) ==
  IF Len(s) <= maxsize THEN s
  ELSE LET n == maxsize - 1
           end == Len(s)
           rank(k) == 2 * (k * (s[end].rmin - s[1].rmax) + n * s[1].rmax)
           at(k) == Least({i \in 2 .. end : i = end \/ rank(k) < n * TwiceMid(s[i + 1])})
           nearest(k) == LET i == at(k)
                         IN IF i = end \/ rank(k) < n * (RminNext(s[i]) + RmaxPrev(s[i + 1]))
                            THEN i ELSE i + 1
       IN Pick(s, {1, end} \cup {nearest(k) : k \in 1 .. n - 1})

(* fix_error: ranks that never fall.                                       *)
FixError(s) ==
  Accumulate(
    LAMBDA out, e :
      LET rmin == IF out = <<>> THEN e.rmin ELSE GreaterOf(e.rmin, Last(out).rmin)
          rmax == IF out = <<>> THEN e.rmax ELSE GreaterOf(e.rmax, Last(out).rmax)
      IN Append(out, Entry(rmin, GreaterOf(rmax, rmin + e.wmin), e.wmin, e.value)),
    <<>>, s)

(* set_combine: at each value, the sum of what either summary says of it;  *)
(* one without the value answers from its neighbours.                      *)
SetCombine(sa, sb) ==
  LET said(s, v) ==
        LET below == {i \in DOMAIN s : s[i].value < v}
            above == {i \in DOMAIN s : s[i].value > v}
            here == DOMAIN s \ (below \cup above)
        IN IF here # {} THEN s[Least(here)]
           ELSE Entry(IF below = {} THEN 0 ELSE RminNext(s[Largest(below)]),
                      IF above = {} THEN Last(s).rmax ELSE RmaxPrev(s[Least(above)]), 0, v)
      both == Ascending([i \in DOMAIN (sa \o sb) |-> (sa \o sb)[i].value])
      values == Pick(both, {i \in DOMAIN both : i = 1 \/ both[i] # both[i - 1]})
      sum(v) == LET a == said(sa, v) b == said(sb, v)
                IN Entry(a.rmin + b.rmin, a.rmax + b.rmax, a.wmin + b.wmin, v)
  IN IF sa = <<>> THEN sb
     ELSE IF sb = <<>> THEN sa
     ELSE FixError([i \in DOMAIN values |-> sum(values[i])])

(* limit_size_level with sketch_epsilon, and sketch_summary_budget: the    *)
(* entries a level holds, for a column of n values.                        *)
KFactor == 2
LimitSize(n) ==
  LET size(l) == LesserOf(l * KFactor * LesserOf(fit.max_bin, n) + 1, n)
  IN IF n = 0 THEN 1 ELSE size(CHOOSE l \in 1 .. n : /\ 2^l * size(l) >= n
                                                     /\ \A m \in 1 .. l - 1 : 2^m * size(m) < n)

-----------------------------------------------------------------------------
(* QuantileSketch. *)

NewSketch(limit) == [limit |-> limit, queue |-> <<>>, level |-> <<>>]

(* push_summary: up the levels until the merged summary fits in one.       *)
RECURSIVE PushSummary(_, _, _, _)
PushSummary(level, l, temp, limit) ==
  LET have == IF l <= Len(level) THEN level ELSE Append(level, <<>>)
      merged == SetCombine(SetPrune(temp, limit), have[l])
  IN IF Len(merged) <= limit THEN [have EXCEPT ![l] = merged]
     ELSE PushSummary([have EXCEPT ![l] = <<>>], l + 1, merged, limit)

(* Mutated: the queue is not emptied. *)
FlushKeepsQueue(s) ==
  [s EXCEPT !.level = PushSummary(s.level, 1, MakeSummary(s.queue), s.limit)]
Flush(s) ==
  [s EXCEPT !.queue = <<>>,
            !.level = PushSummary(s.level, 1, MakeSummary(s.queue), s.limit)]

(* A run of one value takes one place of the queue; a full queue is        *)
(* flushed before the next value.                                          *)
Push(s, x, w) ==
  IF w = 0 THEN s
  ELSE IF s.queue # <<>> /\ Last(s.queue).value = x
  THEN [s EXCEPT !.queue[Len(s.queue)].weight = @ + w]
  ELSE [(IF Len(s.queue) = 2 * s.limit THEN Flush(s) ELSE s) EXCEPT
          !.queue = Append(@, [value |-> x, weight |-> w])]

GetSummary(s, max_size) ==
  SetPrune(Accumulate(LAMBDA out, level : SetPrune(SetCombine(out, level),
                                                   GreaterOf(max_size, s.limit)),
                      <<>>, (IF s.queue = <<>> THEN s ELSE Flush(s)).level),
           max_size)

(* query_cut_values: every value but the first, or max_bin - 1 ranks, each *)
(* pushed above the cut before it; then a cut above every value.           *)
Sentinel(v) == v + (GreaterOf(v, -v) + 1)
QueryCuts(s, max_bin) ==
  LET end == Len(s)
      at(i) == Least({c \in 1 .. end - 1 :
                        c = end - 1 \/ 2 * i * s[end].rmax < max_bin * TwiceMid(s[c + 1])})
      queried(i) == LET c == at(i)
                    IN IF 2 * i * s[end].rmax < max_bin * (RminNext(s[c]) + RmaxPrev(s[c + 1]))
                       THEN s[c].value ELSE s[c + 1].value
      query(out, i) ==
        LET last == IF out = <<>> THEN s[1].value ELSE Last(out)
            above == {k \in DOMAIN s : s[k].value > last}
        IN IF queried(i) > last THEN Append(out, queried(i))
           ELSE IF above = {} THEN out ELSE Append(out, s[Least(above)].value)
  IN IF s = <<>> THEN <<1>>
     ELSE (IF end <= max_bin THEN [k \in 1 .. end - 1 |-> s[k + 1].value]
           ELSE Accumulate(query, <<>>, Indices(max_bin - 1)))
          \o <<Sentinel(s[end].value)>>

(* exact_cuts_from_sorted: the cuts of the summary that pruned nothing.    *)
ExactCuts(values, max_bin) ==
  QueryCuts(MakeSummary([i \in DOMAIN values |-> [value |-> values[i], weight |-> 1]]), max_bin)

-----------------------------------------------------------------------------
(* build_cuts_impl.  The columns are cut into groups; a task walks every   *)
(* row for the columns of its group.                                       *)

Chunk == GreaterOf(CeilDiv(matrix.num_col, 2 * fit.threads), 1)
Tasks == 0 .. CeilDiv(matrix.num_col, Chunk) - 1
Group(c) == {f \in Columns : f \div Chunk = c}
Limit(f) == LimitSize(ColumnSize(f))

(* Which route a fit takes: applies of gpu/sketch.rs.                      *)
Applies ==
  /\ fit.device /\ fit.planes /\ ~fit.host_forced
  /\ fit.weights = <<>> /\ fit.cat = {}
  /\ fit.max_bin <= MaxDeviceBin

SketchInit ==
  /\ fit \in Fits
  /\ phase = "load"
  /\ matrix = [rows |-> <<>>, num_col |-> 0]
  /\ sketches = <<>> /\ ranges = <<>> /\ fed = <<>>
  /\ keys = <<>> /\ pass = 0 /\ cuts = <<>>

Load ==
  /\ phase = "load"
  /\ IF Misshapen THEN phase' = "refused" /\ UNCHANGED matrix
     ELSE /\ matrix' = Loaded
          /\ phase' = IF Applies /\ matrix'.num_col > 0 THEN "keys" ELSE "sketch"
  /\ UNCHANGED <<fit, sketches, ranges, fed, keys, pass, cuts>>

NewSketches ==
  /\ phase = "sketch"
  /\ sketches' = [f \in Columns |-> NewSketch(Limit(f))]
  /\ ranges' = [f \in Columns |-> <<>>]
  /\ fed' = [c \in Tasks |-> 0]
  /\ phase' = "feed"
  /\ UNCHANGED <<fit, matrix, keys, pass, cuts>>

(* CatRange::push.                                                         *)
Widen(range, v) ==
  IF range = <<>> THEN <<v, v>> ELSE <<LesserOf(range[1], v), GreaterOf(range[2], v)>>

FeedRow(c) ==
  /\ phase = "feed" /\ fed[c] < NumRow
  /\ LET r == fed[c] + 1
         mine(f) == IF f \in Group(c) THEN SelectSeq(Row(r), LAMBDA e : e[1] = f) ELSE <<>>
     IN /\ sketches' = [f \in Columns |->
                          IF IsCat(f) THEN sketches[f]
                          ELSE Accumulate(LAMBDA s, e : Push(s, e[2], Weight(r)),
                                          sketches[f], mine(f))]
        /\ ranges' = [f \in Columns |->
                        IF ~IsCat(f) THEN ranges[f]
                        ELSE Accumulate(LAMBDA range, e : Widen(range, e[2]),
                                        ranges[f], mine(f))]
        /\ fed' = [fed EXCEPT ![c] = r]
  /\ UNCHANGED <<fit, phase, matrix, keys, pass, cuts>>

InvalidCat(v) == v < 0 \/ v >= OutOfRangeCat
Reduced(f) == GetSummary(sketches[f], sketches[f].limit)

(* Every task is done: a code out of range refuses the table.              *)
BuildCuts ==
  /\ phase = "feed" /\ \A c \in DOMAIN fed : fed[c] = NumRow
  /\ IF \E f \in Columns : ranges[f] # <<>> /\ \E k \in {1, 2} : InvalidCat(ranges[f][k])
     THEN phase' = "refused" /\ UNCHANGED cuts
     ELSE /\ cuts' = [f \in Columns |->
                        IF IsCat(f)
                        THEN LET codes == IF ranges[f] = <<>> THEN 1 ELSE ranges[f][2] + 1
                             IN [k \in 1 .. codes |-> k - 1]
                        ELSE QueryCuts(Reduced(f), fit.max_bin)]
          /\ phase' = "bin"
  /\ UNCHANGED <<fit, matrix, sketches, ranges, fed, keys, pass>>

-----------------------------------------------------------------------------
(* gpu/sketch.rs: the keys of a column are sorted, a digit per pass, and   *)
(* its cuts read off them.  A float is a sign and a magnitude.             *)

Radix == 2^RadixBits
SortTile == Radix * SortItems    \* a unit per digit
Tiles == GreaterOf(CeilDiv(NumRow, SortTile), 1)
Seg == Tiles * SortTile
SentinelKey == 2^KeyBits - 1
SignBit == 2^(KeyBits - 1)

FloatBits(v) == IF v < 0 THEN SignBit - v ELSE v
FloatKey(v) ==
  LET bits == FloatBits(v) IN IF bits >= SignBit THEN SentinelKey - bits ELSE bits + SignBit
KeyFloat(k) == IF k >= SignBit THEN k - SignBit ELSE SignBit - (SentinelKey - k)

(* A full matrix is read by position, another by its row offsets.          *)
DenseInput == \A r \in Rows : Len(Row(r)) = matrix.num_col
Stored == [e \in 0 .. NumNonzero - 1 |->
             LET r == Largest({q \in Rows : RowPtr(q) <= e})
             IN <<r, Row(r)[e - RowPtr(r) + 1]>>]
CellOf(e, stored) ==
  IF DenseInput THEN <<e \div matrix.num_col, e % matrix.num_col>>
  ELSE <<stored[e][1] - 1, stored[e][2][1]>>

FloatKeys ==
  /\ phase = "keys"
  /\ LET stored == Stored
         written(f) == {e \in DOMAIN stored : CellOf(e, stored)[2] = f}
         at(f, r) == {e \in written(f) : CellOf(e, stored)[1] = r}
     IN keys' = [f \in Columns |-> Table([i \in 1 .. Seg |->
                   IF at(f, i - 1) = {} THEN SentinelKey
                   ELSE FloatKey(stored[Largest(at(f, i - 1))][2][2])])]
  /\ phase' = "sort"
  /\ UNCHANGED <<fit, matrix, sketches, ranges, fed, pass, cuts>>

Digit(key, shift) == (key \div 2^shift) % Radix
Bit(key, b) == (key \div 2^b) % 2
TileOf(column, tile) == SubSeq(column, tile * SortTile + 1, (tile + 1) * SortTile)

(* radix_count_kernel, and radix_scan_kernel over its table, digit by      *)
(* digit and tile by tile.                                                 *)
RadixCount(column, shift) ==
  [d \in 0 .. Radix - 1 |-> [tile \in 0 .. Tiles - 1 |->
     Cardinality({i \in 1 .. SortTile : Digit(TileOf(column, tile)[i], shift) = d})]]
RadixOffset(counts, d, tile) ==
  MapThenSumSet(LAMBDA at : counts[at[1]][at[2]],
    {at \in (0 .. Radix - 1) \X (0 .. Tiles - 1) : at[1] < d \/ (at[1] = d /\ at[2] < tile)})

(* split_by_bit: a unit places its keys by the set bits of the units       *)
(* before it.                                                              *)
SplitByBit(tile, b) ==
  LET unit(i) == (i - 1) \div SortItems
      ones(S) == Cardinality({j \in S : Bit(tile[j], b) = 1})
      before(i) == ones({j \in 1 .. SortTile : unit(j) < unit(i)})
      own(i) == {j \in 1 .. i - 1 : unit(j) = unit(i)}
      slot(i) == IF Bit(tile[i], b) = 1
                 THEN SortTile - ones(1 .. SortTile) + before(i) + ones(own(i))
                 ELSE unit(i) * SortItems - before(i) + Cardinality(own(i)) - ones(own(i))
      slots == Table([i \in 1 .. SortTile |-> slot(i)])
  IN Table([s \in 1 .. SortTile |-> tile[CHOOSE i \in 1 .. SortTile : slots[i] = s - 1]])

(* radix_scatter_kernel: a tile sorted by its digit, each key to the slot  *)
(* of its digit and tile.                                                  *)
SortTileByDigit(tile, shift) ==
  Accumulate(LAMBDA t, b : SplitByBit(t, shift + b - 1), tile, Indices(RadixBits))
RadixScatter(column, shift) ==
  LET counts == RadixCount(column, shift)
      moved == UNION {LET t == SortTileByDigit(TileOf(column, tile), shift)
                          slot(i) == LET d == Digit(t[i], shift)
                                         start == MapThenSumSet(LAMBDA c : counts[c][tile],
                                                                0 .. d - 1)
                                     IN RadixOffset(counts, d, tile) + (i - 1 - start)
                      IN {<<slot(i), t[i]>> : i \in 1 .. SortTile} : tile \in 0 .. Tiles - 1}
  IN Table([s \in 1 .. Seg |-> (CHOOSE m \in moved : m[1] = s - 1)[2]])

RadixPass ==
  /\ phase = "sort" /\ pass < KeyBits \div RadixBits
  /\ keys' = [f \in Columns |-> RadixScatter(keys[f], pass * RadixBits)]
  /\ pass' = pass + 1
  /\ UNCHANGED <<fit, phase, matrix, sketches, ranges, fed, cuts>>

(* cuts_kernel.                                                            *)
(* Mutated: past the key instead of up to it. *)
LowerBoundPast(column, n, key) == Cardinality({i \in 1 .. n : column[i] <= key})
LowerBound(column, n, key) ==
  Cardinality({i \in 1 .. n : column[i] < key})
KernelCuts(column) ==
  LET n == LowerBound(column, Seg, SentinelKey)
      starts == {i \in 1 .. n : i = 1 \/ column[i] # column[i - 1]}
      candidate(q) == column[(q * n) \div fit.max_bin + 1]
      query(out, q) ==
        LET last == IF out = <<>> THEN column[1] ELSE Last(out)
            next == LowerBound(column, n, last + 1)
        IN IF candidate(q) > last THEN Append(out, candidate(q))
           ELSE IF next = n THEN out ELSE Append(out, column[next + 1])
      inner == IF Cardinality(starts) <= fit.max_bin THEN Pick(column, starts \ {1})
               ELSE Accumulate(query, <<>>, Indices(fit.max_bin - 1))
  IN IF n = 0 THEN <<1>>
     ELSE [k \in DOMAIN inner |-> KeyFloat(inner[k])] \o <<Sentinel(KeyFloat(column[n]))>>

DeviceCuts ==
  /\ phase = "sort" /\ pass = KeyBits \div RadixBits
  /\ cuts' = [f \in Columns |-> KernelCuts(keys[f])]
  /\ phase' = "bin"
  /\ UNCHANGED <<fit, matrix, sketches, ranges, fed, keys, pass>>

SketchNext ==
  \/ Load \/ NewSketches \/ BuildCuts \/ FloatKeys \/ RadixPass \/ DeviceCuts
  \/ \E c \in DOMAIN fed : FeedRow(c)

-----------------------------------------------------------------------------
(* Properties. *)

(* The weight of the values a column's sketch was given, below or at v.    *)
Given(f) == {r \in Rows : \E c \in DOMAIN fed : f \in Group(c) /\ r <= fed[c]}
TrueRank(f, In(_)) ==
  MapThenSumSet(LAMBDA r : Weight(r) * Len(SelectSeq(ColumnEntries(f)[r], LAMBDA e : In(e[2]))),
                Given(f))
RankBelow(f, v) == TrueRank(f, LAMBDA x : x < v)
RankAt(f, v) == TrueRank(f, LAMBDA x : x <= v)

(* At every moment of the feeding, whatever order the tasks take, the      *)
(* queue and the levels of a column together bound the true rank of every  *)
(* value they kept, from both sides: pruning and merging lose precision,   *)
(* never correctness (push, push_summary, set_combine).                    *)
RanksBounded ==
  phase = "feed" =>
    \A f \in Columns :
      LET s == sketches[f]
          merged == Accumulate(SetCombine, MakeSummary(s.queue), s.level)
      IN ~IsCat(f) =>
           \A k \in DOMAIN merged :
             LET e == merged[k]
             IN /\ e.rmin <= RankBelow(f, e.value) /\ RankAt(f, e.value) <= e.rmax
                /\ RminNext(e) <= RankAt(f, e.value) /\ RankBelow(f, e.value) <= RmaxPrev(e)

(* The values of a column, sorted.                                         *)
SortedColumn(f) ==
  Ascending(Accumulate(LAMBDA out, r : out \o [k \in DOMAIN ColumnEntries(f)[r] |->
                                                  ColumnEntries(f)[r][k][2]],
                       <<>>, Indices(NumRow)))

(* The cuts the device reads off its sorted keys are those of the summary  *)
(* that pruned nothing, whatever the ties and the missing cells: the four  *)
(* passes sort, and the three branches of the kernel are query_cut_values. *)
DeviceCutsExact ==
  (phase = "bin" /\ pass > 0) =>
    \A f \in Columns : cuts[f] = ExactCuts(SortedColumn(f), fit.max_bin)
=============================================================================
