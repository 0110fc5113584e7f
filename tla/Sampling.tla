------------------------------- MODULE Sampling -------------------------------
(***************************************************************************)
(* What a tree is grown from: the row sample, which zeroes gradients chunk *)
(* by chunk on parallel tasks (src/tree/sampler.rs, with the skipping      *)
(* engine of src/rng.rs), and the nested column samples of the tree, its   *)
(* levels and its nodes (src/tree/column_sampler.rs).                      *)
(*                                                                         *)
(* Gradients are exact fractions.  MvsLambda stands for 0.1, and rows have *)
(* a g^2 + MvsLambda * h^2 whose root is whole.                            *)
(***************************************************************************)
EXTENDS Binning, Fractions

CONSTANTS
  LcgBase, LcgModulus,   \* the engine: 16807 and 2^63
  ChunkRows,             \* rows of a sampling task
  MvsLambda,
  TreesGrown, NodesDrawn \* bounds: trees, and feature sets drawn for a tree

VARIABLES
  tree,        \* the tree being grown, from 1
  gpair,       \* target -> row -> <<grad, hess>>
  buffer,      \* the gradients, or the rows' totals, being sampled
  threshold,   \* of the magnitudes, for gradient-based sampling
  chunks,      \* the sampling tasks done
  tree_set,    \* the tree's columns
  level_sets,  \* depth -> the level's columns, for the depths drawn
  node_sets    \* the <<depth, columns>> drawn for nodes of this tree

rowVars == <<gpair, buffer, threshold, chunks>>
columnVars == <<tree_set, level_sets, node_sets>>
sampleVars == <<tree, rowVars, columnVars>>
dataVars == <<fit, matrix, sketches, ranges, fed, keys, pass, cuts, binVars>>

-----------------------------------------------------------------------------
(* rng.rs: Lcg63. *)

LcgSeed(seed) == IF seed % LcgModulus = 0 THEN 1 ELSE seed % LcgModulus
LcgNext(state) == (state * LcgBase) % LcgModulus

RECURSIVE PowerOf(_, _, _)
PowerOf(exponent, base, result) ==
  IF exponent = 0 THEN result
  ELSE PowerOf(exponent \div 2, (base * base) % LcgModulus,
               IF exponent % 2 = 1 THEN (result * base) % LcgModulus ELSE result)
LcgSkip(exponent, seed) == (PowerOf(exponent, LcgBase, 1) * seed) % LcgModulus

Canonical(draw) == Frac(draw, LcgModulus)
Bernoulli(draw, p) == Below(Canonical(draw), p)

-----------------------------------------------------------------------------
(* sampler.rs. *)

Targets == DOMAIN fit.gpair
NoPair == <<Zero, Zero>>
PairOf(g) == <<Frac(g[1], 1), Frac(g[2], 1)>>
SampleRows == (NumRow * fit.subsample[1]) \div fit.subsample[2]
IsSampling == NumRow > 0 /\ SampleRows < NumRow

(* grow_round samples a tree's own gradients; grow_round_vector the totals *)
(* of a row over the targets.                                              *)
Totals ==
  Table([r \in Rows |-> <<Frac(MapThenSumSet(LAMBDA t : fit.gpair[t][r][1], Targets), 1),
                          Frac(MapThenSumSet(LAMBDA t : fit.gpair[t][r][2], Targets), 1)>>])

(* reg_abs_grad, of whole gradients. *)
Root(n) == CHOOSE r \in 0 .. n : r * r = n
RegAbsGrad(pair) ==
  Root(pair[1][1] * pair[1][1] + MvsLambda * pair[2][1] * pair[2][1])

(* sampling_threshold: the search over the sorted magnitudes.              *)
RECURSIVE SearchThreshold(_, _, _)
SearchThreshold(sorted, low, high) ==
  LET n == Len(sorted)
      csum(i) == MapThenSumSet(LAMBDA k : sorted[k + 1], 0 .. i)
      i == low + ((high - low) \div 2)
      denom == SampleRows - (n - i - 1)
      u == Frac(csum(i), denom)
      above_lower == Below(<<sorted[i + 1], 1>>, u)
      within_upper == i = n - 1 \/ AtMost(u, <<sorted[i + 2], 1>>)
  IN IF low > high THEN Frac(csum(n - 1), SampleRows)
     ELSE IF denom <= 0 THEN SearchThreshold(sorted, i + 1, high)
     ELSE IF above_lower /\ within_upper THEN u
     ELSE IF ~above_lower THEN SearchThreshold(sorted, low, i - 1)
     ELSE SearchThreshold(sorted, i + 1, high)
(* Mutated: no search, as if no row were certain to be kept. *)
ThresholdFlat(pairs) == Frac(MapThenSumSet(LAMBDA r : RegAbsGrad(pairs[r]), Rows), SampleRows)
Threshold(pairs) == SearchThreshold(Ascending([r \in Rows |-> RegAbsGrad(pairs[r])]), 0, NumRow - 1)

(* sampling_probability, with a nonzero threshold.                         *)
Probability(pair) == Frac(RegAbsGrad(pair) * threshold[2], threshold[1])

(* What a row becomes by its draw.                                         *)
Certain(p) == AtMost(<<1, 1>>, p)
Rescaled(a, p) == Frac(a[1] * p[2], a[2] * p[1])
Decide(pair, draw) ==
  LET p == Probability(pair)
  IN IF fit.method = "uniform" THEN (IF Bernoulli(draw, fit.subsample) THEN pair ELSE NoPair)
     ELSE IF Certain(p) THEN pair
     ELSE IF p[1] > 0 /\ AtMost(Canonical(draw), p)
     THEN <<Rescaled(pair[1], p), Rescaled(pair[2], p)>>
     ELSE NoPair

Whole == [t \in Targets |-> Table([r \in Rows |-> PairOf(fit.gpair[t][r])])]
Zeroed == [t \in Targets |-> Table([r \in Rows |-> NoPair])]
Seed == fit.seeds[tree]

(* sample, up to its tasks: no sampling draws no seed, and an empty budget *)
(* of gradient-based sampling leaves nothing.                              *)
StartSample ==
  /\ phase = "sample"
  /\ IF ~IsSampling \/ (fit.method = "gradient_based" /\ SampleRows = 0)
     THEN /\ gpair' = IF IsSampling THEN Zeroed ELSE Whole
          /\ phase' = "columns"
          /\ UNCHANGED <<buffer, threshold, chunks>>
     ELSE /\ buffer' = Totals /\ chunks' = {} /\ phase' = "rows"
          /\ threshold' = IF fit.method = "uniform" THEN Zero ELSE Threshold(buffer')
          /\ UNCHANGED gpair
  /\ UNCHANGED <<dataVars, tree, columnVars>>

Chunks == 0 .. CeilDiv(NumRow, ChunkRows) - 1
ChunkOf(r) == (r - 1) \div ChunkRows

(* for_each_row_indexed: a task jumps to its chunk's state and draws for   *)
(* its rows in turn.                                                       *)
RECURSIVE Steps(_, _)
Steps(state, n) == IF n = 0 THEN state ELSE Steps(LcgNext(state), n - 1)
(* Mutated: skips chunks, not rows. *)
ChunkStateByChunk(c) == LcgSeed(LcgSkip(c, Seed))
ChunkState(c) == LcgSeed(LcgSkip(c * ChunkRows, Seed))
SampleChunk(c) ==
  /\ phase = "rows" /\ c \notin chunks
  /\ buffer' = Table([r \in Rows |->
                        IF ChunkOf(r) # c THEN buffer[r]
                        ELSE Decide(buffer[r], Steps(ChunkState(c), r - c * ChunkRows))])
  /\ chunks' = chunks \cup {c}
  /\ UNCHANGED <<dataVars, phase, tree, gpair, threshold, columnVars>>

(* A vector leaf drops the rows whose total came back zero, and takes the  *)
(* others as they were.                                                    *)
FinishSample ==
  /\ phase = "rows" /\ chunks = Chunks
  /\ gpair' = IF Cardinality(Targets) = 1 THEN <<buffer>>
              ELSE [t \in Targets |-> Table([r \in Rows |->
                      IF buffer[r] = NoPair THEN NoPair ELSE Whole[t][r]])]
  /\ phase' = "columns"
  /\ UNCHANGED <<dataVars, tree, buffer, threshold, chunks, columnVars>>

-----------------------------------------------------------------------------
(* column_sampler.rs. *)

(* shuffle: the orders it can leave, one draw of the local engine for each *)
(* pair of elements.                                                       *)
Swap(s, i, j) == [s EXCEPT ![i] = s[j], ![j] = s[i]]
RECURSIVE ShuffleFrom(_, _)
ShuffleFrom(orders, i) ==
  LET range == i
  IN IF orders = {} \/ i > Len(CHOOSE s \in orders : TRUE) THEN orders
     ELSE ShuffleFrom({Swap(Swap(s, i, (draw \div (range + 1)) + 1),
                            i + 1, (draw % (range + 1)) + 1) :
                         s \in orders, draw \in 0 .. range * (range + 1) - 1}, i + 2)
Shuffles(s) ==
  IF Len(s) < 2 THEN {s}
  ELSE IF Len(s) % 2 = 0 THEN ShuffleFrom({s, Swap(s, 2, 1)}, 3)
  ELSE ShuffleFrom({s}, 2)

(* weighted_sample: keys drawn for the candidates may come in any order,   *)
(* the weights being floored above zero.                                   *)
WeightedSamples(S, n) == {T \in SUBSET S : Cardinality(T) = LesserOf(n, Cardinality(S))}

SampleSize(S, ratio) == GreaterOf((ratio[1] * Cardinality(S)) \div ratio[2], 1)
ColSamples(S, ratio) ==
  LET n == SampleSize(S, ratio)
      ordered == SortSeq(SetToSeq(S), LAMBDA a, b : a < b)
  IN IF ratio = <<1, 1>> THEN {S}
     ELSE IF fit.feature_weights THEN WeightedSamples(S, n)
     ELSE {{s[k] : k \in 1 .. LesserOf(n, Len(s))} : s \in Shuffles(ordered)}

Sampled(ratio) == ratio # <<1, 1>>

(* Mutated: the last tree's levels are kept. *)
ResetColumnsKeepsLevels ==
  /\ phase = "columns"
  /\ node_sets' = <<>>
  /\ tree_set' \in ColSamples(Columns, fit.bytree)
  /\ phase' = "hist"
  /\ UNCHANGED <<dataVars, tree, rowVars, level_sets>>
ResetColumns ==
  /\ phase = "columns"
  /\ level_sets' = <<>> /\ node_sets' = <<>>
  /\ tree_set' \in ColSamples(Columns, fit.bytree)
  /\ phase' = "hist"
  /\ UNCHANGED <<dataVars, tree, rowVars>>

(* A node at a depth some node of the tree leads to.                       *)
Depths == {0} \cup {node_sets[k][1] + 1 : k \in DOMAIN node_sets}
FeatureSet(depth) ==
  /\ phase = "nodes" /\ Len(node_sets) < NodesDrawn
  /\ node_sets = <<>> <=> depth = 0
  /\ IF ~Sampled(fit.bylevel) /\ ~Sampled(fit.bynode)
     THEN node_sets' = Append(node_sets, <<depth, tree_set>>) /\ UNCHANGED level_sets
     ELSE /\ \E level \in IF depth \in DOMAIN level_sets THEN {level_sets[depth]}
                           ELSE ColSamples(tree_set, fit.bylevel) :
               /\ level_sets' = (depth :> level) @@ level_sets
               /\ \E node \in ColSamples(level, fit.bynode) :
                    node_sets' = Append(node_sets, <<depth, node>>)
  /\ UNCHANGED <<dataVars, phase, tree, rowVars, tree_set>>

NextTree ==
  /\ phase = "nodes" /\ node_sets # <<>>
  /\ tree < TreesGrown
  /\ tree' = tree + 1 /\ phase' = "sample"
  /\ UNCHANGED <<dataVars, rowVars, columnVars>>

SampleInit ==
  /\ BinInit
  /\ tree = 1 /\ gpair = <<>> /\ buffer = <<>> /\ threshold = Zero /\ chunks = {}
  /\ tree_set = {} /\ level_sets = <<>> /\ node_sets = <<>>
SampleNext ==
  \/ BinNext /\ UNCHANGED sampleVars
  \/ StartSample \/ FinishSample \/ ResetColumns \/ NextTree
  \/ \E c \in Chunks : SampleChunk(c)
  \/ \E depth \in Depths : FeatureSet(depth)

-----------------------------------------------------------------------------
(* Properties. *)

(* Whatever the tasks and the order they run in, a row is decided by the   *)
(* value one engine, seeded once for the tree, would give it in row order  *)
(* (sampler.rs: "Row i always sees the (i + 1)-th value of the engine").   *)
SampleByRow ==
  phase = "rows" =>
    \A r \in Rows : \A pair \in {Totals[r]} :
      buffer[r] = IF ChunkOf(r) \in chunks THEN Decide(pair, Steps(LcgSeed(Seed), r)) ELSE pair

(* The threshold spends the budget exactly: the rows gradient-based        *)
(* sampling can expect to keep are sample_rows, every row having some      *)
(* gradient (sampling_threshold).                                          *)
Expected(pair) == IF Certain(Probability(pair)) THEN <<1, 1>> ELSE Probability(pair)
ThresholdMeetsBudget ==
  (phase = "rows" /\ fit.method = "gradient_based") =>
    \A pairs \in {Totals} :
      (\A r \in Rows : RegAbsGrad(pairs[r]) > 0) =>
        Accumulate(LAMBDA total, r : Plus(total, Expected(pairs[r])), Zero, Indices(NumRow))
          = <<SampleRows, 1>>

(* The samples nest, tree by tree: a node's columns come from its level's, *)
(* which all nodes of a depth share and the tree's hold, and none is       *)
(* empty; no level outlives its tree.                                      *)
SetsNest ==
  phase = "nodes" =>
    \A k \in DOMAIN node_sets :
      LET level == UNION {node_sets[j][2] : j \in {j \in DOMAIN node_sets :
                                                      node_sets[j][1] = node_sets[k][1]}}
      IN /\ level \subseteq tree_set
         /\ Cardinality(level) <= SampleSize(tree_set, fit.bylevel)
         /\ matrix.num_col > 0 => node_sets[k][2] # {}
=============================================================================
