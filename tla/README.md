# A TLA+ verification of xgboost_rs

The repository is a Rust implementation of gradient boosting that reproduces
XGBoost: a learner that runs boosting rounds over a tree or a linear booster, a
histogram tree grower on the CPU (rayon) and one on a device (CubeCL), the
binning, sampling, objectives, metrics and parameters around them, and model
files. Paths below are relative to `src/src/`.

## 1. Inventory

| part | files | state it keeps | operations |
|---|---|---|---|
| training API | `api.rs` | the evaluation history, `EarlyStopping` | `train_from`, `Booster::update`, prediction options, checks of the options |
| learner | `learner.rs` | configured flag, margins of the training matrix, base score | `configure`, `update_one_iter`, `eval_train`, `continue_from` |
| tree booster | `gbm/mod.rs` | trees, their groups and weights, dropped trees, the ensemble being updated, the growers kept between rounds | `configure`, `pre_boost`, `do_boost` and its four kinds of round, `rescale_dropped` |
| CPU grower | `tree/hist.rs` | candidate queue, row sets, histograms and their free list | `grow`, `reset`, `update_predictions` |
| tree | `tree/model.rs` | nodes, depths, leaf vectors, categories | `expand_node`, `prune`, traversal |
| device grower | `gpu/grower.rs` | candidate queue, arena and pool of histogram buffers, leaf segments | `grow_columns`, `grow_device`, `update_predictions` |
| row partitioner | `gpu/row_partitioner.rs` | two row buffers, which holds each segment | `partition`, `read` |
| device histograms | `gpu/histogram.rs`, `gpu/quantiser.rs`, `gpu/tuning.rs` | fixed-point accumulators | `build_into`, `build_into_batch`, `subtract_batch` |
| device round | `gpu/objective.rs` | margins on the device, `host_stale` | `upload_preds`, `gradients`, `update_predictions`, `download` |
| split search | `gpu/evaluate_splits.rs`, `tree/evaluator.rs`, `tree/cat.rs`, `gpu/categorical.rs` | weight bounds, interaction sets per node | scans of the bins, `add_split` |
| exact grower | `tree/colmaker.rs`, `data/csc.rs` | position of each row, candidates of a level | `update` |
| prune, refresh | `tree/refresh.rs`, `tree/model.rs` | - | `run_modifiers` |
| prediction | `predictor/mod.rs`, `tree/model.rs` | - | `predict_margin`, TreeSHAP and Saabas contributions |
| sampling | `tree/column_sampler.rs`, `tree/sampler.rs`, `rng.rs` | the Mersenne stream, column sets per tree and level | `reset`, `feature_set`, row samples |
| binning | `data/*`, `gpu/ellpack.rs`, `gpu/sketch.rs` | cut points, bins of the rows | sketch, `search_bin`, compression |
| linear booster | `linear/*`, `gpu/linear.rs` | weights, residuals of the round, selector state | `do_boost` |
| objectives, metrics | `objective/*`, `metric/*` | - | gradients, scores |
| parameters | `parameters/*` | settings, user-set flags | parsing, aliases, `validate` |
| model files | `model_io.rs` | - | `save_model`, `load_model` |
| threads | `threading.rs` | a registry of pools behind a lock | `pool`, `install` |

How they meet. `train_from` builds a learner, may continue it from another
booster, and runs rounds: the learner computes gradients from the margins it
keeps, the booster grows trees from the gradients and updates the same margins in
place. A grower asks the sampler for features, the split search for candidates
and the partitioner to move rows; it owns its histograms. A device round skips
the host: gradients, tree and margins stay on the device, and the host's
margins are stale until they are downloaded. Callers may go on after a fit with
`Booster::update`.

What is hard here:

- *Values kept instead of recomputed.* The margins are never predicted again
  during a fit; histograms are subtracted from the parent's; scores come from
  the row sets instead of from a traversal; the device holds a copy of the
  margins. Each is right only if every path keeps it so.
- *Reuse.* Histogram buffers pass from node to node and from tree to tree with
  their contents; device buffers are reused when nobody else holds them.
- *Parallel tasks* over shared arrays: the partitions of a batch, the builds and
  subtractions, the tiles of a device partition.
- *Order.* Expansion order decides the tree when leaves are limited; batches are
  capped at 256 candidates; slots of trees are found by counting; floating-point sums
  must not depend on the number of threads.
- *The same question answered twice.* Host and device search splits, cut columns, pack
  bins and sample; the device answers with other loops and other layouts, and must agree.
- *Alternative rounds* over the same state: dropout, updates of an ensemble,
  forests, several outputs, vector leaves, device rounds, early stopping.

There is no network, no persistence besides whole model files and no recovery:
crashes and lost messages are not among the hazards.

What makes each part correct, in a line each: a tree gives each row one leaf and
scores agree with its traversal; a histogram is the sum over the rows of its
node; limits hold and candidates are expanded in the policy's order; margins are
a prediction of the model; rounds and slices are counted right; early stopping
names the best round; a device partition is a stable partition of each segment;
device buffers are not shared by live histograms; the best split of a histogram
is found with the right default direction; the same stream of samples is drawn
whatever the path; a cell has one bin in every view; cuts come from summaries whose rank
bounds hold; a prune takes out what is not worth keeping and nothing else; contributions
are Shapley values; a linear step reads current residuals; a loaded model is the saved one.

## 2. Modules

| module | models | checked by |
|---|---|---|
| `LeafSplitting` | what growing a tree promises: leaves that partition the rows, split one at a time | refined by `TreeGrower` and `GpuGrower` |
| `TreeGrower` | `HistGrower` | `MCTreeGrower` |
| `TreeGrowerProofs`, `GrowthProofs` | the theorems about `TreeGrower`: its batches and histograms; the tree it ends with | TLAPS |
| `GpuGrower` | `GpuHistGrower` with its row partitioner and histogram buffers | `MCGpuGrower` |
| `GpuGrowerProofs` | the theorems about `GpuGrower` | TLAPS |
| `RowPartition` | one `RowPartitioner::partition`, a unit of a cube at a time | `MCRowPartition` |
| `BlockPartition` | the same partition on the host, by parallel blocks (EXTENDS `RowPartition`) | `MCRowPartition` |
| `Boosting` | `Learner`, `GBTree`, device margins, `train_from`, `Booster::update` | `MCBoosting` |
| `BoostingProofs` | the theorems about `Boosting` | TLAPS |
| `PartitionProofs` | the theorems about `RowPartition` and `BlockPartition` | TLAPS |
| `Subsequences` | the elements of a sequence and those chosen of them | used by both growers and the partition |
| `CommonLemmas` | arithmetic, induction, folds and chosen subsequences: what the proofs share | TLAPS |
| `LinearBooster` | the rounds of `gblinear` | `MCLinearBooster` |
| `LinearProofs` | the theorems about `LinearBooster` | TLAPS |
| `Fractions` | exact fractions | used by the next two families |
| `SplitSearch` | the search for splits and what a split hands its children, on the host, the device and by the exact updater | `MCSplitSearch` |
| `SplitSearchProofs` | the theorems about `SplitSearch` | TLAPS |
| `TreeModel` | prune, refresh and contributions (EXTENDS `SplitSearch`) | `MCSplitSearch` |
| `QuantileSketch`, `Binning`, `Sampling`, `HistogramBuild` | the way of the data, each extending the one before: table, cuts, bins, sampled gradients and columns, histograms | `MCHistogramBuild` |

How they compose. `TreeGrower` and `GpuGrower` take a split as any split: which one is
found is the question of `SplitSearch`. They take a histogram as the rows it counts:
that a build counts each row once, on threads and on cubes, is `HistogramIsSum`. They
take the partition of a node as one step: that blocks and tiles do it is `RowPartition`
and `BlockPartition`. `Boosting` takes a tree as an identity. `TreeModel` goes on from
the trees that `SplitSearch` grows, and `HistogramBuild` from the bins, the gradients
and the cuts that the modules before it made.

### TreeGrower

One variable per field of the grower, plus `pc`, the phase of `grow_inner`'s loop,
`at`, the position of a sequential loop, and `todo`, the tasks of a parallel one.

| code | model |
|---|---|
| `ExpandQueue` (`DepthWise`, `LossGuide`) | `queue`, a sequence in order of arrival; `PopLevel`/`PopFront`/`PopEnd` take a level up to the cap, `PopBest` the heap's maximum |
| `Partitioner` | `segments`, the row set of each live node; `SplitAll` runs its tasks in any order |
| `HistCollection` | `hist` (node to contents) and `free` (stack of contents); `Allocate`, `Release` |
| `grow_inner` | `InitRoot`, pop, `ApplySplit`, `SplitAll`, `AllocBuild`, `BuildHists`, `AllocSubtract`, `SubtractHists`, `EvaluateSplits`, `ReleaseParents`, `Push`, `PushEnd` |
| `reset`, the next tree | `NextTree`, `ClearHist`, `ResetDone` |

A histogram is the number of times it counts each row: sums are linear, so two
histograms with the same counts have the same sums for any gradients, and a sum
over other rows, a stale buffer or a row counted twice is a different value. A
split is any gain and any condition that separates the rows the histogram counts,
so the properties hold whatever the split search answers. The cap of a batch is a
setting (256 in the code), to see batches that do and do not take a level.

### GpuGrower

The host's side of the device grower, a launch at a time; launches of a device run in
the order they were made, so only the segments of one partition come in any order.

| code | model |
|---|---|
| `ExpandEntry` | a record of `queue`, `batch` or `children`: node, segment `begin`/`len`, buffer and slot of its histogram, gain, condition |
| `RowPartitioner` | `bufs` (two row orders), `cur`, `side` per position; `Source`, `CatchUp`, `Rewritten`, `PartitionSegment` |
| `frontiers`, `arena`, the handles | `frontiers` (contents of each pooled buffer, slot by slot), `arena`, `root`; `Held` is every buffer a live handle names, `ZeroedFrontier` and `TakeSlots` hand slots out |
| `atomic_free` | chosen at the start: the kernel adds to cleared slots, or writes every bin and may leave sums in pieces (`pending`) |
| `grow_columns` | `StartTree`, `PopBatch`, `ApplySplits`, `PartitionSegment`, `BuildHists`, `SubtractHists`, `EvaluateChild`, `NextTree` |
| the two ways to score the training rows | `HostLeaves` (`read`, `GrownTree`), `DeviceLeaves` (sorted segments, binary search, side of the first position) |

A new allocation holds garbage, so a slot read before it is written is a wrong count.
The number of trees is part of a training's settings, so that only small trees are
followed by a second one.

### RowPartition

What `GpuGrower` takes as one step, the partition of a level's segments, is two
launches: `count_tile_kernel` and `scatter_tile_kernel`. Here they are run a unit at a
time. What a unit does between two barriers is one step (`SumCounts`, `Reduce`,
`WriteFlag`, `ScanRead`, `ScanAdd`, `WriteCount`, `Scatter`), because in such an
interval no unit reads what another one writes; that it is so for the scan is what the
barriers are for and what `StablePartition` breaks without. `Arrived` is the barrier.
`table` is the tile table of the host, `s_flag`, `s_base`, `s_total` the shared
memory, which starts with garbage; `tile_left` and `seg_left` are buffers kept from
earlier partitions and start stale. Cubes run side by side with a memory each, or in
turn in one memory. `CountSerial` and `ScatterSerial` are the shape of a runtime
without planes. Cubes beyond the last tile, which skip the body, are left out.

The barrier at the end of a tile can be dropped from the model without breaking a
property: what a unit does before the next barrier touches only slots that no other
unit reads after the last one.

### BlockPartition

`Partitioner::split_all` deals the nodes of a batch to parallel tasks; a node of
`ParallelMin` rows or more is partitioned by blocks (`partition_blocked`): `CountBlock`
counts a block and remembers its decisions, `ScatterRow` writes one row of a block into
the slices cut from the counts, `CopyBack` ends the task. A smaller node is
`PartitionSmall`. Scatters are one row at a time because the code writes without a check
of bounds: what protects a neighbour's slice is only that every block writes what it
counted.

### Boosting

A round is split where the code hands over: `Configure`, `PreBoost`, then
`DeviceRound`, or `GetGradient`, `DoBoost` and one `GrowTree`, `GrowVectorTree` or
`UpdateTree` per turn of the loops, `RescaleDropped`, and `Score` and `Finish` of
`train_from`; `Update` is `Booster::update`. A margin is the bag of the
contributions summed in it: tree, form (as grown, rewritten by a modifier), output
group, weight (the factors applied to it) and matrix. Two routes add to margins in
the code and both are modelled: one that reads the whole leaf (`Leaf`: row sets,
`predict_margin`), one that reads `Node::value` (`Scalar`: dropout, rewritten
trees), which a vector leaf leaves at zero. Dropping is any subset, a metric any of
a few scores or not a number.
An approx round sketches the cuts again from the hessians of each group and keeps a
binned matrix only where they cannot change: `cuts` holds the hessians the matrix was
sketched by, and `FitsResiduals` asks that every tree of an approx fit grew on the bins
of the moment.

### LinearBooster

A round is `StartRound` (gradients of all rows), `UpdateBias`, then per output group
`Setup`, a pick (`NextFeature`, `SweepDone`) and a step: `ShotgunStep` updates features
page by page, `CoordStep` and `DeviceStep` one coordinate at a time; `Finish` and
`ApplyDelta` end it by adding what the weights moved to the margins. `ContinueFrom` is a
second fit that starts from the first one's weights. With a device the copy corrected is
`resident`, and the host's, `gpair`, is fetched only for the selectors that rank:
when it is (`Downloaded`) is what `GreedyPicksLargest` is about.
Numbers are integers, a step is rounded towards zero where the code narrows to f32, so a
residual that missed a correction is a different number.

### SplitSearch and TreeModel

`SplitSearch` grows a tree over a handful of rows, each of one of a few kinds: `Init`
takes every mixture, `ApplySplit` splits any leaf by its best split. Its operators are the code's
functions: `EnumerateForward` and the others of `hist.rs`, each a list of candidates that one
fold (`Scan`) keeps the best of, a running sum being the total of a prefix; the device's candidates as they
are strided over by units and reduced (`Widths` are the cubes tried), the exact scan, the
boxes of a monotone constraint and the lists of an interaction constraint, and the sums
and weights of both children. Sums are integers, weights and gains exact fractions.
The reference definition is `GainsOf`: every parting of the node's rows that a feature,
the default direction and the constraints allow (`RightBins` are the bins that may go right,
`SideAt` the rows this leaves on the left), gained by definition. A vector leaf has no categories
(`api.rs:884` refuses the fit).

`TreeModel` takes the tree over once nothing splits (`HandOver`), in the settings that
name updaters, and runs them in their order (`Prune`, `Refresh`), over the rows the tree
was grown on or over copies of the first row, as `process_type=update` may on another
matrix. `TreeShap` is `tree_shap` with its path of fractions, `SaabasContribution` the approximate
one, and the reference is the Shapley value by definition, over subsets of the features.

A new leaf's `base_weight` is its output, learning rate included; only a split takes the
rate out. Contributions read the scalar value of a leaf, zero in a vector leaf.

### QuantileSketch, Binning, Sampling, HistogramBuild

| module | steps | abstracts |
|---|---|---|
| `QuantileSketch` | the matrix from dense, csr or libsvm input; `FeedRow` feeds the sketch of the columns a task owns, with the staging queue, its flush through levels and the pruning of a summary; or the device's radix sort pass by pass and the cuts it reads | values and weights are integers, so ranks are exact; the 1e-5 past the last cut is one |
| `Binning` | the row index with its width and its column-major copy, dense or sparse; both packed copies of the ELLPACK matrix, packed on either side | a word of eight bits for 32 |
| `Sampling` | per tree, the gradients sampled in chunks by tasks that skip to their place of one engine (uniform and gradient-based), and the nested column sets | a small modulus for 2^63; any column draw is allowed |
| `HistogramBuild` | per target, the CPU's tasks by (node, lane, group); on the device the quantiser's sums, the feature groups, the cubes with native or two-word atomics or the chunks without | two words of four bits for 32 |

A CPU cell is the sequence of rows added, lane by lane, since two equal sequences are one
floating-point sum whatever the rounding. A device cell is a pair of words, and an addition
between cubes is split where the code reads the old low word and adds the carry later.
Within a cube the additions to its shared memory are one step; cubes of different nodes or
groups write disjoint words and run one after another; a shared sum is flushed word by
word, skipping zeroes.

## 3. Runs

Times are with two workers.

| run | shows | bounds |
|---|---|---|
| `grower_safety` | the invariants of `TreeGrower` | five rows (up to renaming), two trees, gains 0-2, seven settings: both policies, batches of one and two candidates, each limit off and biting, a free list of two |
| `grower_live` | `TreeGrower` implements `LeafSplitting` with its progress; every tree ends | four rows |
| `gpu_safety` | the invariants of `GpuGrower` | five rows, gains 0-2, an arena of two slots, one tree under five settings and two trees of at most three leaves |
| `gpu_refines` | `GpuGrower` implements `LeafSplitting` with its progress | four rows, one tree, the same settings |
| `partition_tiles` | the partition on the device, then on the host; no unit stuck at a barrier | up to seven rows in one to three segments and every choice of those that go left; cubes of two, three and four units, an empty segment; blocks of two rows from three rows on |
| `boosting` | the invariants of `Boosting` | three rounds (patience and three when stopping early) and one `update`, bases of 0-2 rounds, one and two groups, one and two parallel trees, each kind of round |
| `linear_rounds` | the invariants of `LinearBooster` | two or three rows and features, three labels, three rounds in one or two fits, both updaters, all selectors, host and device |
| `split_search` | the search, the constraints, the updaters and the contributions | trees over every mixture of five rows of four to six kinds, sixteen settings: one per rule of the search and per order of updaters |
| `data_pipeline` | the way of the data to histograms | some sixty fits: tables of 1-4 columns and 2-56 rows, each input form, both policies and up to four threads, three kinds of atomics, every choice of magnitude for four sampled rows, nine seeds, two trees |
| `vector_leaf_rounds`, `vector_leaf_dropout`, `update_other_matrix` | the findings below | two rounds |

Why these are enough. Five rows give trees of depth three with two nodes on a
level, so a level spans several batches, a batch that finds the rest of a cut level
refused ends growth with a candidate below still waiting, a leaf is dropped from the queue while
others wait, and both buffers of the free list are in use; a second tree starts from
the buffers of the first. On the device five rows are the fewest
in which the loss-guided queue holds a candidate whose buffer nothing else names while
a new buffer is taken, and an arena of two slots makes every batch after the first take
one. A cube of four units is the smallest whose scan and reduction take two strides, so
that one can overrun another; three and four blocks of two rows have a first, an inner and
a last, short one. Three rounds are the fewest in which a tree is dropped twice and a
device round follows and precedes others; early stopping with patience two needs five, so
that its count can be reset and reach its end again; two groups by two parallel trees tell
the two loop orders apart.

Five rows of several kinds give every histogram of two features by three bins that
matters to a scan: empty bins, bins without hessian, ties, missing rows with and without
hessian; trees of depth three put three constraint boxes on a path. 56 distinct values
fill a queue often enough that summaries of two levels are merged and pruned. With words of
eight bits a row of three entries crosses a word, and with halves of four bits a sum of
seven rows carries. Two cubes on one histogram are enough for a lost carry. Chunks of two rows
over four or more rows make a task that has to skip, and with a modulus of 32 a wrong skip
gives another sample for some of nine seeds.

The properties are about pieces of state kept consistent along different paths: a
histogram and a row set (`HistMatchesRows`), scores from row sets and a traversal
(`ScoresMatchTraversal`), margins and a fresh prediction (`CacheIsPrediction`,
`MarginIsPrediction`), gradients and the ensemble without the dropped trees
(`FitsResiduals`), gradients and the weights of the moment (`ResidualsCurrent`), the metric
reported and the model (`ScoresCurrentModel`), the round reported and the history
(`StopsAtBest`), slices and the rounds that grew them (`SlicesAreRounds`), an updated model
and its base (`UpdateInPlace`), a block's slice and its neighbour's (`BlocksStable`), a
search and the best by definition and a split's sums and the rows its test sends
(`BestSplit`), the same search three times
(`ExactAgrees`, `DeviceAgrees`), a split and the leaves far below it
(`MonotonePredictions`, `PathsWithinGroup`), statistics found by histograms and by dropping
rows (`RefreshFindsTheSame`), the views of a cell (`BinsAgree`), a parallel and a sequential
stream (`SampleByRow`), a sum and its rows (`HistogramIsSum`), and so on; each
is stated in a comment where it is defined.

What some of them leave out, because the code does not promise it: `ExactAgrees` is for
settings without monotone constraints (the exact scan skips its forward direction on
indicator columns); `DeviceAgrees` does not compare the gain of a vector leaf below the
root in a box (last note below); `ResidualsCurrent` is for a shotgun updater with one page
(its later pages use the round's first gradients); `ThresholdMeetsBudget` is for rows that
all have some gradient (a zero magnitude uses budget it cannot spend).

Fairness. `TreeGrower` and `GpuGrower` assume weak fairness of their next step as a
whole: the driver is a loop, rayon runs every task it was given, the host waits for its
launches. Nothing else is assumed; no order
among the tasks of a phase. The other modules have safety properties only. No counter of
`RowPartition` or `BlockPartition` can grow for ever, and `LinearBooster` and `Boosting` end
in a step of their own, so there the absence of deadlock is progress. `MCSplitSearch` and
`MCHistogramBuild` do not check deadlock: a tree that nothing splits, and a fit whose
histograms are built, have no next step.

### Findings

1. `num_rounds` (`gbm/mod.rs:254-256`) divides the number of trees by parallel trees
   times output groups, but a round of vector leaves grows one tree per parallel tree
   only: with two outputs two rounds count as one (`vector_leaf_rounds`). The default
   range of a prediction, slices, continuation and per-round seeds use that number.
2. `remove_trees` and `rescale_dropped` (`gbm/mod.rs:517-530, 1077-1096`) read the
   scalar value of a leaf, zero in a vector leaf: with `multi_output_tree` dropout
   takes nothing out of the margins and changes the tree's weight all the same
   (`vector_leaf_dropout`).
3. `Booster::update` on another matrix mixes the new labels with the first matrix's
   margins, bins and row sets: `configure` returns early (`learner.rs:191`,
   `update_other_matrix`).

Also noted while modelling, without a run of its own. The instances avoid these cases or
the properties exclude them, as said above.

- Growth. A batch takes at most 256 candidates of a level (`tree/hist.rs:226`). When what
  is left of a level cut so all fails `min_split_loss`, the next batch is empty and growth
  ends (`hist.rs:974-976`), although candidates of the level below wait.
  `ExhaustsCandidates` says that nothing else ends it early, and the run meets the case.
  The device grower has no cap and grows on. "optimal category subset" (`hist.rs:1669`) holds for `lambda = 0` only.
- A vector leaf's second scan runs if the sums over all targets differ
  (`tree/hist.rs:1839-1840`). Rows without a value whose gradients cancel out over the targets,
  without a hessian, are never tried on the left; `Partings` leaves that out (`MissingCount`).
- A vector leaf in a monotone box: the host takes the node's own gain inside the box
  (`hist.rs:1807`), the device outside (`gpu/grower.rs:989-998`), against
  `docs/gpu-remaining-work.md:357-365`.
- Exact updater: the threshold read off two adjacent floats may be the larger one's own
  midpoint, and send rows the other way (`colmaker.rs:453-455`).
- Refresh: `refresh.rs:21-23` says a monotone constraint is refused; nothing refuses it and
  weights are unbounded.
- Continuation: `continue_from` takes a base with another `num_parallel_tree` or number of
  outputs, and rounds are counted by the base's numbers (`learner.rs:348`).
- Prediction: `apply_training_dropout` (`api.rs:90`) subtracts trees drawn from the whole
  ensemble from a prediction that may cover a range of rounds. `predict_interaction`
  (`predictor/mod.rs:154`) measures an interaction by making a feature missing, so it is
  zero wherever the row follows default directions.
- approx: with a constant hessian and a row sample the first sample's cuts are kept,
  against "re-sketching would give the same cuts" (`gbm/mod.rs:931-932`).
- Data: a full csr or libsvm row with its columns out of order is binned by position
  (`gpu/sketch.rs:563-567`, the dense path of `gradient_index.rs`); `from_libsvm_str` keeps
  NaN as a value; "exactly as the CPU index treats it" of `build_ellpack` is not so for a
  category the cuts have not seen, which no cuts of the same data miss.
- Row samples: seed 0 restarts every chunk at the same state, against "Row i always sees
  the (i + 1)-th value" (`tree/sampler.rs`; seeds here are from one). Gradient-based
  samples of a vector leaf keep the rows' own gradients and drop the 1/p
  (`gbm/mod.rs:844-857`).
- Linear: a shotgun round with `max_row_perbatch` reads the round's first gradients on its
  later pages (against `linear/mod.rs:12-14`).

## 4. Proofs

A theorem holds for every value of the constants its module's assumption admits:
`GrowerAssumption` and `GpuGrowerAssumption` (the ranges `TreeParameters::validate`
enforces, a limit of depth or of leaves, a matrix with rows, finitely many), `BoostingAssumption` (the ranges of the configuration, a base that
names its trees by their places), `LinearAssumption` (tables of integers with rows and
columns, the settings `LinearBoosterParameters::validate` accepts) and `SettingAssumption`
(penalties that are not negative, a constraint in -1, 0, 1 for each feature, bins within the
features', gradients with hessians that are not negative).

### The CPU grower: `TreeGrowerProofs`, `GrowthProofs`

| theorem | property |
|---|---|
| `TypeCorrect` | `TypeOK`, with the free list within its cap |
| `HistCorrect` | `HistMatchesRows` |
| `RowsPartitioned` | each row is in the row set of exactly one live node |
| `SplittingSafety` | every step is a step of `LeafSplitting` or a stutter |
| `ScoresAgree` | `ScoresMatchTraversal` |
| `WithinLimits` | `LimitsRespected` |
| `LevelByLevel` | `BreadthFirst` |
| `NothingLeft` | `ExhaustsCandidates`, for any cap of a batch |
| `DeadReleased` | `NoDeadHistogram` |

`HistMatchesRows` is not inductive: a child's histogram is a difference of its
parent's and its sibling's, so one needs that the parent of every planned child still
owns a correct histogram, that the two children's row sets are disjoint and make up the
parent's, that built children are done before a subtraction reads them, and that
queued candidates are distinct leaves whose buffers no allocation or release of this
batch touches. `IInv` states this phase by phase: types, the shape of the tree (ids
dense, children younger than parents), row sets disjoint and non-empty over the leaves,
candidates with distinct nodes and correct histograms, and for each phase what of the
batch has been done up to `at` or outside `todo`. The proof has one lemma per action,
`NextIInv` combines them, and the theorems follow from `Invariance`.

`GInv` goes on from `IInv`; neither it nor the properties it is for are about types or
histograms, so it is proved apart, part by part:

- `LiveInv`, `OwnersInv`: at every point of a batch, which nodes have a row set and which
  a histogram. Between batches only leaves own one: `NoDeadHistogram`.
- `LeavesInv`: `num_leaves` is the number of leaves of the tree plus those the rest of
  the batch will add, and never passes `max_leaves`. `DepthInv`: a candidate remembers its
  node's depth, which is one more than its parent's. Together: `LimitsRespected`.
- `OrderInv`: the depth-wise queue is sorted and spans the level of the batch and the
  next, which is `BreadthFirst` although a level may take several batches.
- `CutInv`: two levels wait together only where the upper one was cut, which takes a
  full batch of its expanded nodes; members of the batch still to be applied count.
  `RefusedInv`: while a batch is empty, its level has a leaf with rows for two children,
  in front of the queue or refused already. An empty batch with candidates behind it is
  therefore one that `ExhaustsCandidates` allows, for any cap (`EndInv`).
- `RoutingInv`: the rows of a live node are those the tree sends to it. Routing is
  a recursive function over the tree, so the invariant says that some function satisfies
  its equations; `ScoresAgree` shows that this function is `Routed`.

### The device grower: `GpuGrowerProofs`

| theorem | property |
|---|---|
| `HistogramsMatch` | `HistMatchesRows` |
| `BatchesTogether` | `BatchTogether` |
| `ScoresTraverse` | `ScoresMatchTraversal` |
| `SplittingSafety` | every step is a step of `LeafSplitting` or a stutter |

The theorems are about any number of rows, of trees over one pool and of arena slots,
both policies and both kinds of kernel. None of the three properties is inductive: all
go back to `Live`, what is alive at a moment and which rows it holds. That is the
segments of the leaves, of the queue and of the children, and while a batch is worked on
the segments of its candidates, whose rows a partition reads from the buffer it does not
write (`BatchRows`). `IInv` says of them:

- `TileInv`: their segments share out the positions, and their rows the rows.
  `OnceInv`, `TreeInv`: their nodes are the leaves of the tree, each once.
- `SideInv`: a segment is in one of the two row buffers, the batch's in the one that is
  written once the others were caught up. `DealtInv`: what a dealt segment reads
  there is its left child's rows and then its right child's; positions of other segments are
  not written, because of `TileInv`.
- `LevelInv`: what may become a batch has one depth, one buffer and one side. Depth-wise
  this needs that the queue is empty while a batch lives, loss-guided that a batch is one
  candidate. `BatchTogether` follows.
- `SlotInv`: what a live handle names is a slot of an existing buffer that the arena has
  already passed, and what the arena still has is clear if the kernel adds. A buffer
  of the pool is given out only if no handle names it, so `CandidateInv`, that a
  candidate's slot counts its rows, outlives every allocation, the clearing of a used
  buffer and the builds into it: `HistMatchesRows`.
- `PairInv`: between build and subtraction the children lie in pairs of neighbouring
  slots, the built one complete or `pending`, and the parent still counts both.
- `RoutingInv`: some function over the tree satisfies the equations of routing and gives
  each live node its rows. It is `Routed`, since a node at which the two first
  differ would have a parent, an earlier node, at which they differ. From there
  `ScoresTraverse` is about two ways to find the segment of a row: the host lists segments, the
  device searches the last that starts at or before a position.

For the refinement a dealt segment is a `Split`, the batch that turns out empty a
`Stop`; where the children are listed (`BuildHists`), nothing changes in the abstraction.
`SplitNode`, `GrownIs`, `ChosenRun` and `TakenAll` say what the folds of the model
(splits applied in order, candidates taken from a level) compute.

### Partitions: `PartitionProofs`

| theorem | property |
|---|---|
| `HostPartitionStable` | `BlocksStable` |
| `DevicePartitionStable`, `DeviceBesideHost` | `StablePartition` |

`HostPartitionStable` is about any lengths of the nodes, any block size and threshold and any rows that go
left (`RowPartitionAssumption`, `BlockPartitionAssumption`). `Place(s, p)` is where
a stable partition puts the row at position `p` of node `s`; `Places` says that no two rows of a
node share a place, `Placed` that rows which lie at their places are what `Stably` asks for.
`BlocksStable` says nothing before the end, so `HostInv` says it of every moment: a node
still to do has its rows where they were, a counted block has the count and the
decisions of its rows (`Remembered`), and each row it has scattered lies at its place
(`Scattered`). `SlotIsPlace` is the heart: the slices cut from the counts, by the sums over
the blocks before (`CountsAdd`, `SumOut`), start where the places of the block's rows do. It
needs every block counted, which is the guard of `ScatterRow`; and no write can undo
another, of the same block or of another one, because places are apart. A small node is `BlockIs`: dealing
rows to a front and a back and turning the back round is choosing.

`DevicePartitionStable` is about any segments, any width of a cube, tiles with barriers or
with one unit each, cubes side by side or in turn in one memory, and any order of the units
between two barriers; `DeviceBesideHost` says it of `HostSpec`, the specification the run
checks. `BlockIsPower` and `HowMany` say of `scan_block_1d` that a cube is a power of two wide and
has as many strides and halvings as the kernels' loops run. `TilesLaid`, `TotalsAdd` and
`EveryRow` say of the tile table that tiles share out their segment, so that the counts of
the tiles before one add up to the rows that go left before its first. `TileInv` then says of every
interval what it left behind:

- `TogetherIn`, `InTurnIn`: the barriers keep units of a cube at most one interval apart, and
  with one memory a tile begins when those before it have ended. Everything below needs this:
  a unit in the first half of a stride reads slots whose owners are at most one half ahead, and
  the next half begins when all have read.
- `FlagsIn`, `AddsIn`: after `j` strides a unit's slot counts the left rows of a `Window` of
  `Doubled[j]` offsets that ends at its own; between the halves of a stride its register
  holds the window `Behind`. `WindowDoubles` joins the two, and after the last stride the
  window is the whole tile up to the unit.
- `SharesIn`: after `q` halvings unit `u` holds the sums over every `Doubled[Ups - q]`-th
  tile of its segment. `LeftBy` says which unit still holds the share of which halving, since a
  unit that drops out of the reduction keeps what it had; `SharesJoin` and `Halving` add two
  shares. Sums of stale counts do no harm: `TotalsIn` says that a tile is
  counted before the second kernel begins.
- `TakenIn`, `ToldIn`: what the first unit ends with are the left rows before the tile
  and those of the segment, in registers and in the count read back.
- `SentIn`, `EdgesIn`: a row sent lies in its slot. `SlotsArePlaces` says that the slot is
  the row's `Place`, the one of the host's proof, so no row is sent over another and
  `Placed` at the end is a stable partition.

`FlagsIn` and `SharesIn` speak of tiles whose units have not all ended, because in one memory the
next tile overwrites the rest. A tile of one unit needs none of it: `SerialCounts` says that
its running count is the left rows up to each offset. TLC agreed to `TileInv` on the instance of
`partition_tiles` before it was proved.

### Training: `BoostingProofs`

| theorem | property | under |
|---|---|---|
| `EarlyStopping` | `StopsAtBest` | any fit |
| `InPlace` | `UpdateInPlace` | `Continues` |
| `Slices` | `SlicesAreRounds` | `Continues` |
| `Resumable` | a fit leaves a base that the next fit continues | `Continues` |
| `CacheCorrect` | `CacheIsPrediction` | `Ordinary` |
| `ScoresCorrect` | `ScoresCurrentModel` | `Ordinary` |
| `FitsCorrect` | `FitsResiduals` | `Ordinary`, and the matrix asked for is the one that was binned |

The hypotheses are needed; what lies outside them is either in the findings or
refuted by the code:

- `Continues`: the base has as many parallel trees as the fit, and each tree in the
  place of its round and group. `continue_from` (`learner.rs:348`) checks neither, and
  with another shape a count of rounds by division is wrong. A fresh fit has a base without
  trees, which `Continues` holds of, and `Resumable` hands the hypothesis on from a fit to the next.
- `Ordinary`: dropout and `process_type=update` over scalar leaves only (a vector leaf
  has no `Node::value`: the second finding), and no `Booster::update` with another matrix while
  dropout or modifiers are on (the third finding).

`MarginInv` says the margins are the bag that holds every contribution of the model
once; subtracting a dropped tree and adding it again gives that bag back only if no two
contributions are alike. Hence the order of the parts: `TypeInv` and `ControlInv`; then
`ShapeInv`, at which place of the ensemble a round puts the tree of each group, by
division and remainder (`TurnInBlock`, `BlockUnique`) and so which tree of the base an update
visits; from it `IdentityInv`, that no two trees are alike; from it `MarginInv`, `CutsInv`
and `FitInv`. `StopInv` stands alone: the best score so far, the round it was reached in, and
how many rounds ago.

### The linear booster: `LinearProofs`

| theorem | property |
|---|---|
| `Residuals` | `ResidualsCurrent` |
| `Margins` | `MarginIsPrediction` |
| `Greedy` | `GreedyPicksLargest` |
| `Minimises` | `StepMinimises` |

The data are in the model, so the theorems are about any table, labels, page size,
block size, number of groups and weights. Their inductive invariant `IInv` is `TypeInv`
with two facts, both said with `MarginAt`, the margin at given weights:

- `MarginsKept`: the margins the learner keeps are those of the weights the round
  started from. `ApplyDelta` adds differences of weights and nothing else, and the
  margins are the new weights' because a total of differences is the difference of the
  totals (`TotalDifference`).
- `ResidualsCurrent` itself: a step corrects the gradient of every row by its hessian
  times what the row's margin moves (`MarginMoves`, `CurrentMoves`).

The work is in what a step does to a row, which a lemma states for each of them:
`RawColumn` says that the flattened pages of the device hold each column where `col_ptr`
says; `DeviceSumsAgree`, that threads over blocks of it add up to the host's
sums; `UpdateIs`, `DeviceUpdateIs`, `CoordPages`, `DevicePages` and `ShotgunIs`, that
page by page, entry by entry or group by group every row is corrected exactly once. A
shotgun round over several pages is left out of `ResidualsCurrent`, since there it is
false (section 3, findings). Rows the objective excludes (a negative hessian) have no
gradient to be current. `Greedy` needs that "no larger" is transitive on fractions
(`NotLarger`), `Minimises` a case split of the clamp in `coordinate_delta`.

### The search for splits: `SplitSearchProofs`

| theorem | property |
|---|---|
| `SearchInvariant` | the invariant below |
| `SearchIsBest` | `BestSplit` |
| `SumsFollowRows` | `SidesAddUp`, the half of it about sums |
| `PredictionsMonotone` | `MonotonePredictions` |
| `PathsKeepGroups` | `PathsWithinGroup` |

The theorems are about any number of rows, features, bins, categories and targets, any
gradients, penalties and step limit, and trees of any depth. No property is inductive: one compares
two rows that may part at any node, one a whole path, and one asks of a child's rows what
only the split of its parent knows. `SearchInv` is

- `TreeInv`: the split a node has found is none, or one on a feature it may use whose two
  weights are in the constraint's order (`IsSplit`). That holds of every candidate that a scan
  lets through (`ChoicesOffered`, `OfferIsSplit`), so of the best of them (`EvaluateBest`, `FoundIs`).
  A node's histograms and sums are those of its rows (`Summed`), and the sums of the split
  found are those of the rows its test sends left and right (`Told`).
- `LinksInv`: children come in pairs, later in the tree than their parent, and have one.
- `PathInv`: the stored path is the parent's with its feature, and lies within a group; the
  stored features are those that keep it so.
- `BoxInv`: under a monotone constraint a node's weight is in its box, its children's boxes are
  parts of it, and lie apart if the split's feature is constrained.

`SumsFollowRows` is read off `TreeInv`, and the work is in keeping it. A scan adds and subtracts
bins, and the child's rows follow from the stored test alone: cut, categories and default
side. `PartsAll` says that each candidate of a scan, of either direction, has a set of bins for
one side, that the other has the rest of the node's sums, and that the test the candidate
becomes sends exactly the rows in those bins there (`TestUp`, `TestDown`, `TestCategories`;
`CutIs` for the cut before a feature's first bin). `BinSums` and `RowsRest` turn bins into
rows, by induction on the bins and on the rows, and so the rows without a value, which
no bin holds, are counted where the test sends them; `ToldAddsUp` does so for each
target of a vector leaf.

`SearchIsBest` adds `GainInv`: every node has a box and a gain to compare with (`Weighable`),
and its split gains the most of its partings (`GainsMost`). For a new node that is
`NodeBest`, about the search alone, in two directions. What is found is a parting: `ChoiceParts`
says that the rows a candidate's test sends left are one of `Partings`, `OfferPriced` that its
gain is that parting's by definition, from the rows. And nothing is missed: `PartingChosen` gives every parting
that is allowed a candidate of the same gain, and `EvaluateBest` and `EvaluateSplitsBest` say of the
folds over candidates and features that none gains more than what they end with, ties and
their rule included. Three shortcuts of the scans are where that could fail:

- The second scan runs only if the bins do not add up to the node. For a scalar leaf the rows
  without a value then add nothing, and a cut with them on the left is as good as
  one without (`MissingSkipped`); cuts at the ends leave a side empty, which is not allowed
  (`AllowedSides`).
- Categories are taken in the order of their weights, the first few or all but the last few.
  `CategoriesOrdered` says that the order is strict, ties by number, and `HeadIs`, `HeadExists` that
  a set of categories before all others is the first so many, so that a count of predecessors
  (`SortedCategories`) names each of `RightBins` once (`FirstIs`).
- A vector leaf's gains are read from histograms of each target (`AllOffered`, `AllAddUp`).

A node keeps the split while its other fields change (`SameGains`), and its box and its gain
are fractions because the sums and weights that its parent's split hands down are (`BoxesTyped`,
`NodeGainIs`).

`PredictionsMonotone` goes from the leaves up (`Backwards`): the leaf that a row reaches
from a node has its weight in the node's box (`WeightsHeld`), two rows that differ in one
number part only at a split on it, the lesser to the left (`GoesApart`), and there the
boxes say the order (`SidesOrdered`). A traversal and the features above a node are recursive functions over
the tree; `LeafOfIs` and `AboveIs` show that their equations have a solution, which is
what the `CHOOSE` behind them needs. The midpoint that parts two boxes lies between the weights because
fractions are ordered (`Ordered`, `Between`), which takes the model's way to compare
them, by the greatest common divisor, down to Euclid (`GcdIs`, `ComparedAs`).

`MonotonePredictions` is about scalar trees: the search for a vector leaf's split asks no order of its
weights (`IsFinite`).

### What is not proved

Liveness (the progress of `LeafSplitting`, `Terminates`) and ENABLED are outside what TLAPS
proves here. `Binning`, `HistogramBuild`, `QuantileSketch`, `Sampling` and `TreeModel` compute
by recursive operators, which the prover does not take: their properties are checked
by TLC alone, over all inputs within the bounds of section 3. Where a proof needs
induction (sums over sets, counting, routing) it cites `NatSetInduction` or
`FiniteSetInduction` with the set of numbers or of sets that satisfy the claim, which is
first-order; where it needs a fold over a sequence, `FoldExists` says that the fold is the
last of a run of its steps. Of `SplitSearch`, `ExactAgrees` and
`DeviceAgrees` are checked by TLC alone: they compare two searches, down to which of equal candidates
wins, and would need a scan by strides, a reduction by halves and a sorted column to be
shown to end with the same one.

## 5. Not modelled

- Floating-point arithmetic: objectives and metrics are choices or small numbers; sums,
  gains and weights are exact; f32 narrowing is left out but for a linear step.
- Objectives and metrics themselves: formulas, row by row, without state.
- `parameters/*` beyond the ranges and refusals that bound the models: names, aliases and
  defaults. `model_io.rs`: wording of a JSON file.
- The sparse layouts of the device (probe kernels, contiguous loads) and the choice
  between tunings; the level-wise positions of the exact grower; leaf indices, base
  margins and interaction contributions; the row sample inside an approx sketch; the
  arithmetic of the Mersenne twister.
- `threading.rs`, `phases.rs`, `reference.rs`, errors, exports, benchmarks and fixtures.

## 6. Plan

1. Theorems about the other searches of `SplitSearch`: what `DeviceAgrees` and `ExactAgrees` check.
2. The level-wise positions of the exact grower; the options of a prediction.
3. `Parameters` (aliases and values resolved once, in whatever order they are set) and the
   pairs of ranking objectives.
