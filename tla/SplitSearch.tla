----------------------------- MODULE SplitSearch -----------------------------
(***************************************************************************)
(* The search for a node's split and what a split hands its children: the  *)
(* scans of src/tree/hist.rs, the same on the device                       *)
(* (gpu/evaluate_splits.rs, gpu/categorical.rs), the exact updater's scan  *)
(* (tree/colmaker.rs), and the two constraint systems of tree/evaluator.rs.*)
(*                                                                         *)
(* A tree grows over a few rows, by the best split of any leaf.  Sums are  *)
(* integers and weights and gains exact fractions: the widths the code     *)
(* narrows to, and the rounding of a midpoint between neighbouring floats, *)
(* are left out.  A cut is named by its bin and a column's least value,    *)
(* which no cut equals, by a number below every bin.                       *)
(***************************************************************************)
EXTENDS Fractions, FiniteSets, Sequences, SequencesExt

CONSTANTS
  Settings,   \* parameters and the kinds of row, see SettingAssumption
  NumRows     \* rows of the root

ASSUME SettingAssumption ==
  /\ NumRows \in Nat \ {0}
  /\ Settings \subseteq
       [features : Nat \ {0}, bins : Nat \ {0}, targets : Nat \ {0},
        kinds : Seq([bin : Seq(Nat), gpair : Seq(Int \X Nat)]),   \* bin 0 is no value
        lambda : Nat, alpha : Nat, max_delta_step : Nat, min_child_weight : Nat,
        monotone : Seq({-1, 0, 1}),
        interaction : SUBSET SUBSET Nat,            \* none when empty
        cat : SUBSET Nat, max_cat_to_onehot : Nat, max_cat_threshold : Nat,
        \* and of the updaters that follow the grower
        updaters : Seq({"refresh", "prune"}), refresh_leaf : BOOLEAN,
        learning_rate : Nat \X Nat, min_split_loss : Nat, max_depth : Nat]
  /\ \A s \in Settings :
       /\ Len(s.monotone) = s.features
       /\ s.targets > 1 => s.cat = {}                  \* else the fit is refused
       /\ \A i \in DOMAIN s.kinds :
            /\ s.kinds[i].bin \in [1 .. s.features -> 0 .. s.bins]
            /\ Len(s.kinds[i].gpair) = s.targets

VARIABLES
  p,      \* the setting
  rows,   \* the root's rows, as kinds
  tree    \* the nodes

vars == <<p, rows, tree>>

Features == 0 .. p.features - 1
FeatureSeq == [n \in 1 .. p.features |-> n - 1]
Targets == 1 .. p.targets
IsMulti == p.targets > 1
LesserOf(a, b) == IF a < b THEN a ELSE b

(* A sequence, each of whose entries TLC computes once.                    *)
Table(s) == <<>> \o s

-----------------------------------------------------------------------------
(* Sums of gradients. *)

Stats(g, h) == [grad |-> g, hess |-> h]
NoStats == Stats(0, 0)
Add(a, b) == Stats(a.grad + b.grad, a.hess + b.hess)
Subtract(a, b) == Stats(a.grad - b.grad, a.hess - b.hess)
Total(f, S) == FoldSet(LAMBDA x, s : Add(f[x], s), NoStats, S)
SumTargets(of) == Total(of, DOMAIN of)

BinOf(r, f) == p.kinds[rows[r]].bin[f + 1]
GradientOf(r, t) == Stats(p.kinds[rows[r]].gpair[t][1], p.kinds[rows[r]].gpair[t][2])
SumOf(S, t) == Total([r \in S |-> GradientOf(r, t)], S)

(* Where a feature's bins are in a histogram, and the histogram of a set   *)
(* of rows.                                                                *)
CutPtr(f) == f * p.bins
FeatureBins(f) == [b \in 1 .. p.bins |-> CutPtr(f) + b - 1]
Hist(S, t) ==
  [b \in 0 .. p.features * p.bins - 1 |->
     SumOf({r \in S : BinOf(r, b \div p.bins) = (b % p.bins) + 1}, t)]

-----------------------------------------------------------------------------
(* tree/param.rs and tree/evaluator.rs: weights and gains.  A node brings  *)
(* its box.                                                                *)

ThresholdL1(g) == IF g > p.alpha THEN g - p.alpha ELSE IF g < -p.alpha THEN g + p.alpha ELSE 0

Clamp(w, low, high) == IF Below(w, low) THEN low ELSE IF Below(high, w) THEN high ELSE w

(* calc_weight of tree/param.rs.                                           *)
UnboundedWeight(s) ==
  IF s.hess <= 0 THEN Zero
  ELSE LET w == Frac(-ThresholdL1(s.grad), s.hess + p.lambda)
       IN IF p.max_delta_step = 0 THEN w
          ELSE Clamp(w, <<-p.max_delta_step, 1>>, <<p.max_delta_step, 1>>)

HasConstraint == \E i \in DOMAIN p.monotone : p.monotone[i] # 0
CalcWeight(n, s) ==
  IF HasConstraint THEN Clamp(UnboundedWeight(s), n.lower, n.upper) ELSE UnboundedWeight(s)

(* calc_gain_given_weight.                                                 *)
GainGivenWeight(s, w) ==
  IF s.hess <= 0 THEN Zero
  ELSE Minus(Zero, Plus(Plus(Scaled(2 * s.grad, w), Scaled(s.hess + p.lambda, Times(w, w))),
                        Scaled(2 * p.alpha, Magnitude(w))))

ClosedFormGain(s) ==
  IF s.hess <= 0 THEN Zero
  ELSE Frac(ThresholdL1(s.grad) * ThresholdL1(s.grad), s.hess + p.lambda)

(* gain_at: the closed form only where nothing moved the weight.           *)
GainAt(s, w) ==
  IF HasConstraint \/ p.max_delta_step # 0 THEN GainGivenWeight(s, w) ELSE ClosedFormGain(s)
CalcGain(n, s) == GainAt(s, CalcWeight(n, s))

IsValidSplit(left, right, targets) ==
  /\ left.hess > 0 /\ right.hess > 0
  /\ left.hess >= targets * p.min_child_weight
  /\ right.hess >= targets * p.min_child_weight

RightOrder(f, wl, wr) ==
  /\ p.monotone[f + 1] > 0 => AtMost(wl, wr)
  /\ p.monotone[f + 1] < 0 => AtMost(wr, wl)

(* calc_split_gain, and whether it is finite.                              *)
IsAllowed(n, f, left, right) ==
  /\ IsValidSplit(left, right, 1)
  /\ RightOrder(f, CalcWeight(n, left), CalcWeight(n, right))
SplitGain(n, left, right) == Plus(CalcGain(n, left), CalcGain(n, right))

(* multi_gain.                                                             *)
AddedUp(gains) == FoldLeft(Plus, Zero, gains)
MultiGain(n, sums) == AddedUp([t \in Targets |-> CalcGain(n, sums[t])])

-----------------------------------------------------------------------------
(* SplitEntry. *)

NoSplit == [chg |-> Zero, f |-> 0, value |-> 0, default_left |-> FALSE,
            left |-> NoStats, right |-> NoStats, is_cat |-> FALSE, bits |-> {}]
Found(e) == Below(Zero, e.chg)

(* need_replace: of equal candidates the lower feature, then the first.    *)
NeedReplace(e, chg, f) == IF e.f <= f THEN Below(e.chg, chg) ELSE ~Below(chg, e.chg)
UpdateEntry(e, new) == IF NeedReplace(e, new.chg, new.f) THEN new ELSE e

Candidate(n, f, value, dl, left, right, bits) ==
  [chg |-> Minus(SplitGain(n, left, right), n.root_gain), f |-> f, value |-> value,
   default_left |-> dl, left |-> left, right |-> right, is_cat |-> f \in p.cat, bits |-> bits]

(* multi_split_gain: of a vector leaf the children's mean hessian decides. *)
(* The monotone order is asked of sums without gradients, whose weights    *)
(* are equal.                                                              *)
IsFinite(n, c) ==
  IF IsMulti THEN IsValidSplit(c.left, c.right, p.targets)
  ELSE IsAllowed(n, c.f, c.left, c.right)

(* A candidate whose gain is not finite is none.                           *)
Consider(n, e, c) == IF IsFinite(n, c) THEN UpdateEntry(e, c) ELSE e
Scan(n, first, candidates) ==
  FoldLeft(LAMBDA e, c : Consider(n, e, c), first, candidates)

(* backward_split_point: the cut before the bin, or the least value.       *)
MinValue(f) == -(f + 1)
BackwardSplitPoint(f, b) == IF b = CutPtr(f) THEN MinValue(f) ELSE b - 1

(* find_split_condition: the bin of that cut, or -1.                       *)
FindSplitCondition(f, value) == IF value \in ToSet(FeatureBins(f)) THEN value ELSE -1

-----------------------------------------------------------------------------
(* tree/hist.rs: the scans of one feature of a scalar tree. *)

EnumerateForward(n, f, hist) ==
  LET At(b) == LET left == Total(hist, CutPtr(f) .. b)
               IN Candidate(n, f, b, FALSE, left, Subtract(n.stats, left), {})
  IN Scan(n, NoSplit, [i \in 1 .. p.bins |-> At(FeatureBins(f)[i])])

EnumerateBackward(n, f, hist) ==
  LET At(b) == LET right == Total(hist, b .. CutPtr(f) + p.bins - 1)
               IN Candidate(n, f, BackwardSplitPoint(f, b), TRUE, Subtract(n.stats, right),
                            right, {})
  IN Scan(n, NoSplit, [i \in 1 .. p.bins |-> At(FeatureBins(f)[p.bins + 1 - i])])

NonMissing(f, hist) == Total(hist, ToSet(FeatureBins(f)))

(* Every category on its own, the missing rows on either side.             *)
OneHotCandidates(n, f, hist) ==
  LET missing == Subtract(n.stats, NonMissing(f, hist))
      Alone(b, dl) == LET right == IF dl THEN hist[b] ELSE Add(hist[b], missing)
                      IN Candidate(n, f, b, dl, Subtract(n.stats, right), right, {b})
  IN [i \in 1 .. 2 * p.bins |-> Alone(FeatureBins(f)[(i + 1) \div 2], i % 2 = 1)]

(* The categories by the weight their gradients imply.                     *)
CategoryBefore(hist, a, b) ==
  LET wa == UnboundedWeight(hist[a])
      wb == UnboundedWeight(hist[b])
  IN Below(wa, wb) \/ (~Below(wb, wa) /\ a < b)

(* The first k of them.                                                    *)
SortedCategories(f, hist, k) ==
  {b \in ToSet(FeatureBins(f)) :
     Cardinality({a \in ToSet(FeatureBins(f)) : CategoryBefore(hist, a, b)}) < k}

(* The head of that order goes right, the missing rows left, or, from the  *)
(* other end, right.                                                       *)
PartitionCandidates(n, f, hist) ==
  LET First(k) == SortedCategories(f, hist, k)
      steps == LesserOf(p.max_cat_threshold, p.bins) - 1
      Upward(step) ==
        LET right == Total(hist, First(step))
        IN Candidate(n, f, 0, TRUE, Subtract(n.stats, right), right, First(step))
      Downward(step) ==
        LET left == Total(hist, ToSet(FeatureBins(f)) \ First(p.bins - step))
        IN Candidate(n, f, 0, FALSE, left, Subtract(n.stats, left), First(p.bins - step))
  IN IF steps < 1 THEN <<>>
     ELSE [s \in 1 .. steps |-> Upward(s)] \o [s \in 1 .. steps |-> Downward(s)]

UseOneHot == p.bins < p.max_cat_to_onehot
CategoryCandidates(n, f, hist) ==
  IF UseOneHot THEN OneHotCandidates(n, f, hist) ELSE PartitionCandidates(n, f, hist)

Query(n, f) == p.interaction = {} \/ f \in n.allowed

(* A mutated form: missing rows are looked for in the gradients only.      *)
EvaluateOne_GradOnly(n, f) ==
  LET hist == n.hists[1]
      forward == EnumerateForward(n, f, hist)
  IN IF ~Query(n, f) \/ f \in p.cat THEN NoSplit
     ELSE IF NonMissing(f, hist).grad # n.stats.grad
          THEN UpdateEntry(forward, EnumerateBackward(n, f, hist))
          ELSE forward

EvaluateOne(n, f) ==
  LET hist == n.hists[1]
      forward == EnumerateForward(n, f, hist)
  IN IF ~Query(n, f) THEN NoSplit
     ELSE IF f \in p.cat THEN Scan(n, NoSplit, CategoryCandidates(n, f, hist))
     ELSE IF NonMissing(f, hist) # n.stats
          THEN UpdateEntry(forward, EnumerateBackward(n, f, hist))
          ELSE forward

-----------------------------------------------------------------------------
(* The same over one histogram per target. *)

MultiCandidate(n, f, value, dl, lefts, rights, root_gain) ==
  [chg |-> Minus(Plus(MultiGain(n, lefts), MultiGain(n, rights)), root_gain), f |-> f,
   value |-> value, default_left |-> dl, left |-> SumTargets(lefts),
   right |-> SumTargets(rights), is_cat |-> FALSE, bits |-> {}]

EvaluateOneMulti(n, f) ==
  LET SumBins(B) == [t \in Targets |-> Total(n.hists[t], B)]
      Others(sums) == [t \in Targets |-> Subtract(n.sums[t], sums[t])]
      first == CutPtr(f)
      last == first + p.bins - 1
      Upward(b) == LET left == SumBins(first .. b)
                   IN MultiCandidate(n, f, b, FALSE, left, Others(left), MultiGain(n, n.sums))
      Downward(b) == LET right == SumBins(b .. last)
                     IN MultiCandidate(n, f, BackwardSplitPoint(f, b), TRUE, Others(right), right,
                                       MultiGain(n, n.sums))
      forward == Scan(n, NoSplit, [i \in 1 .. p.bins |-> Upward(first + i - 1)])
  IN IF ~Query(n, f) THEN NoSplit
     ELSE IF SumTargets(SumBins(first .. last)) # n.stats
          THEN Scan(n, forward, [i \in 1 .. p.bins |-> Downward(last + 1 - i)])
          ELSE forward

(* multi_child_sums.  No cut is -1, which the code wraps to the bin before *)
(* every bin.                                                              *)
MultiChildSums(n, e) ==
  LET cond == FindSplitCondition(e.f, e.value)
      bins == ToSet(FeatureBins(e.f))
      accumulated == [t \in Targets |->
                        Total(n.hists[t],
                              {b \in bins : IF e.default_left THEN b > cond
                                            ELSE cond = -1 \/ b <= cond})]
      others == [t \in Targets |-> Subtract(n.sums[t], accumulated[t])]
  IN IF e.default_left THEN [left |-> others, right |-> accumulated]
     ELSE [left |-> accumulated, right |-> others]

(* evaluate_splits: the features of a node merged in order.                *)
EvaluateSplits(n) ==
  FoldLeft(LAMBDA best, f : UpdateEntry(best, IF IsMulti THEN EvaluateOneMulti(n, f)
                                              ELSE EvaluateOne(n, f)),
           NoSplit, FeatureSeq)

-----------------------------------------------------------------------------
(* gpu/evaluate_splits.rs.  A feature's candidates are scored by the units *)
(* of a cube, each striding through them with a best of its own; one unit  *)
(* takes them all where a barrier is dear.  Ranks are what orders equals.  *)

Offsets == <<1, 2, 4, 8>>
Seed == [gain |-> Zero, rank |-> 0, bin |-> 0, backward |-> FALSE, left |-> NoStats]
Better(a, b) == Below(b.gain, a.gain) \/ (a.gain = b.gain /\ a.rank < b.rank)
BetterOf(best, c) == IF Better(c, best) THEN c ELSE best

(* scan_tile: Hillis and Steele's inclusive scan of one tile, to width.    *)
ScanTile(cells, width) ==
  FoldLeft(LAMBDA s, d : [i \in 1 .. width |-> IF i > d THEN Add(s[i], s[i - d]) ELSE s[i]],
           cells, SelectSeq(Offsets, LAMBDA d : d < width))

(* The inclusive sums of cells: tile by tile, a carry between them.        *)
PrefixSums(cells, width) ==
  LET tiles == (Len(cells) + width - 1) \div width
      Tile(k) == [i \in 1 .. width |-> LET at == (k - 1) * width + i
                                      IN IF at <= Len(cells) THEN cells[at] ELSE NoStats]
  IN FoldLeft(LAMBDA acc, k :
                LET scan == ScanTile(Tile(k), width)
                IN [carry |-> Add(acc.carry, scan[width]),
                    sums |-> acc.sums \o [i \in 1 .. width |-> Add(acc.carry, scan[i])]],
              [carry |-> NoStats, sums |-> <<>>], [k \in 1 .. tiles |-> k])

(* reduce_best: the units' bests halve until one is left.                  *)
ReduceBest(bests, width) ==
  FoldLeft(LAMBDA s, d : [u \in 1 .. width |->
                            IF u <= d /\ Better(s[u + d], s[u]) THEN s[u + d] ELSE s[u]],
           bests, SelectSeq(Reverse(Offsets), LAMBDA d : 2 * d <= width))[1]

(* The bests of width units that stride through lists of candidates.       *)
UnitBests(lists, width) ==
  [u \in 1 .. width |->
     FoldLeft(LAMBDA best, list :
                FoldLeft(LAMBDA b, i : IF (i - 1) % width = u - 1 /\ list[i].live
                                       THEN BetterOf(b, list[i].split) ELSE b,
                         best, [i \in 1 .. Len(list) |-> i]),
              Seed, lists)]

(* A mutated form: a bin without hessian is taken for empty.               *)
BinIsLive_HessianOnly(cell) == cell.hess # 0
BinIsLive(cell) == cell.grad # 0 \/ cell.hess # 0

(* split_gain: what is not allowed gains nothing.                          *)
DeviceGain(n, f, left) ==
  LET right == Subtract(n.stats, left)
  IN IF IsAllowed(n, f, left, right) THEN Minus(SplitGain(n, left, right), n.root_gain) ELSE Zero

(* The lists of evaluate_feature_kernel: upwards, then, when the carry is  *)
(* not the node's sum, downwards at ranks past them.                       *)
ForwardList(n, f, cells, prefix) ==
  [i \in 1 .. Len(cells) |->
     [live |-> BinIsLive(cells[i]),
      split |-> [gain |-> DeviceGain(n, f, prefix[i]), rank |-> i - 1, bin |-> CutPtr(f) + i - 1,
                 backward |-> FALSE, left |-> prefix[i]]]]
BackwardList(n, f, cells, suffix) ==
  [i \in 1 .. Len(cells) |->
     LET left == Subtract(n.stats, suffix[i])
     IN [live |-> BinIsLive(cells[i]),
         split |-> [gain |-> DeviceGain(n, f, left), rank |-> p.bins + i - 1,
                    bin |-> CutPtr(f) + p.bins - i, backward |-> TRUE, left |-> left]]]

(* What a pair writes out: the threshold before the bin for a backward     *)
(* split.                                                                  *)
WrittenOut(f, best) ==
  [gain |-> best.gain, rank |-> f, f |-> f, default_left |-> best.backward,
   value |-> IF best.backward THEN BackwardSplitPoint(f, best.bin) ELSE best.bin,
   left |-> best.left]

EvaluateFeature(n, f, width) ==
  LET bins == IF Query(n, f) /\ f \notin p.cat THEN FeatureBins(f) ELSE <<>>   \* the mask
      cells == Table([i \in 1 .. Len(bins) |-> n.hists[1][bins[i]]])
      forward == PrefixSums(cells, width)
      lists == <<Table(ForwardList(n, f, cells, forward.sums))>> \o
               (IF forward.carry = n.stats THEN <<>>
                ELSE <<Table(BackwardList(n, f, Reverse(cells),
                                          PrefixSums(Reverse(cells), width).sums))>>)
  IN WrittenOut(f, ReduceBest(UnitBests(lists, width), width))

(* consider_split_multi: from the prefixes alone, target by target.        *)
MultiScored(n, f, prefix, i, backward, rank) ==
  LET Before(t) == IF i = 1 THEN NoStats ELSE prefix[t][i - 1]
      lefts == [t \in Targets |->
                  IF backward THEN Subtract(n.sums[t], Subtract(prefix[t][p.bins], Before(t)))
                  ELSE prefix[t][i]]
      rights == [t \in Targets |-> Subtract(n.sums[t], lefts[t])]
      left == SumTargets(lefts)
  IN [live |-> IsValidSplit(left, SumTargets(rights), p.targets),
      split |-> [gain |-> Minus(Plus(MultiGain(n, lefts), MultiGain(n, rights)), n.root_gain),
                 rank |-> rank, bin |-> CutPtr(f) + i - 1, backward |-> backward, left |-> left]]

(* prefix_scan_kernel.                                                     *)
PrefixScan(n, f, width) ==
  Table([t \in Targets |->
           PrefixSums([i \in 1 .. p.bins |-> n.hists[t][FeatureBins(f)[i]]], width).sums])

EvaluateFeatureMulti(n, f, width) ==
  LET prefix == PrefixScan(n, f, width)
      forward == Table([i \in 1 .. p.bins |-> MultiScored(n, f, prefix, i, FALSE, i - 1)])
      backward == Table([i \in 1 .. p.bins |->
                           MultiScored(n, f, prefix, p.bins + 1 - i, TRUE, p.bins + i - 1)])
      total == SumTargets([t \in Targets |-> prefix[t][p.bins]])
      lists == IF ~Query(n, f) THEN <<>>
               ELSE IF total = n.stats THEN <<forward>> ELSE <<forward, backward>>
  IN WrittenOut(f, ReduceBest(UnitBests(lists, width), width))

(* multi_child_sums_kernel.                                                *)
DeviceChildSums(n, e, width) ==
  LET prefix == PrefixScan(n, e.f, width)
      cond == FindSplitCondition(e.f, e.value)
      below == cond < CutPtr(e.f)
      Upto(t) == IF below THEN NoStats ELSE prefix[t][cond - CutPtr(e.f) + 1]
      All(t) == prefix[t][p.bins]
      lefts == [t \in Targets |->
                  IF e.default_left THEN Subtract(n.sums[t], Subtract(All(t), Upto(t)))
                  ELSE IF below THEN All(t) ELSE Upto(t)]
  IN [left |-> lefts, right |-> [t \in Targets |-> Subtract(n.sums[t], lefts[t])]]

(* reduce_candidates_kernel: the features of a node, by the same rules.    *)
ReduceCandidates(cands, width) ==
  LET none == [gain |-> Zero, rank |-> 0, f |-> 0, default_left |-> FALSE, value |-> 0,
               left |-> NoStats]
      units == [u \in 1 .. width |->
                  FoldLeft(LAMBDA b, i : IF (i - 1) % width = u - 1 THEN BetterOf(b, cands[i]) ELSE b,
                           none, [i \in 1 .. Len(cands) |-> i])]
  IN ReduceBest(units, width)

(* gpu/categorical.rs: a feature's best, which only a larger gain takes.   *)
DeviceCategories(n, f) ==
  FoldLeft(LAMBDA best, c : IF IsAllowed(n, f, c.left, c.right) /\ Below(best.chg, c.chg)
                            THEN c ELSE best,
           [NoSplit EXCEPT !.f = f, !.is_cat = TRUE], CategoryCandidates(n, f, n.hists[1]))
Replaces(chg, f, best) == IF best.f <= f THEN Below(best.chg, chg) ELSE ~Below(chg, best.chg)

(* GpuHistGrower::evaluate: the device's winner of the other features,     *)
(* then the host's categorical ones.                                       *)
DeviceWinner(n, width) ==
  ReduceCandidates([i \in 1 .. p.features |->
                      IF IsMulti THEN EvaluateFeatureMulti(n, i - 1, width)
                      ELSE EvaluateFeature(n, i - 1, width)], width)
DeviceSplit(n, won) ==
  LET best == [chg |-> won.gain, f |-> won.f, value |-> won.value,
               default_left |-> won.default_left, left |-> won.left,
               right |-> Subtract(n.stats, won.left), is_cat |-> FALSE, bits |-> {}]
  IN FoldLeft(LAMBDA b, f : IF f \in p.cat /\ Query(n, f)
                            THEN LET c == DeviceCategories(n, f)
                                 IN IF Replaces(c.chg, f, b) THEN c ELSE b
                            ELSE b,
              best, FeatureSeq)

-----------------------------------------------------------------------------
(* tree/colmaker.rs: a column's rows in the order of their values, and the *)
(* scan of one node's.  A value is twice its bin, so that the midpoint of  *)
(* two is a number, and the gap past the last one unit.                    *)

Value(r, f) == 2 * BinOf(r, f)

(* A mutated form: the rows of a column as they were read.                 *)
ColumnOf_AsRead(f) == SetToSortSeq({r \in DOMAIN rows : BinOf(r, f) # 0}, LAMBDA a, b : a < b)

ColumnOf(f) == SetToSortSeq({r \in DOMAIN rows : BinOf(r, f) # 0},
                            LAMBDA a, b : Value(a, f) < Value(b, f)
                                          \/ (Value(a, f) = Value(b, f) /\ a < b))

ExactCandidate(n, f, at, backward, sum) ==
  LET other == Subtract(n.stats, sum)
  IN Candidate(n, f, at, backward, IF backward THEN other ELSE sum,
               IF backward THEN sum ELSE other, {})

(* enumerate, both the rows and the candidate after the last of them.      *)
Enumerate(n, f, column, backward, first) ==
  LET Weighs(s) == s.hess >= p.min_child_weight
      Proposes(e, v) == /\ e.sum.hess # 0 /\ v # e.last /\ Weighs(e.sum)
                        /\ Weighs(Subtract(n.stats, e.sum))
      scanned ==
        FoldLeft(LAMBDA e, r :
                   LET v == Value(r, f)
                   IN IF r \notin n.rows \/ ~Query(n, f) THEN e
                      ELSE [sum |-> Add(e.sum, GradientOf(r, 1)), last |-> v,
                            best |-> IF ~Proposes(e, v) THEN e.best
                                     ELSE Consider(n, e.best,
                                            ExactCandidate(n, f, (v + e.last) \div 2,
                                                           backward, e.sum))],
                 [sum |-> NoStats, last |-> 0, best |-> first], column)
      past == scanned.last + (IF backward THEN -1 ELSE 1)
  IN IF Weighs(scanned.sum) /\ Weighs(Subtract(n.stats, scanned.sum))
     THEN Consider(n, scanned.best, ExactCandidate(n, f, past, backward, scanned.sum))
     ELSE scanned.best

(* scan_feature, by default_direction "learn": upwards only in a column    *)
(* with a gap and with two values.                                         *)
ScanFeature(n, f) ==
  LET column == ColumnOf(f)
      indicator == column # <<>> /\ Value(column[1], f) = Value(column[Len(column)], f)
      forward == IF Len(column) < Len(rows) /\ ~indicator
                 THEN Enumerate(n, f, column, FALSE, NoSplit) ELSE NoSplit
  IN Enumerate(n, f, Reverse(column), TRUE, forward)

FindSplit(n) ==
  FoldLeft(LAMBDA best, f : UpdateEntry(best, ScanFeature(n, f)), NoSplit, FeatureSeq)

-----------------------------------------------------------------------------
(* The growing tree: what apply_split records. *)

NoBound == 1000           \* stands for f32::MAX
Leaf(S, sums, root_gain, lower, upper, weight, allowed, path) ==
  [rows |-> S, hists |-> [t \in Targets |-> Hist(S, t)], sums |-> sums,
   stats |-> SumTargets(sums), root_gain |-> root_gain, lower |-> lower, upper |-> upper,
   weight |-> weight, allowed |-> allowed, path |-> path, left |-> 0, right |-> 0, best |-> NoSplit]
Evaluated(n) == [n EXCEPT !.best = EvaluateSplits(n)]
NodeGain(n, sums) == IF IsMulti THEN MultiGain(n, sums) ELSE CalcGain(n, sums[1])

(* goes_left of a row: by category, or by bin.                             *)
GoesLeft(e, r) ==
  LET b == BinOf(r, e.f)
      bin == CutPtr(e.f) + b - 1
  IN IF b = 0 THEN e.default_left
     ELSE IF e.is_cat THEN bin \notin e.bits ELSE bin <= FindSplitCondition(e.f, e.value)

(* A mutated form: the children inherit their parent's box.                *)
AddSplit_Inherit(n, f, wl, wr) ==
  [left |-> <<n.lower, n.upper>>, right |-> <<n.lower, n.upper>>]

(* add_split: the boxes of the children, parted half way in between.       *)
AddSplit(n, f, wl, wr) ==
  LET mid == Frac(Plus(wl, wr)[1], 2 * Plus(wl, wr)[2])
      c == IF HasConstraint THEN p.monotone[f + 1] ELSE 0
  IN [left |-> <<IF c < 0 THEN mid ELSE n.lower, IF c > 0 THEN mid ELSE n.upper>>,
      right |-> <<IF c > 0 THEN mid ELSE n.lower, IF c < 0 THEN mid ELSE n.upper>>]

(* A mutated form: groups that hold the split's own feature.               *)
AllowedBelow_LastFeature(n, f) == n.path \cup {f} \cup UNION {g \in p.interaction : f \in g}

(* InteractionConstraints::split: groups that cover the whole path.        *)
AllowedBelow(n, f) ==
  LET path == n.path \cup {f}
  IN path \cup UNION {g \in p.interaction : path \subseteq g}

ApplySplit(nid) ==
  LET n == tree[nid]
      e == n.best
      sums == IF IsMulti THEN MultiChildSums(n, e)
              ELSE [left |-> <<e.left>>, right |-> <<e.right>>]
      wl == CalcWeight(n, e.left)
      wr == CalcWeight(n, e.right)
      boxes == AddSplit(n, e.f, wl, wr)
      Child(S, side, box, w) ==
        Leaf(S, side, NodeGain(n, side), box[1], box[2], w,
             AllowedBelow(n, e.f), n.path \cup {e.f})
      lefts == {r \in n.rows : GoesLeft(e, r)}
  IN /\ n.left = 0 /\ Found(e)
     /\ \E children \in {<<Child(lefts, sums.left, boxes.left, wl),
                            Child(n.rows \ lefts, sums.right, boxes.right, wr)>>} :
          tree' = [tree EXCEPT ![nid].left = Len(tree) + 1, ![nid].right = Len(tree) + 2]
                  \o Table([i \in 1 .. 2 |-> Evaluated(children[i])])
     /\ UNCHANGED <<p, rows>>

(* init_root.                                                              *)
InitRoot ==
  LET all == DOMAIN rows
      sums == [t \in Targets |-> SumOf(all, t)]
      box == Leaf(all, sums, Zero, <<-NoBound, 1>>, <<NoBound, 1>>, Zero, Features, {})
  IN /\ tree = <<>>
     /\ \E root \in {[box EXCEPT !.root_gain = NodeGain(box, sums),
                                 !.weight = CalcWeight(box, box.stats)]} :
          tree' = <<Evaluated(root)>>
     /\ UNCHANGED <<p, rows>>

Init ==
  /\ p \in Settings
  /\ rows \in {s \in [1 .. NumRows -> DOMAIN p.kinds] :
                 \A r \in 1 .. NumRows - 1 : s[r] <= s[r + 1]}
  /\ tree = <<>>

Next == InitRoot \/ \E nid \in DOMAIN tree : ApplySplit(nid)

Spec == Init /\ [][Next]_vars

-----------------------------------------------------------------------------
(* Properties.  A node is looked at when it is new. *)

Newest == {tree[nid] : nid \in {i \in DOMAIN tree : i + 1 >= Len(tree)}}

(* The sums of a split's two sides, of the rows themselves.                *)
SideSums(S) == SumTargets([t \in Targets |-> SumOf(S, t)])
ByTarget(S) == [t \in Targets |-> SumOf(S, t)]

(* Whether the rows without a value of a feature add to the sums over all  *)
(* targets.                                                                *)
MissingCount(n, f) == SideSums({r \in n.rows : BinOf(r, f) # 0}) # n.stats

(* The bins whose rows may go right: those after a cut, one category, or a *)
(* few that are first or all but the last few in the order of weights.     *)
RightBins(n, f, dl) ==
  LET bins == ToSet(FeatureBins(f))
      InOrder(right) == \A a \in right, b \in bins \ right : CategoryBefore(n.hists[1], a, b)
      most == LesserOf(p.max_cat_threshold, p.bins) - 1
  IN IF f \notin p.cat THEN {{b \in bins : b > c} : c \in bins \cup {-1}}
     ELSE IF UseOneHot THEN {{b} : b \in bins}
     ELSE {right \in SUBSET bins :
             InOrder(right) /\ Cardinality(IF dl THEN right ELSE bins \ right) \in 1 .. most}

(* The rows on the left, the missing ones among them or not.               *)
SideAt(n, f, right, dl) ==
  {r \in n.rows : IF BinOf(r, f) = 0 THEN dl ELSE CutPtr(f) + BinOf(r, f) - 1 \notin right}

(* Every way to part a node's rows that the parameters allow on a feature. *)
(* (Of a vector leaf the missing rows go left only if they count so: where *)
(* their targets cancel out, without a hessian, this is not looked for.)   *)
Partings(n, f) ==
  UNION {{SideAt(n, f, right, dl) : right \in RightBins(n, f, dl)} :
           dl \in {d \in BOOLEAN : d /\ IsMulti => MissingCount(n, f)}}

(* What a parting gains, at the node's own parent gain; it may not be      *)
(* allowed.                                                                *)
PartingAllowed(n, f, L) ==
  LET left == SideSums(L)
      right == SideSums(n.rows \ L)
  IN IsFinite(n, [f |-> f, left |-> left, right |-> right])
PartingGain(n, L) ==
  Plus(NodeGain(n, ByTarget(L)), NodeGain(n, ByTarget(n.rows \ L)))
GainBefore(n) == IF IsMulti THEN MultiGain(n, n.sums) ELSE n.root_gain
GainsOf(n) ==
  {Minus(PartingGain(n, L), GainBefore(n)) : L \in
     UNION {{S \in Partings(n, f) : PartingAllowed(n, f, S)} :
              f \in {g \in Features : Query(n, g)}}}

(* A node's sums are those of its rows, of every target, and so are the    *)
(* sums a split records: the rows that its test sends to each side, by bin *)
(* or category and with the missing ones on the side it says, add up to    *)
(* what its scan took from prefixes, differences and categories in order.  *)
SidesAddUp ==
  \A n \in Newest :
    LET L == {r \in n.rows : GoesLeft(n.best, r)}
    IN /\ n.sums = ByTarget(n.rows)
       /\ Found(n.best) => /\ n.best.left = SideSums(L)
                           /\ n.best.right = SideSums(n.rows \ L)

(* The split found for a node gains the most of all partings of its rows   *)
(* that the parameters and constraints allow, on any feature and with the  *)
(* missing rows on either side; where there is none, no parting gains.     *)
(* And its sums, like the node's, are those of the rows on each side.      *)
BestSplit ==
  /\ SidesAddUp
  /\ \A n \in Newest : \A gains \in {GainsOf(n)} :
       /\ \A g \in gains : AtMost(g, n.best.chg)
       /\ Found(n.best) => n.best.chg \in gains

(* The exact updater's scan of sorted columns finds a split as good as the *)
(* scan of bins holding one value each, where no monotone constraint bars  *)
(* one of its directions, and its threshold parts the rows into its sums.  *)
ExactAgrees ==
  (p.cat = {} /\ ~IsMulti /\ ~HasConstraint) =>
    \A n \in Newest : \A e \in {FindSplit(n)} :
      LET L == {r \in n.rows : IF BinOf(r, e.f) = 0 THEN e.default_left
                               ELSE Value(r, e.f) < e.value}
      IN /\ e.chg = n.best.chg
         /\ Found(e) => e.left = SideSums(L) /\ e.right = SideSums(n.rows \ L)

(* Widths a unit's cube may have; one is the serial shape.                 *)
Widths == {1, 2, 4}

(* However many units share a node's candidates, the device finds the      *)
(* host's split: its gain, feature, threshold, direction, categories and   *)
(* sums, and the per-target sums of its children.  In a box they take a    *)
(* vector leaf's own gain differently, see README.                         *)
DeviceAgrees ==
  LET OnHost(e) == IF e.is_cat THEN [e EXCEPT !.value = 0] ELSE e
  IN \A n \in Newest, width \in Widths :
       (IsMulti /\ HasConstraint => n.path = {}) =>
         \A won \in {DeviceWinner(n, width)} : \A d \in {DeviceSplit(n, won)} :
           /\ Found(n.best) => OnHost(d) = OnHost(n.best)
           /\ ~Found(n.best) => ~Found(d)
           /\ IsMulti /\ Found(n.best) => DeviceChildSums(n, d, width) = MultiChildSums(n, n.best)

(* The leaf a row reaches, by its bins.                                    *)
LeafOf(x) ==
  LET at[nid \in DOMAIN tree] ==
        IF tree[nid].left = 0 THEN nid
        ELSE LET e == tree[nid].best
                 bin == CutPtr(e.f) + x[e.f] - 1
                 goes == IF x[e.f] = 0 THEN e.default_left
                         ELSE IF e.is_cat THEN bin \notin e.bits
                         ELSE bin <= FindSplitCondition(e.f, e.value)
             IN at[IF goes THEN tree[nid].left ELSE tree[nid].right]
  IN at[1]

(* However deep the tree, more of an increasing number never lowers a      *)
(* prediction, and more of a decreasing one never raises it, whatever the  *)
(* other features are: what clipping every weight into a box is for.  (Of  *)
(* a category there is no more and no less.)                               *)
MonotonePredictions ==
  tree # <<>> /\ HasConstraint /\ ~IsMulti =>
    \A x \in [Features -> 0 .. p.bins] : \A f \in Features \ p.cat :
      (x[f] # 0 /\ x[f] < p.bins) =>
        RightOrder(f, tree[LeafOf(x)].weight,
                      tree[LeafOf([x EXCEPT ![f] = @ + 1])].weight)

(* The features split on along any path are one feature, or all in one of  *)
(* the interaction groups.                                                 *)
PathsWithinGroup ==
  p.interaction # {} =>
    \A nid \in DOMAIN tree :
      LET Above[m \in DOMAIN tree] ==
            UNION {Above[q] \cup {tree[q].best.f} :
                     q \in {i \in DOMAIN tree : i < m /\ m \in {tree[i].left, tree[i].right}}}
          path == Above[nid]
      IN Cardinality(path) <= 1 \/ \E g \in p.interaction : path \subseteq g

=============================================================================
