---------------------------- MODULE LinearBooster ----------------------------
(***************************************************************************)
(* The linear booster of src/linear/: rounds of coordinate descent over    *)
(* one weight per feature and output group and one intercept per group.    *)
(*                                                                         *)
(* A round works on a copy of the gradients and corrects it after every    *)
(* step; at its end the margins the learner keeps are advanced by what the *)
(* weights moved, never predicted again.  With a device the copy that is   *)
(* corrected is the device's and the host's is fetched only for the        *)
(* selectors that read it.                                                 *)
(*                                                                         *)
(* Numbers are integers.  A step, narrowed to f32 in the code, is rounded  *)
(* towards zero; the objective is squared error with a weight per row, a   *)
(* negative one for a row the objective excludes.                          *)
(***************************************************************************)
EXTENDS Integers, FiniteSets, Sequences, SequencesExt

CONSTANTS
  Problems,   \* data and settings, see LinearAssumption
  Labels,     \* what a row's label may be
  MaxRounds,  \* rounds of all fits together
  MaxFits,    \* a fit and those that continue it
  BLOCK       \* entries of a column summed together

ASSUME LinearAssumption ==
  /\ Labels \subseteq Int
  /\ MaxRounds \in Nat /\ MaxFits \in Nat \ {0} /\ BLOCK \in Nat \ {0}
  /\ Problems \subseteq
       [x : Seq(Seq(Int)),           \* row, feature -> value, 0 where there is none
        hess : Seq(Int),             \* row -> weight
        groups : Nat \ {0},
        batch : Nat \ {0},           \* max_row_perbatch
        updater : {"shotgun", "coord_descent"},
        selector : {"cyclic", "shuffle", "random", "greedy", "thrifty"},
        top_k : Nat, alpha : Nat, lambda : Nat,
        slowness : Nat \ {0},        \* 1 / eta
        tolerance : Nat,
        cuda : BOOLEAN]
  /\ \A q \in Problems :             \* LinearBoosterParameters::validate
       /\ q.updater = "shotgun" => q.selector \in {"cyclic", "shuffle"}
       \* a rectangle that has rows and columns, a weight per row
       /\ q.x # <<>> /\ Len(q.hess) = Len(q.x)
       /\ q.x[1] # <<>> /\ \A r \in DOMAIN q.x : Len(q.x[r]) = Len(q.x[1])

VARIABLES
  q,                     \* the problem
  y,                     \* row, group -> label
  preds,                 \* row, group -> margin the learner keeps
  weight,                \* feature, group -> weight, the last feature the intercept
  gpair,                 \* row, group -> gradient, the host's working copy
  resident,              \* the same on the device
  round_start_weight, previous_weight, is_converged,
  order, counter, ranked,   \* the selector's state
  num_boosted_rounds, fits,
  pc,                    \* what the round does next
  page, gid, i, fidx     \* loop variables

learner == <<q, y, preds, fits>>
model == <<weight, num_boosted_rounds>>
convergence == <<round_start_weight, previous_weight, is_converged>>
selector == <<order, counter, ranked>>
loop == <<page, gid, i, fidx>>
vars == <<learner, model, gpair, resident, convergence, selector, pc, loop>>

-----------------------------------------------------------------------------
(* Data. *)

Rows == 1 .. Len(q.x)
Features == 1 .. Len(q.x[1])
Groups == 1 .. q.groups
Bias == Len(q.x[1]) + 1
Base == 1              \* the intercept every margin starts from
Total(s) == FoldLeft(LAMBDA a, b : a + b, 0, s)
Abs(n) == IF n < 0 THEN -n ELSE n
Toward0(n, d) == IF n < 0 THEN -((-n) \div d) ELSE n \div d
GreaterOf(a, b) == IF a > b THEN a ELSE b
LesserOf(a, b) == IF a < b THEN a ELSE b

(* The members of a finite set in an order that is total on it.  (The       *)
(* library's sorting rests on an operator of TLC without a definition.)    *)
InOrder(S, Precedes(_, _)) ==
  CHOOSE s \in [1 .. Cardinality(S) -> S] :
    \A a, b \in DOMAIN s : a < b => Precedes(s[a], s[b])

(* CscPages::build: batches of rows, each column in row order.             *)
NumPages == (Len(q.x) + q.batch - 1) \div q.batch
PageRows(p) == {r \in Rows : (r - 1) \div q.batch = p - 1}
Column(p, f) == InOrder({r \in PageRows(p) : q.x[r][f] # 0}, LAMBDA a, b : a < b)

(* The page as the device holds it: its columns end to end, and where each  *)
(* one starts.                                                             *)
RawPage(p) ==
  [row_idx |-> FlattenSeq([f \in Features |-> Column(p, f)]),
   value |-> FlattenSeq([f \in Features |->
                           [n \in DOMAIN Column(p, f) |-> q.x[Column(p, f)[n]][f]]]),
   col_ptr |-> [f \in 1 .. Bias |-> Total([c \in 1 .. f - 1 |-> Len(Column(p, c))])]]

Device == q.cuda /\ q.updater = "coord_descent"
ReadsGradients == q.selector \in {"greedy", "thrifty"}

(* Where the round's gradients are.                                        *)
Residual == IF Device THEN resident ELSE gpair

-----------------------------------------------------------------------------
(* Sums and steps. *)

(* reduce_blocks: entries in blocks, the totals of the blocks in order.    *)
Blocks(rows) ==
  [b \in 1 .. (Len(rows) + BLOCK - 1) \div BLOCK |->
     SubSeq(rows, (b - 1) * BLOCK + 1, LesserOf(b * BLOCK, Len(rows)))]
Included(r, term) == IF q.hess[r] < 0 THEN 0 ELSE term
InBlocks(rows, term) ==
  LET BlockTotal(block) == Total([n \in DOMAIN block |-> Included(block[n], term[block[n]])])
  IN Total([b \in DOMAIN Blocks(rows) |-> BlockTotal(Blocks(rows)[b])])

(* Pairs of sums, summed.                                                  *)
Summed(of) == [grad |-> Total([n \in DOMAIN of |-> of[n].grad]),
               hess |-> Total([n \in DOMAIN of |-> of[n].hess])]

(* column_gradient.                                                        *)
ColumnGradient(g, p, f, k) ==
  [grad |-> InBlocks(Column(p, f), [r \in Rows |-> g[r][k] * q.x[r][f]]),
   hess |-> InBlocks(Column(p, f), [r \in Rows |-> q.hess[r] * q.x[r][f] * q.x[r][f]])]

BiasGradient(g, k) ==
  LET rows == [r \in Rows |-> r]
  IN [grad |-> InBlocks(rows, [r \in Rows |-> g[r][k]]), hess |-> InBlocks(rows, q.hess)]

(* column_sums_kernel: thread b's block of a column of length len.         *)
ThreadSums(g, raw, f, k, b) ==
  LET begin == raw.col_ptr[f]
      len == raw.col_ptr[f + 1] - begin
      mine == [n \in 1 .. LesserOf(BLOCK, len - b * BLOCK) |->
                 [row |-> raw.row_idx[begin + b * BLOCK + n],
                  value |-> raw.value[begin + b * BLOCK + n]]]
      OfMine(term) == Total([n \in DOMAIN mine |-> Included(mine[n].row, term[n])])
  IN [grad |-> OfMine([n \in DOMAIN mine |-> g[mine[n].row][k] * mine[n].value]),
      hess |-> OfMine([n \in DOMAIN mine |->
                         q.hess[mine[n].row] * mine[n].value * mine[n].value])]

(* GpuLinear::column_gradient: one thread per block, folded by the host.   *)
DeviceColumnGradient(g, p, f, k) ==
  LET raw == RawPage(p)
      len == raw.col_ptr[f + 1] - raw.col_ptr[f]
      of == [b \in 1 .. (len + BLOCK - 1) \div BLOCK |-> ThreadSums(g, raw, f, k, b - 1)]
  IN Summed(of)

(* GpuLinear::update_residual: one thread per entry of the column.         *)
DeviceResidual(g, p, f, k, dw) ==
  LET raw == RawPage(p)
      begin == raw.col_ptr[f]
      len == raw.col_ptr[f + 1] - begin
      of == [n \in 1 .. len |-> [row |-> raw.row_idx[begin + n], value |-> raw.value[begin + n]]]
  IN FoldLeft(LAMBDA acc, e : [acc EXCEPT ![e.row][k] =
                                 @ + Included(e.row, q.hess[e.row] * e.value * dw)], g, of)

SumOverPages(g, f, k) ==
  Summed([p \in 1 .. NumPages |-> ColumnGradient(g, p, f, k)])

(* sum_instance_weight, which scales the penalties.                        *)
SumInstanceWeight == Total([r \in Rows |-> Abs(q.hess[r])])

(* A mutated form: the step of an L1 penalty may pass zero.                *)
CoordinateDelta_NoClamp(s, w) ==
  LET alpha == q.alpha * SumInstanceWeight
      grad == s.grad + q.lambda * SumInstanceWeight * w
      hess == s.hess + q.lambda * SumInstanceWeight
  IN IF s.hess <= 0 THEN [num |-> 0, den |-> 1]
     ELSE IF w * hess - grad >= 0 THEN [num |-> -(grad + alpha), den |-> hess]
     ELSE [num |-> -(grad - alpha), den |-> hess]

(* coordinate_delta: the proximal Newton step, as a fraction.              *)
CoordinateDelta(s, w) ==
  LET alpha == q.alpha * SumInstanceWeight
      grad == s.grad + q.lambda * SumInstanceWeight * w
      hess == s.hess + q.lambda * SumInstanceWeight
  IN IF s.hess <= 0 THEN [num |-> 0, den |-> 1]
     ELSE IF w * hess - grad >= 0
          THEN [num |-> GreaterOf(-(grad + alpha), -w * hess), den |-> hess]
          ELSE [num |-> LesserOf(-(grad - alpha), -w * hess), den |-> hess]

(* coordinate_delta_bias: 0/0 is no movement.                              *)
CoordinateDeltaBias(s) == IF s.hess = 0 THEN [num |-> 0, den |-> 1]
                          ELSE [num |-> -s.grad, den |-> s.hess]

Narrow(step) == Toward0(step.num, step.den * q.slowness)
Larger(a, b) == Abs(a.num) * b.den > Abs(b.num) * a.den

(* A mutated form: the value of the entry is left out.                     *)
UpdateResidual_NoValue(g, p, f, k, dw) ==
  [r \in Rows |-> IF r \in ToSet(Column(p, f)) /\ q.hess[r] >= 0
                  THEN [g[r] EXCEPT ![k] = @ + q.hess[r] * dw] ELSE g[r]]

(* update_residual: the first-order correction of one page's column.       *)
UpdateResidual(g, p, f, k, dw) ==
  [r \in Rows |-> IF r \in ToSet(Column(p, f)) /\ q.hess[r] >= 0
                  THEN [g[r] EXCEPT ![k] = @ + q.hess[r] * q.x[r][f] * dw] ELSE g[r]]

UpdateBiasResidual(g, k, db) ==
  [r \in Rows |-> IF q.hess[r] >= 0 THEN [g[r] EXCEPT ![k] = @ + q.hess[r] * db] ELSE g[r]]

(* predict_margin, and the contributions whose sum it is.                  *)
PredictMargin(r, k) ==
  Base + weight[Bias][k] + Total([f \in Features |-> q.x[r][f] * weight[f][k]])
PredictContribution(r, k) ==
  [f \in 1 .. Bias |-> IF f = Bias THEN weight[Bias][k] + Base ELSE q.x[r][f] * weight[f][k]]

-----------------------------------------------------------------------------
(* A fit. *)

Init ==
  /\ q \in Problems
  /\ y \in [Rows -> [Groups -> Labels]]
  /\ preds = [r \in Rows |-> [k \in Groups |-> Base]]
  /\ weight = [f \in 1 .. Bias |-> [k \in Groups |-> 0]]
  /\ gpair = <<>> /\ resident = <<>>
  /\ round_start_weight = <<>> /\ previous_weight = <<>> /\ is_converged = FALSE
  /\ order = <<>> /\ counter = <<>> /\ ranked = <<>>
  /\ num_boosted_rounds = 0 /\ fits = 1
  /\ pc = "gradient"
  /\ page = 1 /\ gid = 1 /\ i = 0 /\ fidx = 0

(* Learner::continue_from: the model is taken over, nothing else is, and   *)
(* the margins are predicted.                                              *)
ContinueFrom ==
  /\ pc = "gradient" /\ num_boosted_rounds > 0 /\ fits < MaxFits
  /\ fits' = fits + 1
  /\ preds' = [r \in Rows |-> [k \in Groups |-> PredictMargin(r, k)]]
  /\ gpair' = <<>> /\ resident' = <<>>
  /\ round_start_weight' = <<>> /\ previous_weight' = <<>> /\ is_converged' = FALSE
  /\ order' = <<>> /\ counter' = <<>> /\ ranked' = <<>>
  /\ UNCHANGED <<q, y, model, pc, loop>>

Moved(a, b) == {Abs(a[f][k] - b[f][k]) : f \in 1 .. Bias, k \in Groups}

(* check_convergence.                                                      *)
CheckConvergence ==
  IF q.tolerance = 0 \/ is_converged THEN UNCHANGED <<previous_weight, is_converged>>
  ELSE /\ previous_weight' = weight
       /\ is_converged' = (previous_weight # <<>> /\
                             \A d \in Moved(weight, previous_weight) : d <= q.tolerance)

(* The learner takes gradients at its margins and do_boost begins; the      *)
(* device is given a copy of them.                                         *)
StartRound ==
  /\ pc = "gradient" /\ num_boosted_rounds < MaxRounds
  /\ LET taken == [r \in Rows |-> [k \in Groups |-> q.hess[r] * (preds[r][k] - y[r][k])]]
     IN /\ round_start_weight' = weight
        /\ CheckConvergence
        /\ IF is_converged'
           THEN pc' = "apply" /\ UNCHANGED <<gpair, resident>>
           ELSE /\ pc' = "bias"
                /\ gpair' = taken
                /\ resident' = IF Device THEN taken ELSE resident
  /\ gid' = 1
  /\ UNCHANGED <<learner, model, selector, page, i, fidx>>

(* Which copy of the gradients a step corrects.                            *)
Correct(g) == IF Device THEN resident' = g /\ UNCHANGED gpair
              ELSE gpair' = g /\ UNCHANGED resident

(* update_bias: one intercept.                                             *)
UpdateBias ==
  /\ pc = "bias"
  /\ LET db == Narrow(CoordinateDeltaBias(BiasGradient(Residual, gid)))
     IN /\ weight' = [weight EXCEPT ![Bias][gid] = @ + db]
        /\ Correct(UpdateBiasResidual(Residual, gid, db))
  /\ IF gid < q.groups THEN gid' = gid + 1 /\ UNCHANGED pc ELSE gid' = 1 /\ pc' = "setup"
  /\ UNCHANGED <<learner, num_boosted_rounds, convergence, selector, page, i, fidx>>

(* A mutated form: the host's copy is fetched when the sweep starts only.  *)
Downloaded_AtSetup == IF Device /\ ReadsGradients /\ pc = "setup" THEN resident ELSE gpair

(* What a selector reads: the host's copy, fetched first when it matters.  *)
Downloaded == IF Device /\ ReadsGradients THEN resident ELSE gpair

(* The features of a group by the size of their step, ties in order.       *)
Ranking(g, k) ==
  LET step == [f \in Features |-> CoordinateDelta(SumOverPages(g, f, k), weight[f][k])]
  IN InOrder(Features, LAMBDA a, b : \/ Larger(step[a], step[b])
                                     \/ ~Larger(step[b], step[a]) /\ a < b)

(* Selector::setup.                                                        *)
Setup ==
  /\ pc = "setup"
  /\ pc' = "pick" /\ page' = 1 /\ gid' = 1 /\ i' = 0
  /\ gpair' = Downloaded
  /\ counter' = [k \in Groups |-> 0]
  /\ IF q.selector = "shuffle" THEN order' \in SetToSeqs(Features) ELSE UNCHANGED order
  /\ ranked' = IF q.selector = "thrifty" THEN [k \in Groups |-> Ranking(Downloaded, k)] ELSE ranked
  /\ UNCHANGED <<learner, model, resident, convergence, fidx>>

(* take_slot: a shortlist ends one short of all features.                  *)
SlotTaken(k) == counter[k] < Cardinality(Features) - 1 /\ (q.top_k > 0 => counter[k] < q.top_k)

(* The feature whose step is largest, the first one of equals.             *)
LargestStep(g, k) ==
  LET step == [f \in Features |-> CoordinateDelta(SumOverPages(g, f, k), weight[f][k])]
  IN FoldLeft(LAMBDA best, f : IF Larger(step[f], step[best]) THEN f ELSE best, 1,
              [f \in Features |-> f])

(* The group's sweep, or the page's, is over.                              *)
EndSweep ==
  /\ i' = 0
  /\ IF q.updater = "coord_descent" /\ gid < q.groups
     THEN gid' = gid + 1 /\ UNCHANGED <<page, pc>>
     ELSE IF q.updater = "shotgun" /\ page < NumPages
     THEN page' = page + 1 /\ UNCHANGED <<gid, pc>>
     ELSE pc' = "finish" /\ UNCHANGED <<page, gid>>

(* Selector::next_feature.                                                 *)
NextFeature ==
  /\ pc = "pick" /\ i < Cardinality(Features)
  /\ gpair' = Downloaded
  /\ IF ReadsGradients
     THEN /\ counter' = [counter EXCEPT ![gid] = @ + 1]
          /\ IF SlotTaken(gid)
             THEN /\ fidx' = IF q.selector = "greedy" THEN LargestStep(Downloaded, gid)
                             ELSE ranked[gid][counter[gid] + 1]
                  /\ pc' = "step" /\ UNCHANGED <<page, gid, i>>
             ELSE EndSweep /\ UNCHANGED fidx
     ELSE /\ fidx' \in (CASE q.selector = "cyclic" -> {i + 1}
                          [] q.selector = "shuffle" -> {order[i + 1]}
                          [] q.selector = "random" -> Features)
          /\ pc' = "step" /\ UNCHANGED <<counter, page, gid, i>>
  /\ UNCHANGED <<learner, model, resident, convergence, order, ranked>>

SweepDone ==
  /\ pc = "pick" /\ i = Cardinality(Features)
  /\ EndSweep
  /\ UNCHANGED <<learner, model, gpair, resident, convergence, selector, fidx>>

(* shotgun: the page's column, for every group.                            *)
ShotgunStep ==
  /\ pc = "step" /\ q.updater = "shotgun"
  /\ LET dw == [k \in Groups |-> Narrow(CoordinateDelta(ColumnGradient(gpair, page, fidx, k),
                                                        weight[fidx][k]))]
     IN /\ weight' = [weight EXCEPT ![fidx] = [k \in Groups |-> @[k] + dw[k]]]
        /\ gpair' = FoldLeft(LAMBDA g, k : UpdateResidual(g, page, fidx, k, dw[k]), gpair,
                             [k \in Groups |-> k])
  /\ pc' = "pick" /\ i' = i + 1
  /\ UNCHANGED <<learner, num_boosted_rounds, resident, convergence, selector, page, gid, fidx>>

OnAllPages(Correction(_, _), g) == FoldLeft(Correction, g, [p \in 1 .. NumPages |-> p])

(* coord_descent: the column of all pages, for the group.                  *)
CoordStep ==
  /\ pc = "step" /\ q.updater = "coord_descent" /\ ~Device
  /\ LET dw == Narrow(CoordinateDelta(SumOverPages(gpair, fidx, gid), weight[fidx][gid]))
     IN /\ weight' = [weight EXCEPT ![fidx][gid] = @ + dw]
        /\ gpair' = OnAllPages(LAMBDA g, p : UpdateResidual(g, p, fidx, gid, dw), gpair)
  /\ pc' = "pick" /\ i' = i + 1
  /\ UNCHANGED <<learner, num_boosted_rounds, resident, convergence, selector, page, gid, fidx>>

(* coord_descent_gpu: the same on the device's copy.                       *)
DeviceStep ==
  /\ pc = "step" /\ Device
  /\ LET of == [p \in 1 .. NumPages |-> DeviceColumnGradient(resident, p, fidx, gid)]
         dw == Narrow(CoordinateDelta(Summed(of), weight[fidx][gid]))
     IN /\ weight' = [weight EXCEPT ![fidx][gid] = @ + dw]
        /\ resident' = OnAllPages(LAMBDA g, p : DeviceResidual(g, p, fidx, gid, dw), resident)
  /\ pc' = "pick" /\ i' = i + 1
  /\ UNCHANGED <<learner, num_boosted_rounds, gpair, convergence, selector, page, gid, fidx>>

Finish ==
  /\ pc = "finish"
  /\ pc' = "apply"
  /\ gpair' = Residual
  /\ UNCHANGED <<learner, model, resident, convergence, selector, loop>>

(* A mutated form: an intercept's change is forgotten.                     *)
Advanced_NoBias(r, k) ==
  preds[r][k] + Total([f \in Features |-> q.x[r][f] * (weight[f][k] - round_start_weight[f][k])])

Advanced(r, k) ==
  preds[r][k] + (weight[Bias][k] - round_start_weight[Bias][k])
    + Total([f \in Features |-> q.x[r][f] * (weight[f][k] - round_start_weight[f][k])])

(* apply_delta: the margins move by what the weights moved.                *)
ApplyDelta ==
  /\ pc = "apply"
  /\ pc' = "gradient"
  /\ num_boosted_rounds' = num_boosted_rounds + 1
  /\ preds' = [r \in Rows |-> [k \in Groups |-> Advanced(r, k)]]
  /\ UNCHANGED <<q, y, fits, weight, gpair, resident, convergence, selector, loop>>

Done == pc = "gradient" /\ num_boosted_rounds = MaxRounds /\ UNCHANGED vars

Next == \/ ContinueFrom \/ StartRound \/ UpdateBias \/ Setup \/ NextFeature \/ SweepDone
        \/ ShotgunStep \/ CoordStep
        \/ DeviceStep \/ Finish \/ ApplyDelta \/ Done

Spec == Init /\ [][Next]_vars

-----------------------------------------------------------------------------
(* Properties. *)

(* Between rounds the margins the learner keeps are the model's prediction, *)
(* and a row's contributions sum to it.                                    *)
MarginIsPrediction ==
  pc = "gradient" =>
    \A r \in Rows, k \in Groups :
      /\ preds[r][k] = PredictMargin(r, k)
      /\ PredictMargin(r, k) = Total(PredictContribution(r, k))

(* Every step of a sweep reads gradients taken at the weights of that       *)
(* moment, on whichever side they are kept.  The shotgun updater corrects  *)
(* a page at a time, so with several pages its gradients are behind.       *)
ResidualsCurrent ==
  pc \in {"bias", "setup", "pick", "step", "finish"} /\ (q.updater = "shotgun" => NumPages = 1) =>
    \A r \in Rows, k \in Groups :
      q.hess[r] >= 0 => Residual[r][k] = q.hess[r] * (PredictMargin(r, k) - y[r][k])

(* A greedy pick has the largest step that the weights and gradients of     *)
(* the moment allow, wherever the gradients are kept.                      *)
GreedyPicksLargest ==
  pc = "step" /\ q.selector = "greedy" =>
    LET step == [f \in Features |-> CoordinateDelta(SumOverPages(Residual, f, gid), weight[f][gid])]
    IN \A f \in Features : ~Larger(step[f], step[fidx])

(* The step of coordinate_delta lands on the minimum of the penalised       *)
(* quadratic of its coordinate, kink at zero included.                     *)
StepMinimises ==
  pc = "step" =>
    \A k \in Groups :
      LET s == SumOverPages(Residual, fidx, k)
          w == weight[fidx][k]
          d == CoordinateDelta(s, w)
          alpha == q.alpha * SumInstanceWeight
          slope == s.grad + q.lambda * SumInstanceWeight * w + d.num
          z == w * d.den + d.num
      IN s.hess > 0 => /\ z > 0 => slope = -alpha
                       /\ z < 0 => slope = alpha
                       /\ Abs(slope) <= alpha

=============================================================================
