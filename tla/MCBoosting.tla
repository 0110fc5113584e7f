---------------------------- MODULE MCBoosting -------------------------------
(* Instances of Boosting: the fits and the ensembles they continue from.    *)
EXTENDS Boosting

Fit(groups, parallel) ==
  [dart |-> FALSE, update |-> FALSE, groups |-> groups, parallel |-> parallel,
   multi |-> FALSE, plain |-> FALSE, modifiers |-> FALSE, eval_train |-> TRUE,
   rmse |-> FALSE, stop |-> 0, rounds |-> 3, approx |-> FALSE, constant |-> FALSE]

NewFits ==
  \* forests over several groups; trees that a modifying stage may change
  {Fit(2, 2), [Fit(2, 1) EXCEPT !.modifiers = TRUE]}
  \* rounds on the device, scored there, on the host or not at all
  \cup {[Fit(1, 1) EXCEPT !.plain = TRUE, !.rmse = r, !.eval_train = e] :
            r \in BOOLEAN, e \in BOOLEAN}
  \* one tree for all the outputs
  \cup {[Fit(2, 2) EXCEPT !.multi = TRUE]}
  \* early stopping
  \cup {[Fit(1, 1) EXCEPT !.stop = s, !.rounds = s + 3] : s \in 1 .. 2}
  \* bins sketched in every round, or once
  \cup {[Fit(2, 2) EXCEPT !.approx = TRUE, !.constant = c] : c \in BOOLEAN}
  \* dropout
  \cup {[Fit(1, 1) EXCEPT !.dart = TRUE, !.modifiers = TRUE]}

DartForests == {[Fit(g, 3 - g) EXCEPT !.dart = TRUE] : g \in 1 .. 2}

Updates == {[Fit(g, p) EXCEPT !.update = TRUE, !.modifiers = TRUE] : g \in 1 .. 2, p \in 1 .. 2}
           \cup {[Fit(1, 1) EXCEPT !.update = TRUE, !.modifiers = TRUE, !.dart = TRUE]}

Base(rounds, groups, parallel) ==
  LET n == rounds * groups * parallel
  IN [trees |-> [i \in 1 .. n |-> [id |-> i, round |-> (i - 1) \div (groups * parallel) + 1,
                                   form |-> "grown", vector |-> FALSE]],
      tree_info |-> [i \in 1 .. n |-> ((i - 1) % (groups * parallel)) \div parallel],
      parallel |-> parallel, rounds |-> rounds]

Pairs(configs, rounds) ==
  {[cfg |-> c, base |-> Base(r, c.groups, c.parallel)] : c \in configs, r \in rounds}

MCFits == Pairs(NewFits, {0, 1}) \cup Pairs(DartForests, {0}) \cup Pairs(Updates, 1 .. 2)
\* A vector-leaf fit, the same with dropout, and an ordinary fit.
MultiFits == Pairs({[Fit(2, 1) EXCEPT !.multi = TRUE, !.rounds = 2]}, {0})
MultiDartFits == Pairs({[Fit(2, 1) EXCEPT !.multi = TRUE, !.dart = TRUE, !.rounds = 2]}, {0})
PlainFits == Pairs({[Fit(1, 1) EXCEPT !.rounds = 2]}, {0})

MCScores == {NaN, 1, 2}
=============================================================================
