--------------------------- MODULE MCLinearBooster ---------------------------
(* Instances of LinearBooster for TLC. *)
EXTENDS LinearBooster

(* Three rows and two features; the third row is excluded by its weight,   *)
(* entries are missing, and two rows make a page.                          *)
Data ==
  [x |-> <<<<1, 2>>, <<-1, 0>>, <<1, 1>>>>, hess |-> <<1, 2, -1>>, groups |-> 1, batch |-> 2,
   updater |-> "coord_descent", selector |-> "cyclic", top_k |-> 0, alpha |-> 0, lambda |-> 0,
   slowness |-> 1, tolerance |-> 0, cuda |-> FALSE]
Wide == [Data EXCEPT !.x = <<<<1, 2, 1>>, <<-1, 0, 2>>>>, !.hess = <<1, 2>>]

MCProblems ==
  { [Data EXCEPT !.tolerance = 1, !.cuda = c] : c \in BOOLEAN } \cup
  { [Data EXCEPT !.updater = "shotgun", !.batch = b, !.selector = s, !.tolerance = 1] :
      b \in {2, 3}, s \in {"cyclic", "shuffle"} } \cup
  { [Data EXCEPT !.selector = "random", !.slowness = 2],
    [Data EXCEPT !.groups = 2, !.cuda = TRUE, !.selector = "shuffle"] } \cup
  { [Wide EXCEPT !.selector = s, !.cuda = c, !.top_k = t, !.alpha = a, !.lambda = 1 - a] :
      s \in {"greedy", "thrifty"}, c \in BOOLEAN, t \in {0, 1}, a \in {0, 1} }
MCLabels == {-3, 1, 6}
=============================================================================
