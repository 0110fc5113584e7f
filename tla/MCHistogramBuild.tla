--------------------------- MODULE MCHistogramBuild ---------------------------
(* Small fits, each following a table to the histograms of its trees.      *)
EXTENDS HistogramBuild

One == <<1, 1>>
Base ==
  [form |-> "csr", num_col |-> 1, data |-> <<>>, missing |-> Missing, weights |-> <<>>,
   cat |-> {}, feature_weights |-> FALSE,
   max_bin |-> 2, sparse_threshold |-> <<1, 5>>, threads |-> 1, lossguide |-> FALSE,
   device |-> FALSE, planes |-> FALSE, host_forced |-> FALSE, atomics |-> "none",
   force_global |-> FALSE,
   gpair |-> <<>>, subsample |-> One, method |-> "uniform", seeds |-> <<1>>,
   bytree |-> One, bylevel |-> One, bynode |-> One, split |-> <<>>]

(* Gradients of n rows for k targets, of both signs.                       *)
Gradients(n, k) == [t \in 1 .. k |-> [r \in 1 .. n |-> <<(((r * 5) + t) % 7) - 3, (r + t) % 3>>]]
With(fit0, rows, k) == [fit0 EXCEPT !.data = rows, !.gpair = Gradients(Len(rows), k)]
OnGpu(fit0, atomics0) ==
  [fit0 EXCEPT !.device = TRUE, !.planes = atomics0 # "none", !.atomics = atomics0]

(* Columns long enough for a queue to be flushed through the levels.       *)
Column(n, m) == [i \in 1 .. n |-> <<<<0, (i * 37) % m>>>>]
Weighted == [With(Base, Column(56, 56), 1) EXCEPT !.weights = [i \in 1 .. 56 |-> i % 3]]
Plain == With(Base, Column(36, 41), 1)
TwoTasks ==
  With([Base EXCEPT !.num_col = 2],
       [i \in 1 .. 18 |-> <<<<0, (i * 7) % 23>>, <<1, (i * 5) % 3>>>>], 1)

(* A full table, one with holes, and a row-sparse one.                     *)
Full ==
  With([Base EXCEPT !.form = "dense", !.num_col = 3, !.max_bin = 4],
       [i \in 1 .. 7 |-> <<(i * 7) % 23, (i * 5) % 3, i % 4>>], 1)
Holes ==
  With([Base EXCEPT !.form = "dense", !.num_col = 3, !.max_bin = 4, !.split = <<0, 1>>],
       [i \in 1 .. 11 |-> <<IF i % 3 = 0 THEN Missing ELSE (i * 7) % 23,
                            IF i % 6 = 0 THEN i % 4 ELSE Missing,
                            IF i = 9 THEN Missing ELSE (i % 4) - 2>>], 2)
Csr ==
  With([Base EXCEPT !.num_col = 2, !.max_bin = 3],
       [i \in 1 .. 9 |-> IF i % 4 = 0 THEN <<<<1, i % 3>>>> ELSE <<<<1, i % 5>>, <<0, i % 7>>>>], 1)
Small ==
  With([Base EXCEPT !.num_col = 2, !.max_bin = 2],
       [i \in 1 .. 4 |-> <<<<0, i>>, <<1, (i * 3) % 4>>>>], 1)
OneColumn == With([Base EXCEPT !.max_bin = 3], [i \in 1 .. 6 |-> <<<<0, i % 3>>>>], 1)
Libsvm == [With(Base, << <<<<0, 1>>, <<2, 3>>>>, <<<<1, 2>>>>, <<>> >>, 1) EXCEPT !.form = "libsvm"]

HostFits ==
  {Weighted, Plain, TwoTasks, Libsvm, Csr, [Holes EXCEPT !.cat = {1}],
   [Full EXCEPT !.lossguide = TRUE, !.threads = 2, !.cat = {2}, !.split = <<0, 1>>],
   [Full EXCEPT !.lossguide = TRUE, !.threads = 4],
   [Full EXCEPT !.weights = <<1>>], [Full EXCEPT !.cat = {0}]}

(* One column of three bins, read by two cubes without a shared histogram, *)
(* its sums carrying between the words.                                    *)
DeviceFits ==
  {OnGpu([OneColumn EXCEPT !.force_global = TRUE], "carry"),
   OnGpu([OneColumn EXCEPT !.force_global = TRUE], "native"),
   OnGpu([OneColumn EXCEPT !.force_global = TRUE], "none"),
   OnGpu(With(OneColumn, OneColumn.data, 3), "none"),
   OnGpu(Small, "carry"), OnGpu([Small EXCEPT !.split = <<0, 0>>], "native"),
   OnGpu([Full EXCEPT !.cat = {2}], "carry"), OnGpu(Full, "native"),
   OnGpu(Holes, "carry"), OnGpu(Holes, "none"), OnGpu(Csr, "native"),
   [OnGpu(Csr, "none") EXCEPT !.planes = TRUE],
   OnGpu([Holes EXCEPT !.cat = {1}], "native"),
   OnGpu([Small EXCEPT !.split = <<0, 0>>], "none"),
   OnGpu([Full EXCEPT !.split = <<1, 0>>], "none")}

(* Row samples: seeds that skip over chunks, and every choice of magnitude *)
(* for four rows.                                                          *)
Sampled4(pairs, method, ratio, seed) ==
  [With(Base, [i \in 1 .. 4 |-> <<<<0, i % 2>>>>], 1) EXCEPT
     !.gpair = <<pairs>>, !.method = method, !.subsample = ratio, !.seeds = <<seed, seed>>]
Pairs == {<<0, 1>>, <<-3, 4>>, <<12, 5>>, <<0, 2>>}
RowFits ==
  {Sampled4(Gradients(4, 1)[1], "uniform", <<1, 2>>, seed) : seed \in 1 .. 9}
  \cup {Sampled4(pairs, "gradient_based", <<k, 4>>, 3) :
          pairs \in {s \in [1 .. 4 -> Pairs] : s[1] = <<0, 1>>}, k \in 2 .. 3}
  \cup {Sampled4(Gradients(4, 1)[1], "gradient_based", <<1, 5>>, 3),
        [Sampled4(<<>>, "uniform", <<1, 2>>, 5) EXCEPT
           !.gpair = <<<<<<1, 1>>, <<2, 1>>, <<-1, 1>>, <<4, 0>>>>,
                       <<<<3, 1>>, <<-2, 1>>, <<1, 0>>, <<4, 1>>>>>>]}

(* Column samples over two trees.                                          *)
FourColumns ==
  With([Base EXCEPT !.form = "dense", !.num_col = 4, !.seeds = <<1, 1>>],
       << <<0, 1, 0, 1>>, <<1, 0, 1, 0>> >>, 1)
ColumnFits ==
  {[FourColumns EXCEPT !.bytree = <<3, 4>>, !.bylevel = <<1, 2>>],
   [FourColumns EXCEPT !.bytree = <<1, 2>>, !.bynode = <<1, 2>>],
   [FourColumns EXCEPT !.bytree = <<3, 4>>, !.bylevel = <<3, 4>>, !.bynode = <<1, 2>>,
                       !.feature_weights = TRUE]}

MCFits == HostFits \cup DeviceFits \cup RowFits \cup ColumnFits
=============================================================================
