---------------------------- MODULE LinearProofs -----------------------------
(***************************************************************************)
(* What LinearBooster keeps true for every table, label, number of groups, *)
(* page size, penalty, selector and updater, on the host and the device:   *)
(* its gradients are those of the weights of the moment, its margins those *)
(* of the weights of the last round, a greedy pick has the largest step    *)
(* and every step minimises its coordinate.                                *)
(*                                                                         *)
(* The gradients are current because a step changes the gradient of a row  *)
(* by its hessian times what its margin moves, and the margins because     *)
(* the weights a round started from still predict them: so the invariant   *)
(* relates both to MarginAt, the margin at given weights.                  *)
(*                                                                         *)
(* First what the operators compute, for data of every shape: a fold over  *)
(* a sequence is a run of its steps; a page holds its rows' entries once   *)
(* and lays its columns end to end; a thread of the device sums the block  *)
(* the host would, so that both sums are the same; a correction reaches    *)
(* every row it is due to once, page after page, entry after entry or      *)
(* group after group; and the loop over the steps ends at the largest.     *)
(***************************************************************************)
EXTENDS LinearBooster, CommonLemmas

-----------------------------------------------------------------------------
(* Totals.                                                                 *)

(* A total is the last of its partial sums.                                *)
LEMMA TotalRun ==
  ASSUME NEW n \in Nat, NEW s \in [1 .. n -> Int]
  PROVE  \E R \in [0 .. n -> Int] :
           /\ R[0] = 0 /\ R[n] = Total(s)
           /\ \A k \in 1 .. n : R[k] = R[k - 1] + s[k]
<1> DEFINE step == [e \in (1 .. n) \X Int |-> e[2] + s[e[1]]]
           E(f) == [S \in SUBSET (1 .. n) |->
                      IF S = {} THEN 0 ELSE f[S \ {Max(S)}] + s[Max(S)]]
           h == CHOOSE f : f = E(f)
<1>1. /\ step \in [(1 .. n) \X Int -> Int]
      /\ \A k \in 1 .. n, d \in Int : step[<<k, d>>] = d + s[k]
  OBVIOUS
<1> HIDE DEF step
<1>2. PICK g \in [SUBSET (1 .. n) -> Int] : FoldOn(n, 0, step, g)
  <2>1. 0 \in Int
    OBVIOUS
  <2> HIDE DEF E, h
  <2> QED BY <1>1, <2>1, FoldExists, Zenon
<1>3. g = E(g)
  BY MaxIn, <1>1, <1>2 DEF FoldOn
<1>4. h = E(h)
  BY <1>3
<1>5. Total(s) = h[1 .. n]
  <2>1. DOMAIN s = 1 .. n
    OBVIOUS
  <2> QED BY <2>1 DEF Total, FoldLeft, MapThenFoldSet
<1> HIDE DEF h
<1>6. Folds(n, Int, 0, step, h)
  <2>1. h[{}] = 0
    BY <1>4
  <2>2. ASSUME NEW S \in SUBSET (1 .. n), S # {}, h[S \ {Max(S)}] \in Int
        PROVE  h[S] = step[<<Max(S), h[S \ {Max(S)}]>>]
    <3>1. h[S] = h[S \ {Max(S)}] + s[Max(S)]
      BY <1>4, <2>2
    <3> QED BY MaxIn, <1>1, <2>2, <3>1
  <2> QED BY <2>1, <2>2 DEF Folds
<1>7. Result(n, Int, 0, step, h[1 .. n])
  <2>1. 0 \in Int
    OBVIOUS
  <2> QED BY <1>1, <1>6, <2>1, RunOf
<1>8. PICK R \in [0 .. n -> Int] :
        /\ R[0] = 0 /\ R[n] = h[1 .. n]
        /\ \A k \in 1 .. n : R[k] = step[<<k, R[k - 1]>>]
  BY <1>7 DEF Result
<1>9. \A k \in 1 .. n : R[k] = R[k - 1] + s[k]
  <2> SUFFICES ASSUME NEW k \in 1 .. n PROVE R[k] = R[k - 1] + s[k]
    OBVIOUS
  <2>1. k - 1 \in 0 .. n
    OBVIOUS
  <2>2. R[k - 1] \in Int
    BY <2>1
  <2> QED BY <1>1, <1>8, <2>2
<1> QED BY <1>5, <1>8, <1>9

(* A total of integers is one.                                             *)
LEMMA TotalType ==
  ASSUME NEW n \in Nat, NEW s \in [1 .. n -> Int]
  PROVE  Total(s) \in Int
<1>1. PICK R \in [0 .. n -> Int] : R[n] = Total(s)
  BY TotalRun
<1> QED BY <1>1

(* The total of no numbers.                                                *)
LEMMA TotalEmpty ==
  ASSUME NEW s \in [1 .. 0 -> Int]
  PROVE  Total(s) = 0
<1>1. PICK R \in [0 .. 0 -> Int] : R[0] = 0 /\ R[0] = Total(s)
  BY TotalRun
<1> QED BY <1>1

(* A total grows by the last of its numbers.                               *)
LEMMA TotalLast ==
  ASSUME NEW n \in Nat, NEW s \in [1 .. n + 1 -> Int], NEW t \in [1 .. n -> Int],
         \A k \in 1 .. n : t[k] = s[k]
  PROVE  Total(s) = Total(t) + s[n + 1]
<1>1. PICK R \in [0 .. n + 1 -> Int] :
        /\ R[0] = 0 /\ R[n + 1] = Total(s)
        /\ \A k \in 1 .. n + 1 : R[k] = R[k - 1] + s[k]
  <2> DEFINE m == n + 1
  <2>1. m \in Nat /\ s \in [1 .. m -> Int]
    OBVIOUS
  <2> HIDE DEF m
  <2>2. \E R \in [0 .. m -> Int] :
          R[0] = 0 /\ R[m] = Total(s) /\ \A k \in 1 .. m : R[k] = R[k - 1] + s[k]
    BY <2>1, TotalRun
  <2> QED BY <2>2 DEF m
<1>2. PICK T \in [0 .. n -> Int] :
        T[0] = 0 /\ T[n] = Total(t) /\ \A k \in 1 .. n : T[k] = T[k - 1] + t[k]
  BY TotalRun
<1> DEFINE C == {k \in Nat : k <= n => R[k] = T[k]}
<1>3. 0 \in C
  BY <1>1, <1>2
<1>4. ASSUME NEW k \in Nat, k \in C PROVE k + 1 \in C
  <2> SUFFICES ASSUME k + 1 <= n PROVE R[k + 1] = T[k + 1]
    OBVIOUS
  <2>1. k + 1 \in 1 .. n /\ k + 1 \in 1 .. n + 1 /\ (k + 1) - 1 = k
    OBVIOUS
  <2>2. R[k + 1] = R[k] + s[k + 1]
    BY <1>1, <2>1
  <2>3. T[k + 1] = T[k] + t[k + 1]
    BY <1>2, <2>1
  <2> QED BY <1>4, <2>1, <2>2, <2>3
<1> HIDE DEF C
<1>5. n \in C
  BY <1>3, <1>4, NatSetInduction
<1>6. R[n] = T[n]
  BY <1>5 DEF C
<1>7. n + 1 \in 1 .. n + 1 /\ (n + 1) - 1 = n
  OBVIOUS
<1>8. R[n + 1] = R[n] + s[n + 1]
  BY <1>1, <1>7
<1> QED BY <1>1, <1>2, <1>6, <1>8

(* The total of the differences.                                           *)
LEMMA TotalDifference ==
  ASSUME NEW n \in Nat, NEW s \in [1 .. n -> Int], NEW t \in [1 .. n -> Int],
         NEW d \in [1 .. n -> Int], \A k \in 1 .. n : d[k] = t[k] - s[k]
  PROVE  Total(d) = Total(t) - Total(s)
<1>1. PICK R \in [0 .. n -> Int] :
        R[0] = 0 /\ R[n] = Total(s) /\ \A k \in 1 .. n : R[k] = R[k - 1] + s[k]
  BY TotalRun
<1>2. PICK T \in [0 .. n -> Int] :
        T[0] = 0 /\ T[n] = Total(t) /\ \A k \in 1 .. n : T[k] = T[k - 1] + t[k]
  BY TotalRun
<1>3. PICK U \in [0 .. n -> Int] :
        U[0] = 0 /\ U[n] = Total(d) /\ \A k \in 1 .. n : U[k] = U[k - 1] + d[k]
  BY TotalRun
<1> DEFINE C == {k \in Nat : k <= n => U[k] = T[k] - R[k]}
<1>4. 0 \in C
  BY <1>1, <1>2, <1>3
<1>5. ASSUME NEW k \in Nat, k \in C PROVE k + 1 \in C
  <2> SUFFICES ASSUME k + 1 <= n PROVE U[k + 1] = T[k + 1] - R[k + 1]
    OBVIOUS
  <2>1. k + 1 \in 1 .. n /\ k \in 0 .. n /\ (k + 1) - 1 = k
    OBVIOUS
  <2>2. /\ R[k + 1] = R[k] + s[k + 1] /\ T[k + 1] = T[k] + t[k + 1]
        /\ U[k + 1] = U[k] + d[k + 1]
    BY <1>1, <1>2, <1>3, <2>1
  <2>3. /\ R[k] \in Int /\ T[k] \in Int /\ s[k + 1] \in Int /\ t[k + 1] \in Int
        /\ d[k + 1] = t[k + 1] - s[k + 1]
    BY <2>1
  <2>4. U[k] = T[k] - R[k]
    BY <1>5
  <2> DEFINE a == R[k]
             b == T[k]
             v == s[k + 1]
             w == t[k + 1]
  <2>5. /\ R[k + 1] = a + v /\ T[k + 1] = b + w /\ U[k + 1] = (b - a) + (w - v)
        /\ a \in Int /\ b \in Int /\ v \in Int /\ w \in Int
    BY <2>2, <2>3, <2>4
  <2> HIDE DEF C, a, b, v, w
  <2> QED BY <2>5
<1> HIDE DEF C
<1>6. n \in C
  BY <1>4, <1>5, NatSetInduction
<1> QED BY <1>1, <1>2, <1>3, <1>6 DEF C

(* A total moves by what one of its numbers moves.                         *)
LEMMA TotalChange ==
  ASSUME NEW n \in Nat, NEW s \in [1 .. n -> Int], NEW t \in [1 .. n -> Int],
         NEW j \in 1 .. n, \A k \in 1 .. n : k # j => t[k] = s[k]
  PROVE  Total(t) = Total(s) + (t[j] - s[j])
<1>1. PICK R \in [0 .. n -> Int] :
        R[0] = 0 /\ R[n] = Total(s) /\ \A k \in 1 .. n : R[k] = R[k - 1] + s[k]
  BY TotalRun
<1>2. PICK T \in [0 .. n -> Int] :
        T[0] = 0 /\ T[n] = Total(t) /\ \A k \in 1 .. n : T[k] = T[k - 1] + t[k]
  BY TotalRun
<1> DEFINE C == {k \in Nat : k <= n => T[k] = R[k] + (IF k < j THEN 0 ELSE t[j] - s[j])}
<1>3. 0 \in C
  BY <1>1, <1>2
<1>4. ASSUME NEW k \in Nat, k \in C PROVE k + 1 \in C
  <2> SUFFICES ASSUME k + 1 <= n
               PROVE  T[k + 1] = R[k + 1] + (IF k + 1 < j THEN 0 ELSE t[j] - s[j])
    OBVIOUS
  <2>1. k + 1 \in 1 .. n /\ k \in 0 .. n /\ (k + 1) - 1 = k
    OBVIOUS
  <2>2. R[k + 1] = R[k] + s[k + 1] /\ T[k + 1] = T[k] + t[k + 1]
    BY <1>1, <1>2, <2>1
  <2>3. /\ R[k] \in Int /\ T[k] \in Int /\ s[k + 1] \in Int /\ t[k + 1] \in Int
        /\ s[j] \in Int /\ t[j] \in Int
    BY <2>1
  <2>4. T[k] = R[k] + (IF k < j THEN 0 ELSE t[j] - s[j])
    BY <1>4
  <2> DEFINE a == R[k]
             b == T[k]
             v == s[k + 1]
             w == t[k + 1]
             c == s[j]
             d == t[j]
  <2>5. /\ R[k + 1] = a + v /\ T[k + 1] = b + w /\ b = a + (IF k < j THEN 0 ELSE d - c)
        /\ a \in Int /\ b \in Int /\ v \in Int /\ w \in Int /\ c \in Int /\ d \in Int
    BY <2>2, <2>3, <2>4
  <2>6. k + 1 # j => w = v
    BY <2>1
  <2>7. k + 1 = j => w = d /\ v = c
    OBVIOUS
  <2>8. j \in Nat
    OBVIOUS
  <2>9. T[k + 1] = R[k + 1] + (IF k + 1 < j THEN 0 ELSE d - c)
    <3> HIDE DEF C, a, b, v, w, c, d
    <3>1. CASE k + 1 = j
      BY <2>5, <2>7, <2>8, <3>1
    <3>2. CASE k + 1 < j
      <4>1. k < j /\ w = v
        BY <2>6, <2>8, <3>2
      <4>2. b = a
        BY <2>5, <4>1
      <4> QED BY <2>5, <3>2, <4>1, <4>2
    <3>3. CASE j < k + 1
      <4>1. ~(k < j) /\ ~(k + 1 < j) /\ w = v
        BY <2>6, <2>8, <3>3
      <4>2. b = a + (d - c)
        BY <2>5, <4>1
      <4>3. R[k + 1] = a + v /\ T[k + 1] = (a + (d - c)) + v
        BY <2>5, <4>1, <4>2
      <4> QED BY <2>5, <4>1, <4>3
    <3> QED BY <2>8, <3>1, <3>2, <3>3
  <2> QED BY <2>9
<1> HIDE DEF C
<1>5. n \in C
  BY <1>3, <1>4, NatSetInduction
<1>6. T[n] = R[n] + (t[j] - s[j])
  <2>1. T[n] = R[n] + (IF n < j THEN 0 ELSE t[j] - s[j])
    BY <1>5 DEF C
  <2> QED BY <2>1
<1> QED BY <1>1, <1>2, <1>6

-----------------------------------------------------------------------------
(* Orders.                                                                 *)

(* R orders S totally and strictly.                                        *)
Orders(R, S) ==
  /\ \A a \in S : <<a, a>> \notin R
  /\ \A a, b \in S : a # b => <<a, b>> \in R \/ <<b, a>> \in R
  /\ \A a, b, c \in S : <<a, b>> \in R /\ <<b, c>> \in R => <<a, c>> \in R

(* s runs along R.                                                         *)
Along(R, n, s) == \A a, b \in 1 .. n : a < b => <<s[a], s[b]>> \in R

(* A finite set that is not empty has a first member.                      *)
LEMMA FirstOf ==
  ASSUME NEW R, NEW S, IsFiniteSet(S), Orders(R, S), S # {}
  PROVE  \E m \in S : \A e \in S : e # m => <<m, e>> \in R
<1> DEFINE First(T) == \E m \in T : \A e \in T : e # m => <<m, e>> \in R
           C == {T \in SUBSET S : T # {} => First(T)}
<1>1. {} \in C
  OBVIOUS
<1>2. ASSUME NEW T \in SUBSET S, NEW x \in S, T \in C, x \notin T PROVE T \cup {x} \in C
  <2>1. CASE T = {}
    BY <2>1
  <2>2. CASE T # {}
    <3>1. PICK m \in T : \A e \in T : e # m => <<m, e>> \in R
      BY <1>2, <2>2
    <3>2. x # m /\ m \in S
      BY <1>2
    <3>3. CASE <<m, x>> \in R
      BY <3>1, <3>3
    <3>4. CASE <<x, m>> \in R
      <4>1. \A e \in T : e # m => <<x, e>> \in R
        BY <3>1, <3>2, <3>4 DEF Orders
      <4> QED BY <3>4, <4>1
    <3> QED BY <3>2, <3>3, <3>4 DEF Orders
  <2> QED BY <2>1, <2>2
<1> HIDE DEF C
<1>3. S \in C
  BY <1>1, <1>2, FiniteSetInduction
<1> QED BY <1>3 DEF C

(* A finite set can be counted along an order.                             *)
LEMMA OrderedExists ==
  ASSUME NEW R, NEW S, IsFiniteSet(S), Orders(R, S)
  PROVE  \E s \in [1 .. Cardinality(S) -> S] : Along(R, Cardinality(S), s)
<1> DEFINE Has(T, n) == \E s \in [1 .. n -> T] : Along(R, n, s)
           C == {n \in Nat : \A T \in SUBSET S : Cardinality(T) = n => Has(T, n)}
<1>1. \A T \in SUBSET S : IsFiniteSet(T) /\ Cardinality(T) \in Nat /\ Orders(R, T)
  <2>1. \A T \in SUBSET S : IsFiniteSet(T) /\ Cardinality(T) \in Nat
    BY FS_Subset, FS_CardinalityType
  <2> QED BY <2>1 DEF Orders
<1>2. 0 \in C
  <2> SUFFICES ASSUME NEW T \in SUBSET S PROVE Has(T, 0)
    OBVIOUS
  <2> DEFINE s == [a \in 1 .. 0 |-> a]
  <2>1. s \in [1 .. 0 -> T] /\ Along(R, 0, s)
    BY DEF Along
  <2> QED BY <2>1
<1>3. ASSUME NEW n \in Nat, n \in C PROVE n + 1 \in C
  <2> HIDE DEF Has
  <2> SUFFICES ASSUME NEW T \in SUBSET S, Cardinality(T) = n + 1 PROVE Has(T, n + 1)
    OBVIOUS
  <2>1. T # {}
    <3>1. Cardinality({}) = 0
      BY FS_EmptySet
    <3>2. Cardinality(T) # 0
      OBVIOUS
    <3> QED BY <3>1, <3>2, Zenon
  <2>2. PICK m \in T : \A e \in T : e # m => <<m, e>> \in R
    BY <1>1, <2>1, FirstOf
  <2> DEFINE U == T \ {m}
  <2>3. U \in SUBSET S /\ Cardinality(U) = n
    <3>1. Cardinality(T \ {m}) = Cardinality(T) - 1
      BY <1>1, FS_RemoveElement
    <3> QED BY <3>1
  <2>4. Has(U, n)
    BY <1>3, <2>3
  <2>5. PICK u \in [1 .. n -> U] : Along(R, n, u)
    BY <2>4 DEF Has
  <2> DEFINE s == [a \in 1 .. n + 1 |-> IF a = 1 THEN m ELSE u[a - 1]]
  <2>6. \A a \in 2 .. n + 1 : a - 1 \in 1 .. n /\ a \in 1 .. n + 1
    OBVIOUS
  <2>7. s[1] = m /\ \A a \in 2 .. n + 1 : s[a] = u[a - 1] /\ u[a - 1] \in U
    BY <2>6
  <2>8. s \in [1 .. n + 1 -> T]
    <3> SUFFICES ASSUME NEW a \in 1 .. n + 1 PROVE s[a] \in T
      OBVIOUS
    <3>1. a = 1 \/ a \in 2 .. n + 1
      OBVIOUS
    <3> QED BY <2>7, <3>1
  <2> HIDE DEF s
  <2>9. Along(R, n + 1, s)
    <3> SUFFICES ASSUME NEW a \in 1 .. n + 1, NEW b \in 1 .. n + 1, a < b
                 PROVE  <<s[a], s[b]>> \in R
      BY DEF Along
    <3>1. b \in 2 .. n + 1
      OBVIOUS
    <3>2. CASE a = 1
      BY <2>2, <2>7, <3>1, <3>2
    <3>3. CASE a # 1
      <4>1. a \in 2 .. n + 1
        BY <3>3
      <4>2. a - 1 \in 1 .. n /\ b - 1 \in 1 .. n /\ a - 1 < b - 1
        BY <2>6, <3>1, <4>1
      <4>3. <<u[a - 1], u[b - 1]>> \in R
        BY <2>5, <4>2 DEF Along
      <4> QED BY <2>7, <3>1, <4>1, <4>3
    <3> QED BY <3>2, <3>3
  <2> QED BY <2>8, <2>9 DEF Has
<1> HIDE DEF C, Has
<1>4. Cardinality(S) \in Nat
  BY FS_CardinalityType
<1>5. Cardinality(S) \in C
  BY <1>2, <1>3, <1>4, NatSetInduction
<1>6. Has(S, Cardinality(S))
  BY <1>5 DEF C
<1> QED BY <1>6 DEF Has

(* Such a counting meets every member.                                     *)
LEMMA OrderedAll ==
  ASSUME NEW R, NEW S, IsFiniteSet(S), Orders(R, S),
         NEW s \in [1 .. Cardinality(S) -> S], Along(R, Cardinality(S), s)
  PROVE  /\ \A a, b \in 1 .. Cardinality(S) : s[a] = s[b] => a = b
         /\ \A x \in S : \E a \in 1 .. Cardinality(S) : s[a] = x
<1> DEFINE n == Cardinality(S)
           A == {s[a] : a \in 1 .. n}
<1>1. n \in Nat
  BY FS_CardinalityType
<1>2. \A a, b \in 1 .. n : s[a] = s[b] => a = b
  <2> SUFFICES ASSUME NEW a \in 1 .. n, NEW b \in 1 .. n, s[a] = s[b], a # b PROVE FALSE
    OBVIOUS
  <2>1. a < b \/ b < a
    BY <1>1
  <2> QED BY <2>1 DEF Along, Orders
<1>3. s \in [1 .. n -> A] /\ \A x \in A : \E a \in 1 .. n : s[a] = x
  OBVIOUS
<1>4. A \in SUBSET S
  OBVIOUS
<1>5. Cardinality(A) = n
  <2> HIDE DEF A, n
  <2> QED BY <1>1, <1>2, <1>3, ImageSize
<1>6. A = S
  <2> HIDE DEF A
  <2> QED BY <1>4, <1>5, FS_Subset
<1> QED BY <1>2, <1>3, <1>6

-----------------------------------------------------------------------------
(* Data.                                                                   *)

(* Gradients: a number per row and group.                                  *)
Gradients == [Rows -> [Groups -> Int]]

(* What LinearAssumption says of a problem.                                *)
LEMMA Shape ==
  ASSUME q \in Problems
  PROVE  /\ Len(q.x) \in Nat \ {0} /\ Len(q.x[1]) \in Nat \ {0}
         /\ Rows = 1 .. Len(q.x) /\ Features = 1 .. Len(q.x[1])
         /\ Bias = Len(q.x[1]) + 1
         /\ \A r \in Rows : q.hess[r] \in Int /\ \A f \in Features : q.x[r][f] \in Int
         /\ q.groups \in Nat \ {0} /\ Groups = 1 .. q.groups
         /\ q.batch \in Nat \ {0} /\ q.slowness \in Nat \ {0}
         /\ q.top_k \in Nat /\ q.alpha \in Nat /\ q.lambda \in Nat
         /\ q.updater \in {"shotgun", "coord_descent"}
         /\ q.selector \in {"cyclic", "shuffle", "random", "greedy", "thrifty"}
         /\ q.updater = "shotgun" => q.selector \in {"cyclic", "shuffle"}
<1>1. /\ q.x \in Seq(Seq(Int)) /\ q.hess \in Seq(Int)
      /\ q.x # <<>> /\ Len(q.hess) = Len(q.x) /\ q.x[1] # <<>>
      /\ \A r \in DOMAIN q.x : Len(q.x[r]) = Len(q.x[1])
  BY LinearAssumption
<1>2. /\ q.groups \in Nat \ {0}
      /\ q.batch \in Nat \ {0} /\ q.slowness \in Nat \ {0}
      /\ q.top_k \in Nat /\ q.alpha \in Nat /\ q.lambda \in Nat
      /\ q.updater \in {"shotgun", "coord_descent"}
      /\ q.selector \in {"cyclic", "shuffle", "random", "greedy", "thrifty"}
      /\ q.updater = "shotgun" => q.selector \in {"cyclic", "shuffle"}
  BY LinearAssumption
<1>3. Len(q.x) \in Nat \ {0} /\ DOMAIN q.x = 1 .. Len(q.x)
  BY <1>1
<1>4. q.x[1] \in Seq(Int)
  BY <1>1, <1>3
<1>5. Len(q.x[1]) \in Nat \ {0}
  BY <1>1, <1>4
<1>6. \A r \in Rows : q.hess[r] \in Int
  BY <1>1, <1>3 DEF Rows
<1>7. ASSUME NEW r \in Rows, NEW f \in Features PROVE q.x[r][f] \in Int
  <2>0. r \in DOMAIN q.x
    BY <1>3 DEF Rows
  <2>1. q.x[r] \in Seq(Int) /\ Len(q.x[r]) = Len(q.x[1])
    BY <1>1, <2>0
  <2>2. f \in 1 .. Len(q.x[r])
    BY <2>1 DEF Features
  <2> QED BY <2>1, <2>2
<1> QED BY <1>2, <1>3, <1>5, <1>6, <1>7 DEF Rows, Features, Bias, Groups

(* There is a page, and every row is in one of them.                       *)
LEMMA Paged ==
  ASSUME q \in Problems
  PROVE  /\ NumPages \in Nat \ {0}
         /\ \A r \in Rows : ((r - 1) \div q.batch) + 1 \in 1 .. NumPages
<1> DEFINE b == q.batch
           L == Len(q.x)
           N == L + b - 1
           P == N \div b
<1>1. b \in Nat \ {0} /\ L \in Nat \ {0} /\ N \in Nat /\ Rows = 1 .. L
  BY Shape
<1>2. NumPages = P
  BY DEF NumPages
<1>3. P \in Nat /\ N < (P + 1) * b
  <2> HIDE DEF N, b
  <2> QED BY <1>1, DivBounds
<1>4. N = L + b - 1
  OBVIOUS
<1> HIDE DEF b, L, N, P
<1>5. ASSUME NEW r \in 1 .. L PROVE ((r - 1) \div b) + 1 \in 1 .. P
  <2> DEFINE k == (r - 1) \div b
  <2>0. r - 1 \in Nat /\ r - 1 < L
    BY <1>1
  <2>1. k \in Nat /\ k * b <= r - 1
    BY <1>1, <2>0, DivBounds
  <2> HIDE DEF k
  <2>2. ~(P < k + 1)
    <3> SUFFICES ASSUME P < k + 1 PROVE FALSE
      OBVIOUS
    <3>1. (P + 1) * b <= (k + 1) * b
      BY <1>1, <1>3, <2>1, Monotone
    <3>2. (k + 1) * b = k * b + b /\ k * b \in Int /\ (P + 1) * b \in Int
      BY <1>1, <1>3, <2>1
    <3> QED BY <1>1, <1>3, <1>4, <2>1, <3>1, <3>2
  <2>3. k + 1 \in 1 .. P
    BY <1>3, <2>1, <2>2
  <2> QED BY <2>3 DEF k
<1>6. P # 0
  BY <1>1, <1>3, <1>5
<1> QED BY <1>1, <1>2, <1>3, <1>5, <1>6 DEF b

(* A column holds the page's rows that have the feature, each once.        *)
LEMMA ColumnIs ==
  ASSUME q \in Problems, NEW p, NEW f
  PROVE  /\ Column(p, f) \in [1 .. Len(Column(p, f)) -> Rows] /\ Column(p, f) \in Seq(Rows)
         /\ Len(Column(p, f)) \in Nat
         /\ \A a, b \in DOMAIN Column(p, f) : Column(p, f)[a] = Column(p, f)[b] => a = b
         /\ ToSet(Column(p, f)) = {r \in PageRows(p) : q.x[r][f] # 0}
<1> DEFINE S == {r \in PageRows(p) : q.x[r][f] # 0}
           R == {e \in Rows \X Rows : e[1] < e[2]}
           n == Cardinality(S)
           c == Column(p, f)
<1>1. S \in SUBSET Rows /\ Rows \in SUBSET Nat
  BY Shape DEF PageRows
<1>2. IsFiniteSet(S) /\ n \in Nat
  <2>1. IsFiniteSet(Rows)
    <3>1. Rows = 1 .. Len(q.x) /\ Len(q.x) \in Int
      BY Shape
    <3> QED BY <3>1, FS_Interval
  <2> QED BY <1>1, <2>1, FS_Subset, FS_CardinalityType
<1>3. \A a, b \in S : <<a, b>> \in R <=> a < b
  BY <1>1
<1>4. Orders(R, S)
  <2> HIDE DEF R, S
  <2>1. S \in SUBSET Int
    BY <1>1
  <2> QED BY <1>3, <2>1 DEF Orders
<1>5. PICK s \in [1 .. n -> S] : Along(R, n, s)
  <2> HIDE DEF R, S
  <2> QED BY <1>2, <1>4, OrderedExists
<1>6. \A t \in [1 .. n -> S] : Along(R, n, t) <=> \A a, b \in DOMAIN t : a < b => t[a] < t[b]
  <2> HIDE DEF R, S
  <2> QED BY <1>3 DEF Along
<1>7. c = CHOOSE t \in [1 .. n -> S] : \A a, b \in DOMAIN t : a < b => t[a] < t[b]
  BY DEF Column, InOrder
<1>8. c \in [1 .. n -> S] /\ Along(R, n, c)
  <2> HIDE DEF R, S, c
  <2> QED BY <1>5, <1>6, <1>7
<1> HIDE DEF c
<1>9. /\ \A a, b \in 1 .. n : c[a] = c[b] => a = b
      /\ \A x \in S : \E a \in 1 .. n : c[a] = x
  <2> HIDE DEF R, S
  <2> QED BY <1>2, <1>4, <1>8, OrderedAll
<1>10. c \in [1 .. n -> Rows] /\ c \in Seq(Rows) /\ Len(c) = n /\ DOMAIN c = 1 .. n
  <2>1. c \in [1 .. n -> Rows]
    BY <1>1, <1>8
  <2> HIDE DEF S
  <2> QED BY <1>2, <2>1
<1>11. ToSet(c) = S
  <2> HIDE DEF S
  <2> QED BY <1>8, <1>9, <1>10 DEF ToSet
<1> QED BY <1>2, <1>9, <1>10, <1>11 DEF c

-----------------------------------------------------------------------------
(* Sums.                                                                   *)

(* Block b of a sequence.                                                  *)
BlockLen(L, b) == LesserOf(BLOCK, L - (b - 1) * BLOCK)
IsBlock(L, s, b) ==
  /\ DOMAIN Blocks(s) = 1 .. (L + BLOCK - 1) \div BLOCK
  /\ BlockLen(L, b) \in Nat /\ DOMAIN Blocks(s)[b] = 1 .. BlockLen(L, b)
  /\ \A n \in 1 .. BlockLen(L, b) : /\ (b - 1) * BLOCK + n \in 1 .. L
                                    /\ Blocks(s)[b][n] = s[(b - 1) * BLOCK + n]

(* A block is as long as its place in the sequence allows.                 *)
LEMMA BlockIs ==
  ASSUME NEW L \in Nat, NEW S, NEW s \in [1 .. L -> S], NEW b \in 1 .. (L + BLOCK - 1) \div BLOCK
  PROVE  IsBlock(L, s, b)
<1> DEFINE B == BLOCK
           N == L + B - 1
           c == (b - 1) * B
           len == LesserOf(B, L - c)
           hi == LesserOf(b * B, L)
<1>1. B \in Nat \ {0} /\ N \in Nat
  BY LinearAssumption
<1>2. N \div B \in Nat /\ (N \div B) * B <= N
  <2> HIDE DEF B, N
  <2> QED BY <1>1, DivBounds
<1>3. b \in Nat \ {0} /\ b <= N \div B
  BY <1>2
<1>4. b * B <= N /\ b * B \in Int /\ c \in Nat /\ b * B = c + B
  <2>1. b * B <= (N \div B) * B
    <3> HIDE DEF B, N
    <3> QED BY <1>1, <1>2, <1>3, Monotone
  <2>2. b * B = (b - 1) * B + B /\ b * B \in Int /\ (b - 1) * B \in Nat /\ (N \div B) * B \in Int
    <3>1. b - 1 \in Nat
      BY <1>3
    <3> HIDE DEF B, N
    <3>2. (b - 1) * B \in Nat /\ b * B \in Int /\ (N \div B) * B \in Int
      BY <1>1, <1>2, <1>3, <3>1
    <3>3. b * B = (b - 1) * B + B
      BY <1>1, <1>3
    <3> QED BY <3>2, <3>3
  <2> HIDE DEF B, N
  <2> QED BY <1>1, <2>1, <2>2
<1>5. Len(s) = L /\ s \in Seq(S)
  OBVIOUS
<1>6. N = L + B - 1
  OBVIOUS
<1>7. DOMAIN Blocks(s) = 1 .. N \div B /\ Blocks(s)[b] = SubSeq(s, c + 1, hi)
  BY <1>5 DEF Blocks
<1>8. b * B = LesserOf(b * B, L) \/ L = LesserOf(b * B, L)
  BY DEF LesserOf
<1> HIDE DEF B, N, c
<1>9. len \in Nat \ {0} /\ hi - c = len /\ hi <= L /\ hi \in Nat /\ len <= L - c
  BY <1>1, <1>4, <1>6 DEF LesserOf
<1> HIDE DEF hi, len
<1>10. /\ SubSeq(s, c + 1, hi) \in Seq(S) /\ Len(SubSeq(s, c + 1, hi)) = len
       /\ \A n \in 1 .. len : c + n \in 1 .. L /\ SubSeq(s, c + 1, hi)[n] = s[c + n]
  <2>1. c + 1 \in 1 .. L + 1 /\ hi \in c .. L
    BY <1>4, <1>9
  <2>2. SubSeq(s, c + 1, hi) = [n \in 1 .. len |-> s[c + n]]
    <3>1. SubSeq(s, c + 1, hi) = [n \in 1 .. (1 + hi) - (c + 1) |-> s[(n + (c + 1)) - 1]]
      BY <1>4, <1>5, <1>9
    <3>2. (1 + hi) - (c + 1) = len /\ \A n \in 1 .. len : (n + (c + 1)) - 1 = c + n
      BY <1>4, <1>9
    <3> QED BY <3>1, <3>2
  <2>3. \A n \in 1 .. len : c + n \in 1 .. L
    BY <1>4, <1>9
  <2> DEFINE t == [n \in 1 .. len |-> s[c + n]]
  <2>4. t \in [1 .. len -> S] /\ \A n \in 1 .. len : t[n] = s[c + n]
    BY <2>3
  <2>5. SubSeq(s, c + 1, hi) = t
    BY <2>2
  <2> HIDE DEF t
  <2>6. t \in Seq(S) /\ Len(t) = len
    BY <1>9, <2>4
  <2> QED BY <2>3, <2>4, <2>5, <2>6
<1>11. DOMAIN Blocks(s)[b] = 1 .. len
  BY <1>7, <1>9, <1>10
<1> QED BY <1>7, <1>9, <1>10, <1>11 DEF len, c, B, N, IsBlock, BlockLen

(* A total of natural numbers is one.                                      *)
LEMMA TotalNat ==
  ASSUME NEW n \in Nat, NEW s \in [1 .. n -> Nat]
  PROVE  Total(s) \in Nat
<1>1. s \in [1 .. n -> Int]
  OBVIOUS
<1>2. PICK R \in [0 .. n -> Int] :
        R[0] = 0 /\ R[n] = Total(s) /\ \A k \in 1 .. n : R[k] = R[k - 1] + s[k]
  BY <1>1, TotalRun
<1> DEFINE C == {k \in Nat : k <= n => R[k] \in Nat}
<1>3. 0 \in C
  BY <1>2
<1>4. ASSUME NEW k \in Nat, k \in C PROVE k + 1 \in C
  <2> SUFFICES ASSUME k + 1 <= n PROVE R[k + 1] \in Nat
    OBVIOUS
  <2>1. k + 1 \in 1 .. n /\ (k + 1) - 1 = k /\ k <= n
    OBVIOUS
  <2>2. R[k + 1] = R[k] + s[k + 1] /\ R[k] \in Nat /\ s[k + 1] \in Nat
    BY <1>2, <1>4, <2>1
  <2> QED BY <2>2
<1> HIDE DEF C
<1>5. n \in C
  BY <1>3, <1>4, NatSetInduction
<1> QED BY <1>2, <1>5 DEF C

(* A total of members of D is one.                                         *)
LEMMA TotalIn ==
  ASSUME NEW D \in {Int, Nat}, NEW n \in Nat, NEW s \in [1 .. n -> D]
  PROVE  Total(s) \in D
BY TotalType, TotalNat

(* The sum over a column, block by block, is a number of the kind of its   *)
(* terms.                                                                  *)
LEMMA InBlocksIn ==
  ASSUME NEW D \in {Int, Nat}, NEW L \in Nat, NEW rows \in [1 .. L -> Rows],
         NEW term, \A r \in Rows : Included(r, term[r]) \in D
  PROVE  InBlocks(rows, term) \in D
<1> DEFINE N == (L + BLOCK - 1) \div BLOCK
           one(b) == [n \in DOMAIN Blocks(rows)[b] |->
                        Included(Blocks(rows)[b][n], term[Blocks(rows)[b][n]])]
           of == [b \in DOMAIN Blocks(rows) |-> Total(one(b))]
<1>1. N \in Nat
  <2>1. BLOCK \in Nat \ {0} /\ L + BLOCK - 1 \in Nat
    BY LinearAssumption
  <2> DEFINE m == L + BLOCK - 1
  <2>2. m \in Nat
    BY <2>1
  <2> HIDE DEF m
  <2>3. m \div BLOCK \in Nat
    BY <2>1, <2>2, DivBounds
  <2> QED BY <2>3 DEF m
<1>2. ASSUME NEW b \in 1 .. N PROVE Total(one(b)) \in D
  <2> DEFINE len == LesserOf(BLOCK, L - (b - 1) * BLOCK)
             s == Blocks(rows)[b]
  <2>1. /\ len \in Nat /\ DOMAIN s = 1 .. len
        /\ \A n \in 1 .. len : (b - 1) * BLOCK + n \in 1 .. L /\ s[n] = rows[(b - 1) * BLOCK + n]
    <3>1. IsBlock(L, rows, b)
      BY BlockIs
    <3> QED BY <3>1 DEF IsBlock, BlockLen
  <2> HIDE DEF len, s
  <2>2. \A n \in 1 .. len : s[n] \in Rows
    BY <2>1
  <2>3. \A n \in 1 .. len : Included(s[n], term[s[n]]) \in D
    BY <2>2
  <2> DEFINE t == [n \in DOMAIN s |-> Included(s[n], term[s[n]])]
  <2>4. t \in [1 .. len -> D]
    BY <2>1, <2>3
  <2>5. Total(t) \in D
    <3> HIDE DEF t
    <3> QED BY <2>1, <2>4, TotalIn
  <2> QED BY <2>5 DEF s
<1>4. DOMAIN Blocks(rows) = 1 .. N
  <2>1. Len(rows) = L
    OBVIOUS
  <2> QED BY <2>1 DEF Blocks
<1>5. of \in [1 .. N -> D]
  <2> HIDE DEF one, N
  <2> QED BY <1>2, <1>4
<1>6. Total(of) \in D
  <2> HIDE DEF of, N
  <2> QED BY <1>1, <1>5, TotalIn
<1> QED BY <1>6 DEF InBlocks

(* And an integer.                                                         *)
LEMMA InBlocksType ==
  ASSUME NEW L \in Nat, NEW rows \in [1 .. L -> Rows], NEW term \in [Rows -> Int]
  PROVE  InBlocks(rows, term) \in Int
<1>1. \A r \in Rows : Included(r, term[r]) \in Int
  BY DEF Included
<1> QED BY <1>1, InBlocksIn

(* Pairs of sums.                                                          *)
Sums == [grad : Int, hess : Int]

(* So are the totals of pairs.                                             *)
LEMMA SummedType ==
  ASSUME NEW n \in Nat, NEW of \in [1 .. n -> Sums]
  PROVE  Summed(of) \in Sums
<1> DEFINE a == [k \in DOMAIN of |-> of[k].grad]
           b == [k \in DOMAIN of |-> of[k].hess]
<1>1. \A k \in 1 .. n : of[k].grad \in Int /\ of[k].hess \in Int
  BY DEF Sums
<1>2. a \in [1 .. n -> Int] /\ b \in [1 .. n -> Int]
  BY <1>1
<1> HIDE DEF a, b
<1>3. Total(a) \in Int /\ Total(b) \in Int
  BY <1>2, TotalType
<1> QED BY <1>3 DEF a, b, Summed, Sums

(* The sums of one column of a page; the second is no negative number.     *)
LEMMA ColumnGradientType ==
  ASSUME q \in Problems, NEW g \in Gradients, NEW p, NEW f \in Features, NEW k \in Groups
  PROVE  ColumnGradient(g, p, f, k) \in Sums
<1> DEFINE a == [r \in Rows |-> g[r][k] * q.x[r][f]]
           b == [r \in Rows |-> q.hess[r] * q.x[r][f] * q.x[r][f]]
           c == Column(p, f)
<1>1. \A r \in Rows : g[r][k] \in Int /\ q.x[r][f] \in Int /\ q.hess[r] \in Int
  BY Shape DEF Gradients
<1>2. \A u, v, w \in Int : u * v \in Int /\ u * v * w \in Int
  OBVIOUS
<1>3. a \in [Rows -> Int] /\ b \in [Rows -> Int]
  BY <1>1, <1>2
<1>4. c \in [1 .. Len(c) -> Rows] /\ Len(c) \in Nat
  BY ColumnIs
<1> HIDE DEF a, b, c
<1>5. InBlocks(c, a) \in Int /\ InBlocks(c, b) \in Int
  BY <1>3, <1>4, InBlocksType
<1> QED BY <1>5 DEF a, b, c, ColumnGradient, Sums

(* The sums of a feature over the pages.                                   *)
LEMMA SumOverPagesType ==
  ASSUME q \in Problems, NEW g \in Gradients, NEW f \in Features, NEW k \in Groups
  PROVE  SumOverPages(g, f, k) \in Sums
<1> DEFINE of == [p \in 1 .. NumPages |-> ColumnGradient(g, p, f, k)]
<1>1. of \in [1 .. NumPages -> Sums]
  BY ColumnGradientType
<1>2. NumPages \in Nat
  BY Paged
<1>3. Summed(of) \in Sums
  <2> HIDE DEF of
  <2> QED BY <1>1, <1>2, SummedType
<1> QED BY <1>3 DEF SumOverPages

(* The sums of the intercept of a group.                                   *)
LEMMA BiasGradientType ==
  ASSUME q \in Problems, NEW g \in Gradients, NEW k \in Groups
  PROVE  /\ BiasGradient(g, k) \in Sums
         /\ BiasGradient(g, k).hess \in Nat
<1> DEFINE rows == [r \in Rows |-> r]
           a == [r \in Rows |-> g[r][k]]
           b == q.hess
           L == Len(q.x)
<1>1. L \in Nat /\ Rows = 1 .. L /\ \A r \in Rows : b[r] \in Int
  BY Shape
<1>2. rows \in [1 .. L -> Rows] /\ a \in [Rows -> Int]
  BY <1>1 DEF Gradients
<1>3. \A r \in Rows : Included(r, b[r]) \in Nat
  BY <1>1 DEF Included
<1> HIDE DEF rows, a, L
<1>4. InBlocks(rows, a) \in Int
  BY <1>1, <1>2, InBlocksType
<1>5. InBlocks(rows, b) \in Nat
  <2> HIDE DEF b
  <2> QED BY <1>1, <1>2, <1>3, InBlocksIn
<1> QED BY <1>4, <1>5 DEF rows, a, b, BiasGradient, Sums

(* Weights of the rows sum to a natural number.                            *)
LEMMA WeightType ==
  ASSUME q \in Problems
  PROVE  SumInstanceWeight \in Nat
<1> DEFINE L == Len(q.x)
           s == [r \in Rows |-> Abs(q.hess[r])]
<1>1. L \in Nat /\ Rows = 1 .. L /\ \A r \in Rows : q.hess[r] \in Int
  BY Shape
<1>2. \A r \in Rows : Abs(q.hess[r]) \in Nat
  BY <1>1 DEF Abs
<1>3. s \in [1 .. L -> Nat]
  BY <1>1, <1>2
<1>4. Total(s) \in Nat
  <2> HIDE DEF s, L
  <2> QED BY <1>1, <1>3, TotalNat
<1> QED BY <1>4 DEF SumInstanceWeight

(* A step is a fraction with a denominator above zero.                     *)
Steps == [num : Int, den : Nat \ {0}]

(* coordinate_delta never divides by zero.                                 *)
LEMMA StepType ==
  ASSUME q \in Problems, NEW s \in Sums, NEW w \in Int
  PROVE  CoordinateDelta(s, w) \in Steps
<1> DEFINE W == SumInstanceWeight
           A == q.alpha * W
           B == q.lambda * W
           grad == s.grad + B * w
           hess == s.hess + B
<1>1. W \in Nat /\ q.alpha \in Nat /\ q.lambda \in Nat /\ s.grad \in Int /\ s.hess \in Int
  BY WeightType, Shape DEF Sums
<1>2. A \in Nat /\ B \in Nat
  <2> HIDE DEF W
  <2> QED BY <1>1
<1> HIDE DEF A, B
<1>3. grad \in Int /\ hess \in Int /\ w * hess \in Int /\ -w * hess \in Int
  BY <1>1, <1>2
<1>4. ~(s.hess <= 0) => hess \in Nat \ {0}
  BY <1>1, <1>2
<1>5. CoordinateDelta(s, w) =
        IF s.hess <= 0 THEN [num |-> 0, den |-> 1]
        ELSE IF w * hess - grad >= 0
             THEN [num |-> GreaterOf(-(grad + A), -w * hess), den |-> hess]
             ELSE [num |-> LesserOf(-(grad - A), -w * hess), den |-> hess]
  BY DEF CoordinateDelta, A, B
<1>6. GreaterOf(-(grad + A), -w * hess) \in Int /\ LesserOf(-(grad - A), -w * hess) \in Int
  <2> HIDE DEF grad, hess
  <2> QED BY <1>2, <1>3 DEF GreaterOf, LesserOf
<1> HIDE DEF grad, hess
<1> QED BY <1>4, <1>5, <1>6 DEF Steps

(* Nor does coordinate_delta_bias.                                         *)
LEMMA BiasStepType ==
  ASSUME q \in Problems, NEW s \in Sums, s.hess \in Nat
  PROVE  CoordinateDeltaBias(s) \in Steps
BY DEF CoordinateDeltaBias, Steps, Sums

(* Narrowing leaves an integer.                                            *)
LEMMA NarrowType ==
  ASSUME q \in Problems, NEW step \in Steps
  PROVE  Narrow(step) \in Int
<1> DEFINE d == step.den * q.slowness
           n == step.num
<1>1. d \in Nat \ {0} /\ n \in Int
  BY Shape, SMTT(40) DEF Steps
<1>2. Narrow(step) = Toward0(n, d)
  BY DEF Narrow
<1> HIDE DEF d, n
<1>3. \A m \in Nat : m \div d \in Nat
  BY <1>1, DivBounds
<1>4. (n < 0 => -n \in Nat) /\ (~(n < 0) => n \in Nat)
  BY <1>1
<1> QED BY <1>2, <1>3, <1>4 DEF Toward0

-----------------------------------------------------------------------------
(* The page on the device.                                                 *)

(* Two sequences end to end.                                               *)
Joins(u, v, s) ==
  /\ Len(s) = Len(u) + Len(v)
  /\ \A n \in 1 .. Len(u) : s[n] = u[n]
  /\ \A n \in 1 .. Len(v) : s[Len(u) + n] = v[n]

(* What the concatenation of two sequences holds.                          *)
LEMMA Joined ==
  ASSUME NEW S, NEW u \in Seq(S), NEW v \in Seq(S)
  PROVE  Joins(u, v, u \o v)
<1>1. Len(u) \in Nat /\ Len(v) \in Nat
  OBVIOUS
<1>2. ASSUME NEW n \in 1 .. Len(v) PROVE (u \o v)[Len(u) + n] = v[n]
  <2> DEFINE a == Len(u) + n
  <2>1. a \in 1 .. Len(u) + Len(v) /\ ~(a <= Len(u)) /\ a - Len(u) = n
    BY <1>1
  <2> HIDE DEF a
  <2>2. (u \o v)[a] = v[a - Len(u)]
    BY <2>1
  <2> QED BY <2>1, <2>2 DEF a
<1> QED BY <1>1, <1>2 DEF Joins

(* F is the sequences of end to end, up to each of them; s is the last.    *)
EndToEnd(S, m, of, s) ==
  \E F \in [1 .. m -> Seq(S)] :
    /\ F[1] = of[1] /\ F[m] = s
    /\ \A j \in 2 .. m : F[j] = F[j - 1] \o of[j]

(* FlattenSeq joins its sequences from the left.                           *)
LEMMA FlattenRun ==
  ASSUME NEW S, NEW m \in Nat \ {0}, NEW of \in [1 .. m -> Seq(S)]
  PROVE  EndToEnd(S, m, of, FlattenSeq(of))
<1> DEFINE E(n, F) == [j \in 1 .. n |-> IF j = 1 THEN of[j] ELSE F[j - 1] \o of[j]]
           Has(n) == \E F \in [1 .. n -> Seq(S)] : F = E(n, F)
           C == {n \in Nat : n + 1 <= m => Has(n + 1)}
<1>1. 0 \in C
  <2> DEFINE F == [j \in 1 .. 1 |-> of[j]]
  <2>1. F \in [1 .. 1 -> Seq(S)] /\ F = E(1, F)
    OBVIOUS
  <2> HIDE DEF E, F
  <2>2. Has(1)
    BY <2>1
  <2> QED BY <2>2
<1>2. ASSUME NEW n \in Nat, n \in C PROVE n + 1 \in C
  <2> HIDE DEF Has
  <2> SUFFICES ASSUME (n + 1) + 1 <= m PROVE Has((n + 1) + 1)
    OBVIOUS
  <2> DEFINE a == n + 1
  <2>0. a \in Nat \ {0} /\ a + 1 <= m /\ Has(a)
    BY <1>2
  <2> HIDE DEF a
  <2>1. PICK F \in [1 .. a -> Seq(S)] : F = E(a, F)
    BY <2>0 DEF Has
  <2> DEFINE G == [j \in 1 .. a + 1 |-> IF j = a + 1 THEN F[a] \o of[a + 1] ELSE F[j]]
  <2>2. \A j \in 1 .. a : F[j] = (IF j = 1 THEN of[j] ELSE F[j - 1] \o of[j])
    BY <2>1
  <2>3. G \in [1 .. a + 1 -> Seq(S)]
    <3>1. F[a] \in Seq(S) /\ of[a + 1] \in Seq(S)
      BY <2>0
    <3>2. F[a] \o of[a + 1] \in Seq(S)
      BY <3>1
    <3> QED BY <2>0, <3>2
  <2>4. \A j \in 1 .. a : G[j] = F[j]
    <3>1. \A j \in 1 .. a : j # a + 1 /\ j \in 1 .. a + 1
      BY <2>0
    <3> QED BY <3>1
  <2>5. G[a + 1] = F[a] \o of[a + 1]
    <3>1. a + 1 \in 1 .. a + 1
      BY <2>0
    <3> QED BY <3>1
  <2> HIDE DEF G
  <2>6. ASSUME NEW j \in 1 .. a + 1
        PROVE  G[j] = (IF j = 1 THEN of[j] ELSE G[j - 1] \o of[j])
    <3>1. CASE j = a + 1
      <4>1. j # 1 /\ j - 1 = a /\ a \in 1 .. a
        BY <2>0, <3>1
      <4> QED BY <2>4, <2>5, <3>1, <4>1
    <3>2. CASE j # a + 1
      <4>1. j \in 1 .. a
        BY <2>0, <3>2
      <4>2. CASE j = 1
        BY <2>2, <2>4, <4>1, <4>2
      <4>3. CASE j # 1
        <5>1. j - 1 \in 1 .. a
          BY <2>0, <4>1, <4>3
        <5>2. F[j] = F[j - 1] \o of[j] /\ G[j] = F[j] /\ G[j - 1] = F[j - 1]
          BY <2>2, <2>4, <4>1, <4>3, <5>1
        <5> QED BY <4>3, <5>2
      <4> QED BY <4>2, <4>3
    <3> QED BY <3>1, <3>2
  <2>7. G = E(a + 1, G)
    <3>1. DOMAIN G = 1 .. a + 1 /\ G = [j \in 1 .. a + 1 |-> G[j]]
      BY <2>3
    <3> QED BY <2>6, <3>1
  <2> HIDE DEF E
  <2>8. Has(a + 1)
    BY <2>3, <2>7 DEF Has
  <2> QED BY <2>8 DEF a
<1> HIDE DEF C, Has
<1>3. m - 1 \in C /\ (m - 1) + 1 = m
  <2>1. m - 1 \in Nat /\ (m - 1) + 1 = m
    OBVIOUS
  <2>2. \A n \in Nat : n \in C
    BY <1>1, <1>2, NatSetInduction
  <2> QED BY <2>1, <2>2
<1>4. Has(m)
  BY <1>3 DEF C
<1>5. PICK F \in [1 .. m -> Seq(S)] : F = E(m, F)
  BY <1>4 DEF Has
<1> DEFINE h == CHOOSE G : G = E(m, G)
<1>6. h = E(m, h)
  BY <1>5
<1>7. FlattenSeq(of) = h[m]
  <2>1. Len(of) = m /\ m # 0
    OBVIOUS
  <2> QED BY <2>1 DEF FlattenSeq
<1> HIDE DEF h
<1>8. /\ DOMAIN h = 1 .. m
      /\ \A j \in 1 .. m : h[j] = (IF j = 1 THEN of[j] ELSE h[j - 1] \o of[j])
  BY <1>6
<1>9. \A j \in 1 .. m : F[j] = (IF j = 1 THEN of[j] ELSE F[j - 1] \o of[j])
  BY <1>5
<1> DEFINE D == {n \in Nat : n + 1 <= m => h[n + 1] = F[n + 1]}
<1>10. 0 \in D
  BY <1>8, <1>9
<1>11. ASSUME NEW n \in Nat, n \in D PROVE n + 1 \in D
  <2> SUFFICES ASSUME (n + 1) + 1 <= m PROVE h[(n + 1) + 1] = F[(n + 1) + 1]
    OBVIOUS
  <2> DEFINE j == (n + 1) + 1
  <2>1. j \in 1 .. m /\ j # 1 /\ j - 1 = n + 1
    OBVIOUS
  <2>2. h[n + 1] = F[n + 1]
    BY <1>11
  <2> HIDE DEF j
  <2>3. h[j] = h[j - 1] \o of[j] /\ F[j] = F[j - 1] \o of[j]
    BY <1>8, <1>9, <2>1
  <2>4. h[j] = F[j]
    BY <2>1, <2>2, <2>3
  <2> QED BY <2>4 DEF j
<1> HIDE DEF D
<1>12. h[m] = F[m]
  <2>1. m - 1 \in Nat /\ (m - 1) + 1 = m
    OBVIOUS
  <2>2. m - 1 \in D
    BY <1>10, <1>11, <2>1, NatSetInduction
  <2> QED BY <2>1, <2>2 DEF D
<1>13. F[1] = of[1] /\ \A j \in 2 .. m : F[j] = F[j - 1] \o of[j]
  <2>1. 1 \in 1 .. m /\ \A j \in 2 .. m : j \in 1 .. m /\ j # 1
    OBVIOUS
  <2> QED BY <1>9, <2>1
<1> QED BY <1>7, <1>12, <1>13 DEF EndToEnd

(* Where an entry of the i-th sequence is.                                 *)
Starts(m, of, P) == P[0] = 0 /\ \A j \in 1 .. m : P[j] = P[j - 1] + Len(of[j])
(* The flat sequence holds every sequence behind where it starts.          *)
Holds(m, of, P, s) ==
  \A j \in 1 .. m : \A n \in 1 .. Len(of[j]) : s[P[j - 1] + n] = of[j][n]

(* Starts are in order.                                                    *)
LEMMA StartsGrow ==
  ASSUME NEW S, NEW m \in Nat \ {0}, NEW of \in [1 .. m -> Seq(S)], NEW P \in [0 .. m -> Nat],
         Starts(m, of, P), NEW j \in 0 .. m, NEW a \in j .. m
  PROVE  P[j] <= P[a]
<1> DEFINE G == {d \in Nat : j + d <= m => P[j] <= P[j + d]}
<1>1. 0 \in G
  <2>1. j + 0 = j /\ P[j] \in Nat
    OBVIOUS
  <2> QED BY <2>1
<1>2. ASSUME NEW d \in Nat, d \in G PROVE d + 1 \in G
  <2> SUFFICES ASSUME j + (d + 1) <= m PROVE P[j] <= P[j + (d + 1)]
    OBVIOUS
  <2> DEFINE e == j + d
             c == e + 1
  <2>1. e \in 0 .. m /\ c \in 1 .. m /\ c \in 0 .. m /\ j + (d + 1) = c /\ c - 1 = e /\ j + d = e
    OBVIOUS
  <2>2. P[j] <= P[e]
    BY <1>2, <2>1
  <2> HIDE DEF e, c, G
  <2>3. P[c] = P[e] + Len(of[c])
    BY <2>1 DEF Starts
  <2>4. P[j] \in Nat /\ P[e] \in Nat
    BY <2>1
  <2>5. of[c] \in Seq(S)
    BY <2>1
  <2>6. Len(of[c]) \in Nat
    BY <2>5
  <2>7. P[j] <= P[c]
    BY <2>2, <2>3, <2>4, <2>6, SMTT(40)
  <2> QED BY <2>1, <2>7
<1> HIDE DEF G
<1>3. a - j \in Nat /\ j + (a - j) = a /\ a <= m
  OBVIOUS
<1>4. a - j \in G
  BY <1>1, <1>2, <1>3, NatSetInduction
<1> QED BY <1>3, <1>4 DEF G

(* FlattenSeq does.                                                        *)
LEMMA FlattenAt ==
  ASSUME NEW S, NEW m \in Nat \ {0}, NEW of \in [1 .. m -> Seq(S)], NEW P \in [0 .. m -> Nat],
         Starts(m, of, P)
  PROVE  Holds(m, of, P, FlattenSeq(of))
<1>0. EndToEnd(S, m, of, FlattenSeq(of))
  BY FlattenRun
<1>1. PICK F \in [1 .. m -> Seq(S)] :
        /\ F[1] = of[1] /\ F[m] = FlattenSeq(of)
        /\ \A j \in 2 .. m : F[j] = F[j - 1] \o of[j]
  BY <1>0 DEF EndToEnd
<1> DEFINE At(k) == \A j \in 1 .. k : \A n \in 1 .. Len(of[j]) : F[k][P[j - 1] + n] = of[j][n]
           C == {i0 \in Nat : i0 + 1 <= m => Len(F[i0 + 1]) = P[i0 + 1] /\ At(i0 + 1)}
<1>2. \A j \in 1 .. m : of[j] \in Seq(S) /\ Len(of[j]) \in Nat /\ F[j] \in Seq(S)
  OBVIOUS
<1>3. 0 \in C
  <2>1. 1 \in 1 .. m /\ 1 - 1 = 0
    OBVIOUS
  <2>2. P[1] = Len(of[1])
    BY <1>2, <2>1 DEF Starts
  <2>3. At(1)
    <3> SUFFICES ASSUME NEW j \in 1 .. 1, NEW n \in 1 .. Len(of[j])
                 PROVE  F[1][P[j - 1] + n] = of[j][n]
      OBVIOUS
    <3>1. j = 1 /\ P[j - 1] = 0 /\ n \in Nat
      BY <1>2, <2>1 DEF Starts
    <3>2. P[j - 1] + n = n
      BY <3>1
    <3> QED BY <1>1, <3>1, <3>2
  <2> HIDE DEF At
  <2> QED BY <1>1, <2>2, <2>3
<1>4. ASSUME NEW k \in Nat, k \in C PROVE k + 1 \in C
  <2> HIDE DEF At
  <2> DEFINE a == k + 1
             b == a + 1
  <2> SUFFICES ASSUME b <= m PROVE Len(F[b]) = P[b] /\ At(b)
    OBVIOUS
  <2>1. /\ a \in 1 .. m /\ b \in 2 .. m /\ b \in 1 .. m /\ b - 1 = a
        /\ b = a + 1 /\ a \in Nat
    OBVIOUS
  <2>2. Len(F[a]) = P[a] /\ At(a)
    BY <1>4, <2>1
  <2> HIDE DEF C, a, b
  <2>3. F[b] = F[a] \o of[b]
    BY <1>1, <2>1
  <2>4. F[a] \in Seq(S) /\ of[b] \in Seq(S) /\ Len(of[b]) \in Nat /\ P[a] \in Nat
    BY <1>2, <2>1
  <2>5. /\ Len(F[b]) = P[a] + Len(of[b])
        /\ \A n \in 1 .. P[a] : F[b][n] = F[a][n]
        /\ \A n \in 1 .. Len(of[b]) : F[b][P[a] + n] = of[b][n]
    <3> DEFINE u == F[a]
               v == of[b]
    <3>1. u \in Seq(S) /\ v \in Seq(S) /\ Len(u) = P[a]
      BY <2>2, <2>4
    <3> HIDE DEF u, v
    <3>2. Joins(u, v, u \o v)
      BY <3>1, Joined
    <3> QED BY <2>3, <3>1, <3>2 DEF u, v, Joins
  <2>6. P[b] = P[a] + Len(of[b])
    BY <2>1 DEF Starts
  <2>7. At(b)
    <3> SUFFICES ASSUME NEW j \in 1 .. b, NEW n \in 1 .. Len(of[j])
                 PROVE  F[b][P[j - 1] + n] = of[j][n]
      BY DEF At
    <3>1. CASE j = b
      BY <2>1, <2>5, <3>1
    <3>2. CASE j # b
      <4>1. j \in 1 .. a
        BY <2>1, <3>2
      <4>2. F[a][P[j - 1] + n] = of[j][n]
        BY <2>2, <4>1 DEF At
      <4>3. P[j - 1] + n \in 1 .. P[a]
        <5>1. j \in 1 .. m /\ j - 1 \in 0 .. m
          BY <2>1, <4>1
        <5>2. P[j - 1] \in Nat /\ P[j] = P[j - 1] + Len(of[j]) /\ Len(of[j]) \in Nat
          BY <1>2, <5>1 DEF Starts
        <5>3. P[j] <= P[a]
          <6>1. j \in 0 .. m /\ a \in j .. m
            BY <2>1, <4>1
          <6> QED BY <6>1, StartsGrow
        <5>4. n \in 1 .. Len(of[j])
          OBVIOUS
        <5> DEFINE x == P[j - 1]
                   l == Len(of[j])
                   z == P[a]
        <5>5. x \in Nat /\ l \in Nat /\ z \in Nat /\ x + l <= z /\ n \in 1 .. l
          BY <2>4, <5>2, <5>3, <5>4
        <5> HIDE DEF x, l, z
        <5>6. x + n \in 1 .. z
          BY <5>5
        <5> QED BY <5>6 DEF x, z
      <4> QED BY <2>5, <4>2, <4>3
    <3> QED BY <3>1, <3>2
  <2> QED BY <2>5, <2>6, <2>7
<1> HIDE DEF C, At
<1>5. m - 1 \in Nat /\ (m - 1) + 1 = m /\ m <= m
  OBVIOUS
<1>6. m - 1 \in C
  BY <1>3, <1>4, <1>5, NatSetInduction
<1>7. At(m)
  BY <1>5, <1>6 DEF C
<1> QED BY <1>1, <1>7 DEF At, Holds

(* A column of the page is where col_ptr says, as CscPage has it.          *)
LEMMA RawColumn ==
  ASSUME q \in Problems, NEW p, NEW f \in Features
  PROVE  /\ RawPage(p).col_ptr[f] \in Nat
         /\ RawPage(p).col_ptr[f + 1] - RawPage(p).col_ptr[f] = Len(Column(p, f))
         /\ \A n \in 1 .. Len(Column(p, f)) :
              /\ RawPage(p).row_idx[RawPage(p).col_ptr[f] + n] = Column(p, f)[n]
              /\ RawPage(p).value[RawPage(p).col_ptr[f] + n] = q.x[Column(p, f)[n]][f]
<1> DEFINE m == Len(q.x[1])
           col == [w \in Features |-> Column(p, w)]
           val == [w \in Features |-> [n \in DOMAIN Column(p, w) |-> q.x[Column(p, w)[n]][w]]]
           sizes(z) == [d \in 1 .. z - 1 |-> Len(Column(p, d))]
           P == [w \in 0 .. m |-> Total(sizes(w + 1))]
           raw == RawPage(p)
<1>1. m \in Nat \ {0} /\ Features = 1 .. m /\ Bias = m + 1
  BY Shape
<1>2. /\ raw.row_idx = FlattenSeq(col) /\ raw.value = FlattenSeq(val)
      /\ \A c \in 1 .. Bias : raw.col_ptr[c] = Total(sizes(c))
  BY DEF RawPage
<1>3. \A c : Column(p, c) \in Seq(Rows) /\ Len(Column(p, c)) \in Nat
  BY ColumnIs
<1> HIDE DEF raw
<1>4. col \in [1 .. m -> Seq(Rows)]
  BY <1>1, <1>3
<1>5. val \in [1 .. m -> Seq(Int)] /\ \A c \in 1 .. m : Len(val[c]) = Len(Column(p, c))
  <2> SUFFICES ASSUME NEW c \in 1 .. m
               PROVE  val[c] \in Seq(Int) /\ Len(val[c]) = Len(Column(p, c))
    BY <1>1
  <2> DEFINE s == Column(p, c)
             v == [n \in DOMAIN s |-> q.x[s[n]][c]]
  <2>1. s \in [1 .. Len(s) -> Rows] /\ Len(s) \in Nat /\ c \in Features
    BY <1>1, ColumnIs
  <2>2. \A r \in Rows : q.x[r][c] \in Int
    BY <2>1, Shape
  <2>3. val[c] = v
    BY <2>1
  <2> HIDE DEF s, val
  <2>4. v \in [1 .. Len(s) -> Int]
    BY <2>1, <2>2
  <2>5. v \in Seq(Int) /\ Len(v) = Len(s)
    <3> HIDE DEF v
    <3> QED BY <2>1, <2>4
  <2> QED BY <2>3, <2>5 DEF s
<1>6. ASSUME NEW c \in 0 .. m PROVE sizes(c + 1) \in [1 .. c -> Nat] /\ P[c] \in Nat
  <2>1. (c + 1) - 1 = c /\ c \in Nat
    BY <1>1
  <2>2. sizes(c + 1) \in [1 .. c -> Nat]
    BY <1>3, <2>1
  <2>3. P[c] = Total(sizes(c + 1))
    OBVIOUS
  <2> HIDE DEF P, sizes
  <2> QED BY <2>1, <2>2, <2>3, TotalNat
<1>7. ASSUME NEW c \in 1 .. m PROVE P[c] = P[c - 1] + Len(Column(p, c))
  <2> DEFINE a == c - 1
             s == sizes(c + 1)
             t == sizes(a + 1)
  <2>1. a \in Nat /\ a \in 0 .. m /\ c \in 0 .. m /\ c = a + 1
    BY <1>1
  <2>2. P[c] = Total(s) /\ P[a] = Total(t)
    BY <2>1
  <2>3. s \in [1 .. a + 1 -> Nat] /\ t \in [1 .. a -> Nat]
    <3> HIDE DEF P, sizes
    <3> QED BY <1>6, <2>1
  <2>4. s[a + 1] = Len(Column(p, c)) /\ \A d \in 1 .. a : t[d] = s[d]
    <3>1. /\ a + 1 \in 1 .. (c + 1) - 1
          /\ \A d \in 1 .. a : d \in 1 .. (c + 1) - 1 /\ d \in 1 .. (a + 1) - 1
      BY <2>1
    <3> QED BY <2>1, <3>1
  <2> HIDE DEF P, s, t, a
  <2>5. s \in [1 .. a + 1 -> Int] /\ t \in [1 .. a -> Int]
    BY <2>3
  <2>6. Total(s) = Total(t) + s[a + 1]
    BY <2>1, <2>4, <2>5, TotalLast
  <2> QED BY <2>1, <2>2, <2>4, <2>6 DEF a
<1>8. P[0] = 0 /\ P \in [0 .. m -> Nat]
  <2>1. 0 \in 0 .. m /\ P[0] = Total(sizes(0 + 1))
    BY <1>1
  <2>2. sizes(0 + 1) \in [1 .. 0 -> Nat]
    BY <1>6, <2>1
  <2>3. P \in [0 .. m -> Nat]
    <3>1. \A c \in 0 .. m : P[c] \in Nat
      BY <1>6
    <3> QED BY <3>1
  <2> HIDE DEF P, sizes
  <2>4. sizes(0 + 1) \in [1 .. 0 -> Int]
    BY <2>2
  <2> QED BY <2>1, <2>3, <2>4, TotalEmpty
<1>9. \A c \in 1 .. m : col[c] = Column(p, c)
  BY <1>1
<1>10. \A c \in 1 .. m : \A n \in 1 .. Len(Column(p, c)) : val[c][n] = q.x[Column(p, c)[n]][c]
  <2> SUFFICES ASSUME NEW c \in 1 .. m, NEW n \in 1 .. Len(Column(p, c))
               PROVE  val[c][n] = q.x[Column(p, c)[n]][c]
    OBVIOUS
  <2>1. DOMAIN Column(p, c) = 1 .. Len(Column(p, c))
    BY <1>3
  <2> QED BY <1>1, <2>1
<1>11. f \in 1 .. m /\ f \in 1 .. Bias /\ f + 1 \in 1 .. Bias /\ f - 1 \in 0 .. m /\ f \in 0 .. m
  BY <1>1
<1>12. raw.col_ptr[f] = P[f - 1] /\ raw.col_ptr[f + 1] = P[f]
  <2>1. (f - 1) + 1 = f
    BY <1>11
  <2>2. P[f - 1] = Total(sizes(f)) /\ P[f] = Total(sizes(f + 1))
    BY <1>11, <2>1
  <2> HIDE DEF P, sizes
  <2> QED BY <1>2, <1>11, <2>2
<1> HIDE DEF P, col, val, sizes, m
<1>13. \A n \in 1 .. Len(col[f]) : FlattenSeq(col)[P[f - 1] + n] = col[f][n]
  <2>1. Starts(m, col, P)
    BY <1>7, <1>8, <1>9 DEF Starts
  <2>2. Holds(m, col, P, FlattenSeq(col))
    BY <1>1, <1>4, <1>8, <2>1, FlattenAt
  <2> QED BY <1>11, <2>2 DEF Holds
<1>14. \A n \in 1 .. Len(val[f]) : FlattenSeq(val)[P[f - 1] + n] = val[f][n]
  <2>1. Starts(m, val, P)
    BY <1>5, <1>7, <1>8 DEF Starts
  <2>2. Holds(m, val, P, FlattenSeq(val))
    BY <1>1, <1>5, <1>8, <2>1, FlattenAt
  <2> QED BY <1>11, <2>2 DEF Holds
<1>15. P[f - 1] \in Nat /\ P[f] - P[f - 1] = Len(Column(p, f))
  <2>1. P[f - 1] \in Nat /\ P[f] = P[f - 1] + Len(Column(p, f))
    BY <1>7, <1>8, <1>11
  <2> QED BY <1>3, <2>1
<1> QED BY <1>2, <1>5, <1>9, <1>10, <1>11, <1>12, <1>13, <1>14, <1>15 DEF raw

(* What the entry of a row adds to the sums of a column, and what a block  *)
(* adds.                                                                   *)
GradTerm(g, f, k) == [r \in Rows |-> g[r][k] * q.x[r][f]]
HessTerm(f) == [r \in Rows |-> q.hess[r] * q.x[r][f] * q.x[r][f]]
BlockSum(rows, term, b) ==
  Total([n \in DOMAIN Blocks(rows)[b] |->
           Included(Blocks(rows)[b][n], term[Blocks(rows)[b][n]])])

(* A thread of column_sums_kernel sums the block that the host would.      *)
LEMMA ThreadSumsAre ==
  ASSUME q \in Problems, NEW g, NEW p, NEW f \in Features, NEW k,
         NEW b \in 1 .. (Len(Column(p, f)) + BLOCK - 1) \div BLOCK
  PROVE  ThreadSums(g, RawPage(p), f, k, b - 1) =
           [grad |-> BlockSum(Column(p, f), GradTerm(g, f, k), b),
            hess |-> BlockSum(Column(p, f), HessTerm(f), b)]
<1> DEFINE col == Column(p, f)
           raw == RawPage(p)
           begin == raw.col_ptr[f]
           L == Len(col)
           blk == Blocks(col)[b]
           a == (b - 1) * BLOCK
           len == LesserOf(BLOCK, L - a)
           mine == [n \in 1 .. len |-> [row |-> raw.row_idx[begin + a + n],
                                        value |-> raw.value[begin + a + n]]]
           tg == [r \in Rows |-> g[r][k] * q.x[r][f]]
           th == [r \in Rows |-> q.hess[r] * q.x[r][f] * q.x[r][f]]
           mg == [n \in DOMAIN mine |-> g[mine[n].row][k] * mine[n].value]
           mh == [n \in DOMAIN mine |-> q.hess[mine[n].row] * mine[n].value * mine[n].value]
           sg == [n \in DOMAIN mine |-> Included(mine[n].row, mg[n])]
           sh == [n \in DOMAIN mine |-> Included(mine[n].row, mh[n])]
           bg == [n \in DOMAIN blk |-> Included(blk[n], tg[blk[n]])]
           bh == [n \in DOMAIN blk |-> Included(blk[n], th[blk[n]])]
<1>1. /\ begin \in Nat /\ raw.col_ptr[f + 1] - begin = L
      /\ \A n \in 1 .. L : raw.row_idx[begin + n] = col[n] /\ raw.value[begin + n] = q.x[col[n]][f]
  BY RawColumn
<1>2. L \in Nat /\ col \in [1 .. L -> Rows]
  BY ColumnIs
<1>3. /\ len \in Nat /\ DOMAIN blk = 1 .. len
      /\ \A n \in 1 .. len : a + n \in 1 .. L /\ blk[n] = col[a + n]
  <2>1. b \in 1 .. (L + BLOCK - 1) \div BLOCK
    OBVIOUS
  <2>2. IsBlock(L, col, b)
    <3> HIDE DEF col, L
    <3>0. PICK x : x = col
      OBVIOUS
    <3>1. PICK n \in Nat : x = col /\ n = L
      BY <1>2, <3>0
    <3>2. x \in [1 .. n -> Rows] /\ b \in 1 .. (n + BLOCK - 1) \div BLOCK
      BY <1>2, <2>1, <3>1
    <3>3. IsBlock(n, x, b)
      BY <3>2, BlockIs
    <3> QED BY <3>1, <3>3
  <2> HIDE DEF col, L
  <2> QED BY <2>2 DEF IsBlock, BlockLen
<1>4. ThreadSums(g, raw, f, k, b - 1) = [grad |-> Total(sg), hess |-> Total(sh)]
  BY <1>1 DEF ThreadSums
<1>5. a \in Int
  BY LinearAssumption
<1> HIDE DEF raw, begin, L, len, a, blk, col
<1>6. ASSUME NEW n \in 1 .. len
      PROVE  /\ mine[n].row = blk[n] /\ mine[n].value = q.x[blk[n]][f]
             /\ blk[n] \in Rows
  <2>1. mine[n].row = raw.row_idx[begin + a + n] /\ mine[n].value = raw.value[begin + a + n]
    OBVIOUS
  <2>2. begin + a + n = begin + (a + n)
    BY <1>1, <1>5
  <2>3. a + n \in 1 .. L /\ blk[n] = col[a + n]
    BY <1>3
  <2> HIDE DEF mine
  <2> QED BY <1>1, <1>2, <2>1, <2>2, <2>3
<1>7. DOMAIN mine = 1 .. len /\ DOMAIN blk = 1 .. len
  BY <1>3
<1> HIDE DEF mine
<1>8. \A n \in 1 .. len : sg[n] = bg[n] /\ sh[n] = bh[n]
  <2> SUFFICES ASSUME NEW n \in 1 .. len PROVE sg[n] = bg[n] /\ sh[n] = bh[n]
    OBVIOUS
  <2>1. mg[n] = tg[blk[n]] /\ mh[n] = th[blk[n]]
    BY <1>6, <1>7
  <2> HIDE DEF mg, mh, tg, th
  <2> QED BY <1>6, <1>7, <2>1
<1> HIDE DEF mg, mh, tg, th
<1>9. sg = bg /\ sh = bh
  BY <1>7, <1>8
<1> HIDE DEF sg, sh
<1> QED BY <1>4, <1>9 DEF tg, th, blk, raw, col, BlockSum, GradTerm, HessTerm

(* GpuLinear::column_gradient is column_gradient.                          *)
LEMMA DeviceSumsAgree ==
  ASSUME q \in Problems, NEW g, NEW p, NEW f \in Features, NEW k
  PROVE  DeviceColumnGradient(g, p, f, k) = ColumnGradient(g, p, f, k)
<1> DEFINE col == Column(p, f)
           raw == RawPage(p)
           len == raw.col_ptr[f + 1] - raw.col_ptr[f]
           N == (Len(col) + BLOCK - 1) \div BLOCK
           of == [b \in 1 .. N |-> ThreadSums(g, raw, f, k, b - 1)]
<1>1. len = Len(col)
  BY RawColumn
<1>2. DeviceColumnGradient(g, p, f, k) = Summed(of)
  BY <1>1 DEF DeviceColumnGradient
<1>3. \A b \in 1 .. N : /\ of[b].grad = BlockSum(col, GradTerm(g, f, k), b)
                        /\ of[b].hess = BlockSum(col, HessTerm(f), b)
  <2> SUFFICES ASSUME NEW b \in 1 .. N
               PROVE  /\ of[b].grad = BlockSum(col, GradTerm(g, f, k), b)
                      /\ of[b].hess = BlockSum(col, HessTerm(f), b)
    OBVIOUS
  <2>1. ThreadSums(g, raw, f, k, b - 1) = [grad |-> BlockSum(col, GradTerm(g, f, k), b),
                                           hess |-> BlockSum(col, HessTerm(f), b)]
    BY ThreadSumsAre
  <2> HIDE DEF raw, col
  <2> QED BY <2>1
<1>4. DOMAIN of = 1 .. N
  OBVIOUS
<1>5. DOMAIN Blocks(col) = 1 .. N
  BY DEF Blocks
<1> HIDE DEF of, N, col, raw
<1>6. [n \in DOMAIN of |-> of[n].grad] =
        [b \in DOMAIN Blocks(col) |-> BlockSum(col, GradTerm(g, f, k), b)]
  BY <1>3, <1>4, <1>5
<1>7. [n \in DOMAIN of |-> of[n].hess] =
        [b \in DOMAIN Blocks(col) |-> BlockSum(col, HessTerm(f), b)]
  BY <1>3, <1>4, <1>5
<1>8. Summed(of) =
        [grad |-> Total([b \in DOMAIN Blocks(col) |-> BlockSum(col, GradTerm(g, f, k), b)]),
         hess |-> Total([b \in DOMAIN Blocks(col) |-> BlockSum(col, HessTerm(f), b)])]
  BY <1>6, <1>7 DEF Summed
<1> QED BY <1>2, <1>8 DEF ColumnGradient, InBlocks, BlockSum,
          GradTerm, HessTerm, col

-----------------------------------------------------------------------------
(* Corrections.                                                            *)

(* What a step of dw in feature f does to the gradient of a row.           *)
Due(r, f, dw) == IF q.hess[r] >= 0 THEN q.hess[r] * q.x[r][f] * dw ELSE 0

(* h is g corrected in the rows of S, for the group k.                     *)
Corrects(S, f, k, dw, g, h) ==
  \A r \in Rows, j \in Groups :
    h[r][j] = g[r][j] + (IF r \in S /\ j = k THEN Due(r, f, dw) ELSE 0)

(* A correction is an integer.                                             *)
LEMMA DueType ==
  ASSUME q \in Problems, NEW r \in Rows, NEW f \in Features, NEW dw \in Int
  PROVE  Due(r, f, dw) \in Int
<1>1. q.hess[r] \in Int /\ q.x[r][f] \in Int
  BY Shape
<1>2. q.hess[r] * q.x[r][f] \in Int
  BY <1>1
<1>3. q.hess[r] * q.x[r][f] * dw \in Int
  BY <1>2
<1> QED BY <1>3 DEF Due

(* A row without a value is corrected by nothing.                          *)
LEMMA WholePage ==
  ASSUME q \in Problems, NEW g \in Gradients, NEW h, NEW p, NEW f \in Features, NEW k \in Groups,
         NEW dw \in Int, Corrects(ToSet(Column(p, f)), f, k, dw, g, h)
  PROVE  Corrects(PageRows(p), f, k, dw, g, h)
<1>1. ToSet(Column(p, f)) = {r \in PageRows(p) : q.x[r][f] # 0}
  BY ColumnIs
<1>2. ASSUME NEW r \in Rows, q.x[r][f] = 0 PROVE Due(r, f, dw) = 0
  <2>1. q.hess[r] \in Int
    BY Shape
  <2>2. q.hess[r] * 0 = 0 /\ 0 * dw = 0
    BY <2>1
  <2> QED BY <1>2, <2>2 DEF Due
<1> QED BY <1>1, <1>2 DEF Corrects

(* update_residual corrects the rows of the page.                          *)
LEMMA UpdateIs ==
  ASSUME q \in Problems, NEW g \in Gradients, NEW p, NEW f \in Features, NEW k \in Groups,
         NEW dw \in Int
  PROVE  /\ UpdateResidual(g, p, f, k, dw) \in Gradients
         /\ Corrects(PageRows(p), f, k, dw, g, UpdateResidual(g, p, f, k, dw))
<1> DEFINE c == ToSet(Column(p, f))
           h == UpdateResidual(g, p, f, k, dw)
<1>1. h = [r \in Rows |-> IF r \in c /\ q.hess[r] >= 0
                          THEN [g[r] EXCEPT ![k] = @ + q.hess[r] * q.x[r][f] * dw] ELSE g[r]]
  BY DEF UpdateResidual
<1> HIDE DEF c, h
<1>2. ASSUME NEW r \in Rows
      PROVE  /\ h[r] \in [Groups -> Int]
             /\ \A j \in Groups :
                  h[r][j] = g[r][j] + (IF r \in c /\ j = k THEN Due(r, f, dw) ELSE 0)
  <2>1. g[r] \in [Groups -> Int]
    BY DEF Gradients
  <2>2. Due(r, f, dw) \in Int
    BY DueType
  <2>3. CASE r \in c /\ q.hess[r] >= 0
    <3>1. Due(r, f, dw) = q.hess[r] * q.x[r][f] * dw
      BY <2>3 DEF Due
    <3>2. h[r] = [g[r] EXCEPT ![k] = g[r][k] + Due(r, f, dw)]
      BY <1>1, <2>3, <3>1
    <3> QED BY <2>1, <2>2, <2>3, <3>2
  <2>4. CASE ~(r \in c /\ q.hess[r] >= 0)
    <3>1. h[r] = g[r]
      BY <1>1, <2>4
    <3>2. r \in c => Due(r, f, dw) = 0
      BY <2>4 DEF Due
    <3> QED BY <2>1, <3>1, <3>2
  <2> QED BY <2>3, <2>4
<1>3. h \in Gradients
  <2>1. DOMAIN h = Rows /\ h = [r \in Rows |-> h[r]]
    BY <1>1
  <2> QED BY <1>2, <2>1 DEF Gradients
<1>4. Corrects(c, f, k, dw, g, h)
  BY <1>2 DEF Corrects
<1>5. Corrects(PageRows(p), f, k, dw, g, h)
  BY <1>4, WholePage DEF c
<1> QED BY <1>3, <1>5 DEF h

(* A step of the intercept corrects every row.                             *)
LEMMA UpdateBiasIs ==
  ASSUME q \in Problems, NEW g \in Gradients, NEW k \in Groups, NEW db \in Int
  PROVE  /\ UpdateBiasResidual(g, k, db) \in Gradients
         /\ \A r \in Rows, j \in Groups :
              UpdateBiasResidual(g, k, db)[r][j] =
                g[r][j] + (IF q.hess[r] >= 0 /\ j = k THEN q.hess[r] * db ELSE 0)
<1> DEFINE h == UpdateBiasResidual(g, k, db)
<1>1. h = [r \in Rows |-> IF q.hess[r] >= 0 THEN [g[r] EXCEPT ![k] = @ + q.hess[r] * db]
                          ELSE g[r]]
  BY DEF UpdateBiasResidual
<1> HIDE DEF h
<1>2. ASSUME NEW r \in Rows
      PROVE  /\ h[r] \in [Groups -> Int]
             /\ \A j \in Groups :
                  h[r][j] = g[r][j] + (IF q.hess[r] >= 0 /\ j = k THEN q.hess[r] * db ELSE 0)
  <2> DEFINE d == q.hess[r] * db
  <2>1. g[r] \in [Groups -> Int]
    BY DEF Gradients
  <2>2. d \in Int
    <3>1. q.hess[r] \in Int
      BY Shape
    <3> QED BY <3>1
  <2>3. h[r] = IF q.hess[r] >= 0 THEN [g[r] EXCEPT ![k] = g[r][k] + d] ELSE g[r]
    BY <1>1
  <2> HIDE DEF d
  <2>4. /\ h[r] \in [Groups -> Int]
        /\ \A j \in Groups : h[r][j] = g[r][j] + (IF q.hess[r] >= 0 /\ j = k THEN d ELSE 0)
    BY <2>1, <2>2, <2>3
  <2> QED BY <2>4 DEF d
<1>3. h \in Gradients
  <2>1. DOMAIN h = Rows /\ h = [r \in Rows |-> h[r]]
    BY <1>1
  <2> QED BY <1>2, <2>1 DEF Gradients
<1> QED BY <1>2, <1>3 DEF h

(* Corrections page after page correct every row once.                     *)
LEMMA PagesRun ==
  ASSUME q \in Problems, NEW f \in Features, NEW k \in Groups, NEW dw \in Int,
         NEW R \in [0 .. NumPages -> Gradients],
         \A p \in 1 .. NumPages : Corrects(PageRows(p), f, k, dw, R[p - 1], R[p])
  PROVE  Corrects(Rows, f, k, dw, R[0], R[NumPages])
<1> DEFINE N == NumPages
           PageOf(r) == ((r - 1) \div q.batch) + 1
           upto(n) == {r \in Rows : PageOf(r) <= n}
           C == {n \in Nat : n <= N => Corrects(upto(n), f, k, dw, R[0], R[n])}
<1>1. N \in Nat /\ \A r \in Rows : PageOf(r) \in 1 .. N
  BY Paged
<1>2. \A p \in 1 .. N, r \in Rows : r \in PageRows(p) <=> PageOf(r) = p
  <2> SUFFICES ASSUME NEW p \in 1 .. N, NEW r \in Rows
               PROVE  r \in PageRows(p) <=> PageOf(r) = p
    OBVIOUS
  <2> DEFINE d == (r - 1) \div q.batch
  <2>1. d + 1 \in 1 .. N
    BY <1>1
  <2>2. r \in PageRows(p) <=> d = p - 1
    BY DEF PageRows
  <2>3. d \in Int
    <3>1. q.batch \in Nat \ {0} /\ r \in Int
      BY Shape
    <3> QED BY <3>1
  <2> HIDE DEF d
  <2>4. p \in Int
    BY <1>1
  <2> QED BY <2>1, <2>2, <2>3, <2>4 DEF d
<1> HIDE DEF PageOf
<1>3. \A n \in 0 .. N : R[n] \in Gradients
  OBVIOUS
<1>4. 0 \in C
  <2>1. 0 \in 0 .. N
    BY <1>1
  <2>2. \A r \in Rows : r \notin upto(0)
    BY <1>1
  <2>3. \A r \in Rows, j \in Groups : R[0][r][j] = R[0][r][j] + 0
    BY <1>3, <2>1 DEF Gradients
  <2> HIDE DEF upto
  <2> QED BY <2>2, <2>3 DEF Corrects
<1>5. ASSUME NEW n \in Nat, n \in C PROVE n + 1 \in C
  <2> DEFINE a == n + 1
  <2> SUFFICES ASSUME a <= N PROVE Corrects(upto(a), f, k, dw, R[0], R[a])
    OBVIOUS
  <2>1. a \in 1 .. N /\ a - 1 = n /\ n \in 0 .. N /\ a \in 0 .. N /\ a \in Nat
    BY <1>1
  <2>2. Corrects(upto(n), f, k, dw, R[0], R[n])
    BY <1>5, <2>1
  <2>3. Corrects(PageRows(a), f, k, dw, R[n], R[a])
    BY <2>1
  <2>4. \A r \in Rows : /\ r \in upto(a) <=> r \in upto(n) \/ r \in PageRows(a)
                        /\ ~(r \in upto(n) /\ r \in PageRows(a))
    <3> SUFFICES ASSUME NEW r \in Rows
                 PROVE  /\ PageOf(r) <= a <=> PageOf(r) <= n \/ r \in PageRows(a)
                        /\ ~(PageOf(r) <= n /\ r \in PageRows(a))
      OBVIOUS
    <3>1. r \in PageRows(a) <=> PageOf(r) = a
      BY <1>2, <2>1
    <3>2. PageOf(r) \in Int
      BY <1>1
    <3> QED BY <2>1, <3>1, <3>2
  <2> HIDE DEF upto, a
  <2>5. ASSUME NEW r \in Rows, NEW j \in Groups
        PROVE  R[a][r][j] = R[0][r][j] + (IF r \in upto(a) /\ j = k THEN Due(r, f, dw) ELSE 0)
    <3> DEFINE u == R[0][r][j]
               v == R[n][r][j]
               w == R[a][r][j]
               d == Due(r, f, dw)
    <3>1. u \in Int /\ v \in Int
      <4>1. 0 \in 0 .. N
        BY <1>1
      <4> QED BY <1>3, <2>1, <4>1 DEF Gradients
    <3>2. d \in Int
      BY DueType
    <3>3. v = u + (IF r \in upto(n) /\ j = k THEN d ELSE 0)
      BY <2>2 DEF Corrects
    <3>4. w = v + (IF r \in PageRows(a) /\ j = k THEN d ELSE 0)
      BY <2>3 DEF Corrects
    <3> HIDE DEF u, v, w, d
    <3>5. w = u + (IF r \in upto(a) /\ j = k THEN d ELSE 0)
      BY <2>4, <3>1, <3>2, <3>3, <3>4
    <3> QED BY <3>5 DEF u, w, d
  <2> QED BY <2>5 DEF Corrects
<1> HIDE DEF C
<1>6. N \in C
  BY <1>1, <1>4, <1>5, NatSetInduction
<1>7. Corrects(upto(N), f, k, dw, R[0], R[N])
  BY <1>1, <1>6 DEF C
<1>8. upto(N) = Rows
  BY <1>1
<1> HIDE DEF upto
<1> QED BY <1>7, <1>8

(* One number of the gradients is changed.                                 *)
Plus(g, r, k, d) == [g EXCEPT ![r][k] = @ + d]

(* Nothing else is.                                                        *)
LEMMA PlusIs ==
  ASSUME NEW g \in Gradients, NEW r \in Rows, NEW k \in Groups, NEW d \in Int
  PROVE  /\ Plus(g, r, k, d) \in Gradients
         /\ \A x \in Rows, j \in Groups :
              Plus(g, r, k, d)[x][j] = IF x = r /\ j = k THEN g[x][j] + d ELSE g[x][j]
<1>1. \A x \in Rows : g[x] \in [Groups -> Int]
  BY DEF Gradients
<1>2. Plus(g, r, k, d) = [g EXCEPT ![r] = [g[r] EXCEPT ![k] = g[r][k] + d]]
  BY DEF Plus
<1> DEFINE u == [g[r] EXCEPT ![k] = g[r][k] + d]
<1>3. /\ u \in [Groups -> Int]
      /\ \A j \in Groups : u[j] = IF j = k THEN g[r][j] + d ELSE g[r][j]
  BY <1>1
<1> HIDE DEF u
<1>4. Plus(g, r, k, d) = [g EXCEPT ![r] = u]
  BY <1>2 DEF u
<1> QED BY <1>3, <1>4 DEF Gradients

(* GpuLinear::update_residual corrects the rows of the page as well.       *)
LEMMA DeviceUpdateIs ==
  ASSUME q \in Problems, NEW g \in Gradients, NEW p, NEW f \in Features, NEW k \in Groups,
         NEW dw \in Int
  PROVE  /\ DeviceResidual(g, p, f, k, dw) \in Gradients
         /\ Corrects(PageRows(p), f, k, dw, g, DeviceResidual(g, p, f, k, dw))
<1> DEFINE c == Column(p, f)
           n == Len(c)
           raw == RawPage(p)
           begin == raw.col_ptr[f]
           len == raw.col_ptr[f + 1] - begin
           of == [m \in 1 .. len |->
                    [row |-> raw.row_idx[begin + m], value |-> raw.value[begin + m]]]
           Put(G, e) == [G EXCEPT ![e.row][k] = @ + Included(e.row, q.hess[e.row] * e.value * dw)]
           step == [e \in (1 .. n) \X Gradients |-> Put(e[2], of[e[1]])]
           E(F) == [S \in SUBSET (1 .. n) |->
                      IF S = {} THEN g ELSE Put(F[S \ {Max(S)}], of[Max(S)])]
           h == CHOOSE F : F = E(F)
<1>1. /\ len = n
      /\ \A m \in 1 .. n : raw.row_idx[begin + m] = c[m] /\ raw.value[begin + m] = q.x[c[m]][f]
  BY RawColumn
<1>2. /\ n \in Nat /\ c \in [1 .. n -> Rows]
      /\ \A a, b \in 1 .. n : c[a] = c[b] => a = b
  BY ColumnIs
<1>3. /\ DeviceResidual(g, p, f, k, dw) =
           FoldLeft(LAMBDA acc, e :
                      [acc EXCEPT ![e.row][k] = @ + Included(e.row, q.hess[e.row] * e.value * dw)],
                    g, of)
      /\ DOMAIN of = 1 .. n
  BY <1>1 DEF DeviceResidual
<1>4. \A m \in 1 .. n : of[m].row = c[m] /\ of[m].value = q.x[c[m]][f]
  BY <1>1
<1> HIDE DEF of, c, raw, begin, len
<1>5. \A G \in Gradients, m \in 1 .. n :
        /\ Put(G, of[m]) \in Gradients
        /\ Put(G, of[m]) = Plus(G, c[m], k, Due(c[m], f, dw))
  <2> SUFFICES ASSUME NEW G \in Gradients, NEW m \in 1 .. n
               PROVE  /\ Put(G, of[m]) \in Gradients
                      /\ Put(G, of[m]) =
                           Plus(G, c[m], k, Due(c[m], f, dw))
    OBVIOUS
  <2>1. c[m] \in Rows /\ q.hess[c[m]] \in Int
    BY <1>2, Shape
  <2>2. Included(c[m], q.hess[c[m]] * q.x[c[m]][f] * dw) = Due(c[m], f, dw)
    BY <2>1 DEF Included, Due
  <2>3. Put(G, of[m]) = Plus(G, c[m], k, Due(c[m], f, dw))
    <3> DEFINE e == of[m]
    <3>1. e.row = c[m] /\ e.value = q.x[c[m]][f]
      BY <1>4
    <3>2. Put(G, e) = Plus(G, e.row, k, Included(e.row, q.hess[e.row] * e.value * dw))
      BY DEF Plus
    <3> HIDE DEF e, Put
    <3>3. Put(G, e) = Plus(G, c[m], k, Due(c[m], f, dw))
      BY <2>2, <3>1, <3>2
    <3> QED BY <3>3 DEF e
  <2>4. Due(c[m], f, dw) \in Int
    BY <2>1, DueType
  <2>5. Plus(G, c[m], k, Due(c[m], f, dw)) \in Gradients
    BY <2>1, <2>4, PlusIs
  <2> QED BY <2>3, <2>5
<1>6. /\ step \in [(1 .. n) \X Gradients -> Gradients]
      /\ \A m \in 1 .. n, G \in Gradients : step[<<m, G>>] = Put(G, of[m])
  <2>1. \A e \in (1 .. n) \X Gradients : e[1] \in 1 .. n /\ e[2] \in Gradients
    OBVIOUS
  <2> HIDE DEF n, Put
  <2>2. \A e \in (1 .. n) \X Gradients : Put(e[2], of[e[1]]) \in Gradients
    BY <1>5, <2>1
  <2> QED BY <2>2
<1> HIDE DEF step
<1>7. PICK F \in [SUBSET (1 .. n) -> Gradients] : FoldOn(n, g, step, F)
  <2> HIDE DEF E, h, n
  <2> QED BY <1>2, <1>6, FoldExists, Zenon
<1>8. F = E(F)
  <2> HIDE DEF Put, n
  <2>1. ASSUME NEW S \in SUBSET (1 .. n)
        PROVE  F[S] = IF S = {} THEN g ELSE Put(F[S \ {Max(S)}], of[Max(S)])
    <3>1. CASE S = {}
      BY <1>7, <3>1 DEF FoldOn
    <3>2. CASE S # {}
      <4>1. F[S] = step[<<Max(S), F[S \ {Max(S)}]>>]
        BY <1>7, <3>2 DEF FoldOn
      <4>2. Max(S) \in 1 .. n /\ F[S \ {Max(S)}] \in Gradients
        BY <1>2, <3>2, MaxIn
      <4> QED BY <1>6, <3>2, <4>1, <4>2
    <3> QED BY <3>1, <3>2
  <2> QED BY <2>1
<1>9. h = E(h)
  <2> HIDE DEF E
  <2> QED BY <1>8
<1>10. DeviceResidual(g, p, f, k, dw) = h[1 .. n]
  BY <1>3 DEF FoldLeft, MapThenFoldSet
<1> HIDE DEF h
<1>11. Folds(n, Gradients, g, step, h)
  <2> HIDE DEF Put, n
  <2>1. h[{}] = g
    BY <1>9
  <2>2. ASSUME NEW S \in SUBSET (1 .. n), S # {}, h[S \ {Max(S)}] \in Gradients
        PROVE  h[S] = step[<<Max(S), h[S \ {Max(S)}]>>]
    <3>1. h[S] = Put(h[S \ {Max(S)}], of[Max(S)])
      BY <1>9, <2>2
    <3> QED BY MaxIn, <1>2, <1>6, <2>2, <3>1
  <2> HIDE DEF E
  <2> QED BY <2>1, <2>2 DEF Folds
<1>12. Result(n, Gradients, g, step, h[1 .. n])
  <2> HIDE DEF n
  <2> QED BY <1>2, <1>6, <1>11, RunOf
<1>13. PICK R \in [0 .. n -> Gradients] :
        /\ R[0] = g /\ R[n] = h[1 .. n]
        /\ \A m \in 1 .. n : R[m] = step[<<m, R[m - 1]>>]
  BY <1>12 DEF Result
<1> DEFINE rows(m) == {c[a] : a \in 1 .. m}
           C == {m \in Nat : m <= n => Corrects(rows(m), f, k, dw, g, R[m])}
<1> HIDE DEF n
<1>14. 0 \in C
  <2>1. \A r \in Rows : r \notin rows(0)
    OBVIOUS
  <2>2. \A r \in Rows, j \in Groups : g[r][j] = g[r][j] + 0
    BY DEF Gradients
  <2> HIDE DEF rows
  <2> QED BY <1>13, <2>1, <2>2 DEF Corrects
<1>15. ASSUME NEW m \in Nat, m \in C PROVE m + 1 \in C
  <2> DEFINE a == m + 1
  <2> SUFFICES ASSUME a <= n PROVE Corrects(rows(a), f, k, dw, g, R[a])
    OBVIOUS
  <2>1. a \in 1 .. n /\ a - 1 = m /\ m \in 0 .. n
    BY <1>2
  <2>2. Corrects(rows(m), f, k, dw, g, R[m])
    BY <1>15, <2>1
  <2>3. \A r \in Rows : /\ r \in rows(a) <=> r \in rows(m) \/ r = c[a]
                        /\ ~(r \in rows(m) /\ r = c[a])
    <3>1. \A b \in 1 .. a : b \in 1 .. m \/ b = a
      OBVIOUS
    <3>2. \A b \in 1 .. m : b \in 1 .. n /\ b # a /\ b \in 1 .. a
      BY <1>2, <2>1
    <3>3. rows(a) = rows(m) \cup {c[a]}
      BY <3>1, <3>2
    <3>4. c[a] \notin rows(m)
      BY <1>2, <2>1, <3>2
    <3> QED BY <3>3, <3>4
  <2>4. R[m] \in Gradients /\ c[a] \in Rows
    BY <1>2, <2>1
  <2>5. R[a] = Plus(R[m], c[a], k, Due(c[a], f, dw))
    <3>1. R[a] = step[<<a, R[m]>>]
      BY <1>13, <2>1
    <3>2. step[<<a, R[m]>>] = Put(R[m], of[a])
      BY <1>6, <2>1, <2>4
    <3> HIDE DEF Put, a
    <3>3. Put(R[m], of[a]) = Plus(R[m], c[a], k, Due(c[a], f, dw))
      BY <1>5, <2>1, <2>4
    <3> QED BY <3>1, <3>2, <3>3
  <2> HIDE DEF rows, a
  <2>6. ASSUME NEW r \in Rows, NEW j \in Groups
        PROVE  R[a][r][j] = g[r][j] + (IF r \in rows(a) /\ j = k THEN Due(r, f, dw) ELSE 0)
    <3> DEFINE u == g[r][j]
               v == R[m][r][j]
               w == R[a][r][j]
               d == Due(r, f, dw)
    <3>1. u \in Int /\ v \in Int
      BY <2>4 DEF Gradients
    <3>2. d \in Int
      BY DueType
    <3>3. v = u + (IF r \in rows(m) /\ j = k THEN d ELSE 0)
      BY <2>2 DEF Corrects
    <3>4. w = v + (IF r = c[a] /\ j = k THEN d ELSE 0)
      <4>1. w = IF r = c[a] /\ j = k THEN v + Due(c[a], f, dw) ELSE v
        <5>1. Due(c[a], f, dw) \in Int
          BY <2>4, DueType
        <5>2. \A x \in Rows, z \in Groups :
                Plus(R[m], c[a], k, Due(c[a], f, dw))[x][z] =
                  IF x = c[a] /\ z = k THEN R[m][x][z] + Due(c[a], f, dw) ELSE R[m][x][z]
          <6> DEFINE G == R[m]
                     y0 == c[a]
                     d0 == Due(c[a], f, dw)
          <6>1. G \in Gradients /\ y0 \in Rows /\ d0 \in Int
            BY <2>4, <5>1
          <6> HIDE DEF G, y0, d0
          <6>2. \A x \in Rows, z \in Groups :
                  Plus(G, y0, k, d0)[x][z] = IF x = y0 /\ z = k THEN G[x][z] + d0 ELSE G[x][z]
            BY <6>1, PlusIs, SMTT(40)
          <6> QED BY <6>2 DEF G, y0, d0
        <5> QED BY <2>5, <5>2
      <4>2. w = IF r = c[a] /\ j = k THEN v + d ELSE v
        BY <4>1
      <4> HIDE DEF d, v, w
      <4> QED BY <3>1, <4>2
    <3> HIDE DEF u, v, w, d
    <3>5. w = u + (IF r \in rows(a) /\ j = k THEN d ELSE 0)
      BY <2>3, <3>1, <3>2, <3>3, <3>4
    <3> QED BY <3>5 DEF u, w, d
  <2> QED BY <2>6 DEF Corrects
<1> HIDE DEF C
<1>16. n \in C
  BY <1>2, <1>14, <1>15, NatSetInduction
<1>17. Corrects(rows(n), f, k, dw, g, R[n])
  BY <1>16 DEF C
<1>18. rows(n) = ToSet(c)
  BY <1>2 DEF ToSet
<1>19. R[n] \in Gradients
  BY <1>2
<1> HIDE DEF rows
<1>20. Corrects(ToSet(Column(p, f)), f, k, dw, g, DeviceResidual(g, p, f, k, dw))
  BY <1>10, <1>13, <1>17, <1>18 DEF c
<1>21. Corrects(PageRows(p), f, k, dw, g, DeviceResidual(g, p, f, k, dw))
  BY <1>20, WholePage
<1> QED BY <1>10, <1>13, <1>19, <1>21

(* coord_descent corrects the gradients page after page: every row once.  *)
CoordCorrected(g, f, k, dw) == OnAllPages(LAMBDA h, p : UpdateResidual(h, p, f, k, dw), g)

LEMMA CoordPages ==
  ASSUME q \in Problems, NEW g \in Gradients, NEW f \in Features, NEW k \in Groups,
         NEW dw \in Int
  PROVE  /\ CoordCorrected(g, f, k, dw) \in Gradients
         /\ Corrects(Rows, f, k, dw, g, CoordCorrected(g, f, k, dw))
<1> DEFINE n == NumPages
           seq == [p \in 1 .. n |-> p]
           Put(G, p) == UpdateResidual(G, p, f, k, dw)
           step == [e \in (1 .. n) \X Gradients |-> Put(e[2], e[1])]
           E(F) == [S \in SUBSET (1 .. n) |->
                      IF S = {} THEN g ELSE Put(F[S \ {Max(S)}], seq[Max(S)])]
           h == CHOOSE F : F = E(F)
<1>1. n \in Nat
  BY Paged
<1>2. CoordCorrected(g, f, k, dw) = FoldLeft(LAMBDA G, p : UpdateResidual(G, p, f, k, dw), g, seq)
  BY DEF CoordCorrected, OnAllPages
<1>3. DOMAIN seq = 1 .. n /\ \A p \in 1 .. n : seq[p] = p
  OBVIOUS
<1>4. \A G \in Gradients, p \in 1 .. n :
        Put(G, p) \in Gradients /\ Corrects(PageRows(p), f, k, dw, G, Put(G, p))
  BY UpdateIs
<1> HIDE DEF n, seq
<1>5. /\ step \in [(1 .. n) \X Gradients -> Gradients]
      /\ \A p \in 1 .. n, G \in Gradients : step[<<p, G>>] = Put(G, p)
  <2>1. \A e \in (1 .. n) \X Gradients : e[1] \in 1 .. n /\ e[2] \in Gradients
    OBVIOUS
  <2> HIDE DEF Put
  <2>2. \A e \in (1 .. n) \X Gradients : Put(e[2], e[1]) \in Gradients
    BY <1>4, <2>1
  <2> QED BY <2>2
<1> HIDE DEF step
<1>6. PICK F \in [SUBSET (1 .. n) -> Gradients] : FoldOn(n, g, step, F)
  <2> HIDE DEF E, h
  <2> QED BY <1>1, <1>5, FoldExists, Zenon
<1>7. F = E(F)
  <2> HIDE DEF Put
  <2>1. ASSUME NEW S \in SUBSET (1 .. n)
        PROVE  F[S] = IF S = {} THEN g ELSE Put(F[S \ {Max(S)}], seq[Max(S)])
    <3>1. CASE S = {}
      BY <1>6, <3>1 DEF FoldOn
    <3>2. CASE S # {}
      <4>1. F[S] = step[<<Max(S), F[S \ {Max(S)}]>>]
        BY <1>6, <3>2 DEF FoldOn
      <4>2. Max(S) \in 1 .. n /\ F[S \ {Max(S)}] \in Gradients
        BY <1>1, <3>2, MaxIn
      <4> QED BY <1>3, <1>5, <3>2, <4>1, <4>2
    <3> QED BY <3>1, <3>2
  <2> QED BY <2>1
<1>8. h = E(h)
  <2> HIDE DEF E
  <2> QED BY <1>7
<1>9. CoordCorrected(g, f, k, dw) = h[1 .. n]
  BY <1>2, <1>3 DEF FoldLeft, MapThenFoldSet
<1> HIDE DEF h
<1>10. Folds(n, Gradients, g, step, h)
  <2> HIDE DEF Put
  <2>1. h[{}] = g
    BY <1>8
  <2>2. ASSUME NEW S \in SUBSET (1 .. n), S # {}, h[S \ {Max(S)}] \in Gradients
        PROVE  h[S] = step[<<Max(S), h[S \ {Max(S)}]>>]
    <3>1. h[S] = Put(h[S \ {Max(S)}], seq[Max(S)])
      BY <1>8, <2>2
    <3> QED BY MaxIn, <1>1, <1>3, <1>5, <2>2, <3>1, ZenonT(40)
  <2> HIDE DEF E
  <2> QED BY <2>1, <2>2 DEF Folds
<1>11. Result(n, Gradients, g, step, h[1 .. n])
  BY <1>1, <1>5, <1>10, RunOf
<1>12. PICK R \in [0 .. n -> Gradients] :
        /\ R[0] = g /\ R[n] = h[1 .. n]
        /\ \A p \in 1 .. n : R[p] = step[<<p, R[p - 1]>>]
  BY <1>11 DEF Result
<1>13. ASSUME NEW p \in 1 .. n PROVE Corrects(PageRows(p), f, k, dw, R[p - 1], R[p])
  <2>1. p - 1 \in 0 .. n
    BY <1>1
  <2>2. R[p - 1] \in Gradients
    BY <2>1
  <2> HIDE DEF Put
  <2>3. R[p] = Put(R[p - 1], p)
    BY <1>5, <1>12, <2>2
  <2> QED BY <1>4, <2>2, <2>3
<1>14. Corrects(Rows, f, k, dw, R[0], R[n])
  <2>1. R \in [0 .. NumPages -> Gradients]
    BY DEF n
  <2>2. \A p \in 1 .. NumPages : Corrects(PageRows(p), f, k, dw, R[p - 1], R[p])
    BY <1>13 DEF n
  <2> QED BY <2>1, <2>2, PagesRun DEF n
<1>15. R[n] \in Gradients
  BY <1>1
<1> QED BY <1>9, <1>12, <1>14, <1>15

(* And so does the device.                                                *)
DeviceCorrected(g, f, k, dw) == OnAllPages(LAMBDA h, p : DeviceResidual(h, p, f, k, dw), g)

LEMMA DevicePages ==
  ASSUME q \in Problems, NEW g \in Gradients, NEW f \in Features, NEW k \in Groups,
         NEW dw \in Int
  PROVE  /\ DeviceCorrected(g, f, k, dw) \in Gradients
         /\ Corrects(Rows, f, k, dw, g, DeviceCorrected(g, f, k, dw))
<1> DEFINE n == NumPages
           seq == [p \in 1 .. n |-> p]
           Put(G, p) == DeviceResidual(G, p, f, k, dw)
           step == [e \in (1 .. n) \X Gradients |-> Put(e[2], e[1])]
           E(F) == [S \in SUBSET (1 .. n) |->
                      IF S = {} THEN g ELSE Put(F[S \ {Max(S)}], seq[Max(S)])]
           h == CHOOSE F : F = E(F)
<1>1. n \in Nat
  BY Paged
<1>2. DeviceCorrected(g, f, k, dw) = FoldLeft(LAMBDA G, p : DeviceResidual(G, p, f, k, dw), g, seq)
  BY DEF DeviceCorrected, OnAllPages
<1>3. DOMAIN seq = 1 .. n /\ \A p \in 1 .. n : seq[p] = p
  OBVIOUS
<1>4. \A G \in Gradients, p \in 1 .. n :
        Put(G, p) \in Gradients /\ Corrects(PageRows(p), f, k, dw, G, Put(G, p))
  BY DeviceUpdateIs
<1> HIDE DEF n, seq
<1>5. /\ step \in [(1 .. n) \X Gradients -> Gradients]
      /\ \A p \in 1 .. n, G \in Gradients : step[<<p, G>>] = Put(G, p)
  <2>1. \A e \in (1 .. n) \X Gradients : e[1] \in 1 .. n /\ e[2] \in Gradients
    OBVIOUS
  <2> HIDE DEF Put
  <2>2. \A e \in (1 .. n) \X Gradients : Put(e[2], e[1]) \in Gradients
    BY <1>4, <2>1
  <2> QED BY <2>2
<1> HIDE DEF step
<1>6. PICK F \in [SUBSET (1 .. n) -> Gradients] : FoldOn(n, g, step, F)
  <2> HIDE DEF E, h
  <2> QED BY <1>1, <1>5, FoldExists, Zenon
<1>7. F = E(F)
  <2> HIDE DEF Put
  <2>1. ASSUME NEW S \in SUBSET (1 .. n)
        PROVE  F[S] = IF S = {} THEN g ELSE Put(F[S \ {Max(S)}], seq[Max(S)])
    <3>1. CASE S = {}
      BY <1>6, <3>1 DEF FoldOn
    <3>2. CASE S # {}
      <4>1. F[S] = step[<<Max(S), F[S \ {Max(S)}]>>]
        BY <1>6, <3>2 DEF FoldOn
      <4>2. Max(S) \in 1 .. n /\ F[S \ {Max(S)}] \in Gradients
        BY <1>1, <3>2, MaxIn
      <4> QED BY <1>3, <1>5, <3>2, <4>1, <4>2
    <3> QED BY <3>1, <3>2
  <2> QED BY <2>1
<1>8. h = E(h)
  <2> HIDE DEF E
  <2> QED BY <1>7
<1>9. DeviceCorrected(g, f, k, dw) = h[1 .. n]
  BY <1>2, <1>3 DEF FoldLeft, MapThenFoldSet
<1> HIDE DEF h
<1>10. Folds(n, Gradients, g, step, h)
  <2> HIDE DEF Put
  <2>1. h[{}] = g
    BY <1>8
  <2>2. ASSUME NEW S \in SUBSET (1 .. n), S # {}, h[S \ {Max(S)}] \in Gradients
        PROVE  h[S] = step[<<Max(S), h[S \ {Max(S)}]>>]
    <3>1. h[S] = Put(h[S \ {Max(S)}], seq[Max(S)])
      BY <1>8, <2>2
    <3> QED BY MaxIn, <1>1, <1>3, <1>5, <2>2, <3>1, ZenonT(40)
  <2> HIDE DEF E
  <2> QED BY <2>1, <2>2 DEF Folds
<1>11. Result(n, Gradients, g, step, h[1 .. n])
  BY <1>1, <1>5, <1>10, RunOf
<1>12. PICK R \in [0 .. n -> Gradients] :
        /\ R[0] = g /\ R[n] = h[1 .. n]
        /\ \A p \in 1 .. n : R[p] = step[<<p, R[p - 1]>>]
  BY <1>11 DEF Result
<1>13. ASSUME NEW p \in 1 .. n PROVE Corrects(PageRows(p), f, k, dw, R[p - 1], R[p])
  <2>1. p - 1 \in 0 .. n
    BY <1>1
  <2>2. R[p - 1] \in Gradients
    BY <2>1
  <2> HIDE DEF Put
  <2>3. R[p] = Put(R[p - 1], p)
    BY <1>5, <1>12, <2>2
  <2> QED BY <1>4, <2>2, <2>3
<1>14. Corrects(Rows, f, k, dw, R[0], R[n])
  <2>1. R \in [0 .. NumPages -> Gradients]
    BY DEF n
  <2>2. \A p \in 1 .. NumPages : Corrects(PageRows(p), f, k, dw, R[p - 1], R[p])
    BY <1>13 DEF n
  <2> QED BY <2>1, <2>2, PagesRun DEF n
<1>15. R[n] \in Gradients
  BY <1>1
<1> QED BY <1>9, <1>12, <1>14, <1>15

(* What shotgun does to the gradients: the page is corrected for one group *)
(* after the other.                                                        *)
ShotgunCorrected(g, p, f, dw) ==
  FoldLeft(LAMBDA G, j : UpdateResidual(G, p, f, j, dw[j]), g, [j \in Groups |-> j])

LEMMA ShotgunIs ==
  ASSUME q \in Problems, NEW g \in Gradients, NEW p, NEW f \in Features,
         NEW dw \in [Groups -> Int]
  PROVE  /\ ShotgunCorrected(g, p, f, dw) \in Gradients
         /\ \A r \in Rows, j \in Groups :
              ShotgunCorrected(g, p, f, dw)[r][j] =
                g[r][j] + (IF r \in PageRows(p) THEN Due(r, f, dw[j]) ELSE 0)
<1> DEFINE n == q.groups
           seq == [j \in Groups |-> j]
           Put(G, j) == UpdateResidual(G, p, f, j, dw[j])
           step == [e \in (1 .. n) \X Gradients |-> Put(e[2], e[1])]
           E(F) == [S \in SUBSET (1 .. n) |->
                      IF S = {} THEN g ELSE Put(F[S \ {Max(S)}], seq[Max(S)])]
           h == CHOOSE F : F = E(F)
<1>1. n \in Nat /\ Groups = 1 .. n
  BY Shape
<1>2. ShotgunCorrected(g, p, f, dw) =
        FoldLeft(LAMBDA G, j : UpdateResidual(G, p, f, j, dw[j]), g, seq)
  BY DEF ShotgunCorrected
<1>3. DOMAIN seq = 1 .. n /\ \A j \in 1 .. n : seq[j] = j
  BY <1>1
<1>4. ASSUME NEW G \in Gradients, NEW j \in 1 .. n
      PROVE  Put(G, j) \in Gradients /\ Corrects(PageRows(p), f, j, dw[j], G, Put(G, j))
  <2>1. j \in Groups /\ dw[j] \in Int
    BY <1>1
  <2> QED BY <2>1, UpdateIs
<1> HIDE DEF n, seq
<1>5. /\ step \in [(1 .. n) \X Gradients -> Gradients]
      /\ \A j \in 1 .. n, G \in Gradients : step[<<j, G>>] = Put(G, j)
  <2>1. \A e \in (1 .. n) \X Gradients : e[1] \in 1 .. n /\ e[2] \in Gradients
    OBVIOUS
  <2> HIDE DEF Put
  <2>2. \A e \in (1 .. n) \X Gradients : Put(e[2], e[1]) \in Gradients
    BY <1>4, <2>1
  <2> QED BY <2>2
<1> HIDE DEF step
<1>6. PICK F \in [SUBSET (1 .. n) -> Gradients] : FoldOn(n, g, step, F)
  <2> HIDE DEF E, h
  <2> QED BY <1>1, <1>5, FoldExists, Zenon
<1>7. F = E(F)
  <2> HIDE DEF Put
  <2>1. ASSUME NEW S \in SUBSET (1 .. n)
        PROVE  F[S] = IF S = {} THEN g ELSE Put(F[S \ {Max(S)}], seq[Max(S)])
    <3>1. CASE S = {}
      BY <1>6, <3>1 DEF FoldOn
    <3>2. CASE S # {}
      <4>1. F[S] = step[<<Max(S), F[S \ {Max(S)}]>>]
        BY <1>6, <3>2 DEF FoldOn
      <4>2. Max(S) \in 1 .. n /\ F[S \ {Max(S)}] \in Gradients
        BY <1>1, <3>2, MaxIn
      <4> QED BY <1>3, <1>5, <3>2, <4>1, <4>2
    <3> QED BY <3>1, <3>2
  <2> QED BY <2>1
<1>8. h = E(h)
  <2> HIDE DEF E
  <2> QED BY <1>7
<1>9. ShotgunCorrected(g, p, f, dw) = h[1 .. n]
  BY <1>2, <1>3 DEF FoldLeft, MapThenFoldSet
<1> HIDE DEF h
<1>10. Folds(n, Gradients, g, step, h)
  <2> HIDE DEF Put
  <2>1. h[{}] = g
    BY <1>8
  <2>2. ASSUME NEW S \in SUBSET (1 .. n), S # {}, h[S \ {Max(S)}] \in Gradients
        PROVE  h[S] = step[<<Max(S), h[S \ {Max(S)}]>>]
    <3>1. h[S] = Put(h[S \ {Max(S)}], seq[Max(S)])
      BY <1>8, <2>2
    <3> QED BY MaxIn, <1>1, <1>3, <1>5, <2>2, <3>1, ZenonT(40)
  <2> HIDE DEF E
  <2> QED BY <2>1, <2>2 DEF Folds
<1>11. Result(n, Gradients, g, step, h[1 .. n])
  BY <1>1, <1>5, <1>10, RunOf
<1>12. PICK R \in [0 .. n -> Gradients] :
        /\ R[0] = g /\ R[n] = h[1 .. n]
        /\ \A j \in 1 .. n : R[j] = step[<<j, R[j - 1]>>]
  BY <1>11 DEF Result
<1> DEFINE Upto(m) ==
             \A r \in Rows, j \in Groups :
               R[m][r][j] = g[r][j] + (IF r \in PageRows(p) /\ j <= m THEN Due(r, f, dw[j]) ELSE 0)
           C == {m \in Nat : m <= n => Upto(m)}
<1>13. 0 \in C
  <2>1. Upto(0)
    <3> SUFFICES ASSUME NEW r \in Rows, NEW j \in Groups
                 PROVE  R[0][r][j] = g[r][j] + (IF r \in PageRows(p) /\ j <= 0
                                                THEN Due(r, f, dw[j]) ELSE 0)
      OBVIOUS
    <3>1. ~(j <= 0) /\ g[r][j] \in Int
      BY <1>1 DEF Gradients
    <3> QED BY <1>12, <3>1
  <2> HIDE DEF Upto
  <2> QED BY <2>1
<1>14. ASSUME NEW m \in Nat, m \in C PROVE m + 1 \in C
  <2> DEFINE a == m + 1
  <2> HIDE DEF Upto
  <2> SUFFICES ASSUME a <= n PROVE Upto(a)
    OBVIOUS
  <2>1. a \in 1 .. n /\ a - 1 = m /\ m \in 0 .. n /\ a = m + 1
    BY <1>1
  <2>2. Upto(m)
    BY <1>14, <2>1
  <2>3. R[m] \in Gradients
    BY <2>1
  <2> HIDE DEF a, C
  <2>4. Corrects(PageRows(p), f, a, dw[a], R[m], R[a])
    <3>1. R[a] = step[<<a, R[m]>>]
      BY <1>12, <2>1
    <3> HIDE DEF Put
    <3>2. R[a] = Put(R[m], a)
      BY <1>5, <2>1, <2>3, <3>1
    <3> QED BY <1>4, <2>1, <2>3, <3>2
  <2>5. ASSUME NEW r \in Rows, NEW j \in Groups
        PROVE  R[a][r][j] = g[r][j] + (IF r \in PageRows(p) /\ j <= a
                                       THEN Due(r, f, dw[j]) ELSE 0)
    <3> DEFINE u == g[r][j]
               v == R[m][r][j]
               w == R[a][r][j]
               d == Due(r, f, dw[j])
    <3>1. u \in Int /\ v \in Int
      BY <2>3 DEF Gradients
    <3>2. d \in Int
      <4>1. dw[j] \in Int
        OBVIOUS
      <4> QED BY <4>1, DueType
    <3>3. v = u + (IF r \in PageRows(p) /\ j <= m THEN d ELSE 0)
      BY <2>2 DEF Upto
    <3>4. w = v + (IF r \in PageRows(p) /\ j = a THEN d ELSE 0)
      BY <2>4 DEF Corrects
    <3>5. j \in Int
      BY <1>1
    <3> HIDE DEF u, v, w, d
    <3>6. w = u + (IF r \in PageRows(p) /\ j <= a THEN d ELSE 0)
      BY <2>1, <3>1, <3>2, <3>3, <3>4, <3>5
    <3> QED BY <3>6 DEF u, w, d
  <2> QED BY <2>5 DEF Upto
<1> HIDE DEF C, Upto
<1>15. n \in C
  BY <1>1, <1>13, <1>14, NatSetInduction
<1>16. Upto(n)
  BY <1>1, <1>15 DEF C
<1>17. R[n] \in Gradients /\ \A j \in Groups : j <= n
  BY <1>1
<1> QED BY <1>9, <1>12, <1>16, <1>17 DEF Upto

-----------------------------------------------------------------------------
(* The sizes of steps.                                                     *)

(* Being no larger is transitive.                                          *)
LEMMA NotLarger ==
  ASSUME NEW a \in Steps, NEW b \in Steps, NEW c \in Steps, ~Larger(c, b), ~Larger(b, a)
  PROVE  ~Larger(c, a)
<1> DEFINE an == Abs(a.num)
           bn == Abs(b.num)
           cn == Abs(c.num)
           ad == a.den
           bd == b.den
           cd == c.den
<1>1. /\ an \in Nat /\ bn \in Nat /\ cn \in Nat
      /\ ad \in Nat \ {0} /\ bd \in Nat \ {0} /\ cd \in Nat \ {0}
  BY DEF Steps, Abs
<1>2. ~(cn * bd > bn * cd) /\ ~(bn * ad > an * bd)
  BY DEF Larger
<1>3. Larger(c, a) <=> cn * ad > an * cd
  BY DEF Larger
<1> HIDE DEF an, bn, cn, ad, bd, cd
<1>4. /\ cn * bd \in Int /\ bn * cd \in Int /\ bn * ad \in Int /\ an * bd \in Int
      /\ cn * ad \in Int /\ an * cd \in Int
  BY <1>1
<1>5. cn * bd <= bn * cd /\ bn * ad <= an * bd
  BY <1>2, <1>4
<1>6. (cn * bd) * ad <= (bn * cd) * ad
  BY <1>1, <1>4, <1>5, Monotone
<1>7. (bn * ad) * cd <= (an * bd) * cd
  BY <1>1, <1>4, <1>5, Monotone
<1>8. /\ (cn * bd) * ad = (cn * ad) * bd /\ (bn * cd) * ad = (bn * ad) * cd
      /\ (an * bd) * cd = (an * cd) * bd
  BY <1>1
<1> DEFINE X == cn * ad
           Y == an * cd
<1>9. X \in Int /\ Y \in Int /\ X * bd \in Int /\ Y * bd \in Int
  BY <1>1
<1>10. (bn * ad) * cd \in Int
  BY <1>1, <1>4
<1>11. X * bd <= Y * bd
  BY <1>6, <1>7, <1>8, <1>9, <1>10
<1>12. ~(X > Y)
  <2> HIDE DEF X, Y
  <2> SUFFICES ASSUME X > Y PROVE FALSE
    OBVIOUS
  <2>1. (Y + 1) * bd <= X * bd
    BY <1>1, <1>9, Monotone
  <2>2. (Y + 1) * bd = Y * bd + bd
    BY <1>1, <1>9
  <2> QED BY <1>1, <1>9, <1>11, <2>1, <2>2
<1> QED BY <1>3, <1>12

(* No step is larger than itself, and of two at most one is larger.        *)
LEMMA LargerOnce ==
  ASSUME NEW a \in Steps, NEW b \in Steps, Larger(a, b)
  PROVE  ~Larger(b, a)
<1> DEFINE an == Abs(a.num) * b.den
           bn == Abs(b.num) * a.den
<1>1. an > bn /\ (Larger(b, a) <=> bn > an)
  BY DEF Larger
<1>2. Abs(a.num) \in Int /\ Abs(b.num) \in Int /\ a.den \in Int /\ b.den \in Int
  BY DEF Steps, Abs
<1>3. an \in Int /\ bn \in Int
  BY <1>2
<1> HIDE DEF an, bn
<1> QED BY <1>1, <1>3

(* The loop of the greedy selector over the steps of the features.         *)
LargestOf(st) ==
  FoldLeft(LAMBDA best, f : IF Larger(st[f], st[best]) THEN f ELSE best, 1,
           [f \in Features |-> f])

(* The greedy selector's loop ends at a feature whose step is largest.     *)
LEMMA LargestIs ==
  ASSUME q \in Problems, NEW st \in [Features -> Steps]
  PROVE  /\ LargestOf(st) \in Features
         /\ \A f \in Features : ~Larger(st[f], st[LargestOf(st)])
<1> DEFINE n == Len(q.x[1])
           seq == [f \in Features |-> f]
           Put(best, f) == IF Larger(st[f], st[best]) THEN f ELSE best
           step == [e \in (1 .. n) \X Features |-> Put(e[2], e[1])]
           E(F) == [S \in SUBSET (1 .. n) |->
                      IF S = {} THEN 1 ELSE Put(F[S \ {Max(S)}], seq[Max(S)])]
           h == CHOOSE F : F = E(F)
<1>1. n \in Nat \ {0} /\ Features = 1 .. n /\ 1 \in Features
  BY Shape
<1>2. LargestOf(st) =
        FoldLeft(LAMBDA best, f : IF Larger(st[f], st[best]) THEN f ELSE best, 1, seq)
  BY DEF LargestOf
<1>3. DOMAIN seq = 1 .. n /\ \A f \in 1 .. n : seq[f] = f
  BY <1>1
<1>4. \A best \in Features, f \in 1 .. n : Put(best, f) \in Features
  BY <1>1
<1> HIDE DEF n, seq
<1>5. /\ step \in [(1 .. n) \X Features -> Features]
      /\ \A f \in 1 .. n, best \in Features : step[<<f, best>>] = Put(best, f)
  <2>1. \A e \in (1 .. n) \X Features : e[1] \in 1 .. n /\ e[2] \in Features
    OBVIOUS
  <2> HIDE DEF Put
  <2>2. \A e \in (1 .. n) \X Features : Put(e[2], e[1]) \in Features
    BY <1>4, <2>1
  <2> QED BY <2>2
<1> HIDE DEF step
<1>6. PICK F \in [SUBSET (1 .. n) -> Features] : FoldOn(n, 1, step, F)
  <2> HIDE DEF E, h
  <2> QED BY <1>1, <1>5, FoldExists, Zenon
<1>7. F = E(F)
  <2> HIDE DEF Put
  <2>1. ASSUME NEW S \in SUBSET (1 .. n)
        PROVE  F[S] = IF S = {} THEN 1 ELSE Put(F[S \ {Max(S)}], seq[Max(S)])
    <3>1. CASE S = {}
      BY <1>6, <3>1 DEF FoldOn
    <3>2. CASE S # {}
      <4>1. F[S] = step[<<Max(S), F[S \ {Max(S)}]>>]
        BY <1>6, <3>2 DEF FoldOn
      <4>2. Max(S) \in 1 .. n /\ F[S \ {Max(S)}] \in Features
        BY <1>1, <3>2, MaxIn
      <4> QED BY <1>3, <1>5, <3>2, <4>1, <4>2
    <3> QED BY <3>1, <3>2
  <2> QED BY <2>1
<1>8. h = E(h)
  <2> HIDE DEF E
  <2> QED BY <1>7
<1>9. LargestOf(st) = h[1 .. n]
  BY <1>2, <1>3 DEF FoldLeft, MapThenFoldSet
<1> HIDE DEF h
<1>10. Folds(n, Features, 1, step, h)
  <2> HIDE DEF Put
  <2>1. h[{}] = 1
    BY <1>8
  <2>2. ASSUME NEW S \in SUBSET (1 .. n), S # {}, h[S \ {Max(S)}] \in Features
        PROVE  h[S] = step[<<Max(S), h[S \ {Max(S)}]>>]
    <3>1. h[S] = Put(h[S \ {Max(S)}], seq[Max(S)])
      BY <1>8, <2>2
    <3>2. Max(S) \in 1 .. n
      BY MaxIn, <1>1, <2>2
    <3> QED BY <1>3, <1>5, <2>2, <3>1, <3>2
  <2> HIDE DEF E
  <2> QED BY <2>1, <2>2 DEF Folds
<1>11. Result(n, Features, 1, step, h[1 .. n])
  BY <1>1, <1>5, <1>10, RunOf
<1>12. PICK R \in [0 .. n -> Features] :
        /\ R[0] = 1 /\ R[n] = h[1 .. n]
        /\ \A f \in 1 .. n : R[f] = step[<<f, R[f - 1]>>]
  BY <1>11 DEF Result
<1> DEFINE Upto(m) == \A f \in 1 .. m : ~Larger(st[f], st[R[m]])
           C == {m \in Nat : m <= n => Upto(m)}
<1>13. 0 \in C
  OBVIOUS
<1>14. ASSUME NEW m \in Nat, m \in C PROVE m + 1 \in C
  <2> DEFINE a == m + 1
  <2> HIDE DEF Upto
  <2> SUFFICES ASSUME a <= n PROVE Upto(a)
    OBVIOUS
  <2>1. a \in 1 .. n /\ a - 1 = m /\ m \in 0 .. n /\ a = m + 1
    BY <1>1
  <2>2. Upto(m)
    BY <1>14, <2>1
  <2>3. R[m] \in Features /\ a \in Features
    BY <1>1, <2>1
  <2> HIDE DEF a, C
  <2>4. R[a] = Put(R[m], a)
    <3>1. R[a] = step[<<a, R[m]>>]
      BY <1>12, <2>1
    <3> HIDE DEF Put
    <3> QED BY <1>5, <2>1, <2>3, <3>1
  <2>5. ~Larger(st[a], st[a])
    BY <2>3, LargerOnce
  <2>6. ASSUME NEW f \in 1 .. a PROVE ~Larger(st[f], st[R[a]])
    <3>1. f = a \/ f \in 1 .. m
      BY <2>1
    <3>2. f \in 1 .. m => ~Larger(st[f], st[R[m]])
      BY <2>2 DEF Upto
    <3>3. f \in Features
      BY <1>1, <2>1
    <3>4. CASE Larger(st[a], st[R[m]])
      <4>1. R[a] = a
        BY <2>4, <3>4
      <4>2. ~Larger(st[R[m]], st[a])
        BY <2>3, <3>4, LargerOnce
      <4>3. f \in 1 .. m => ~Larger(st[f], st[a])
        BY <2>3, <3>2, <3>3, <4>2, NotLarger
      <4> QED BY <2>5, <3>1, <4>1, <4>3
    <3>5. CASE ~Larger(st[a], st[R[m]])
      <4>1. R[a] = R[m]
        BY <2>4, <3>5
      <4> QED BY <3>1, <3>2, <3>5, <4>1
    <3> QED BY <3>4, <3>5
  <2> QED BY <2>6 DEF Upto
<1> HIDE DEF C, Upto
<1>15. n \in C
  BY <1>1, <1>13, <1>14, NatSetInduction
<1>16. Upto(n)
  BY <1>1, <1>15 DEF C
<1>17. R[n] \in Features
  BY <1>1
<1> QED BY <1>1, <1>9, <1>12, <1>16, <1>17 DEF Upto

(* The order of a ranking: the larger step first, of equals the first.     *)
Before(st, a, b) == \/ Larger(st[a], st[b])
                    \/ ~Larger(st[b], st[a]) /\ a < b

(* A ranking of the features lists features.                               *)
LEMMA RankingIs ==
  ASSUME q \in Problems, NEW g \in Gradients, NEW k \in Groups,
         \A f \in Features : weight[f][k] \in Int
  PROVE  Ranking(g, k) \in [Features -> Features]
<1> DEFINE st == [f \in Features |-> CoordinateDelta(SumOverPages(g, f, k), weight[f][k])]
           n == Cardinality(Features)
           R == {e \in Features \X Features : Before(st, e[1], e[2])}
           s == Ranking(g, k)
<1>1. st \in [Features -> Steps]
  BY SumOverPagesType, StepType
<1>2. s = CHOOSE t \in [1 .. n -> Features] : \A a, b \in DOMAIN t : a < b => Before(st, t[a], t[b])
  BY DEF Ranking, InOrder, Before
<1> HIDE DEF st, s
<1>3. /\ IsFiniteSet(Features) /\ n \in Nat /\ 1 .. n = Features
      /\ Features \in SUBSET Int
  <2>1. Features = 1 .. Len(q.x[1]) /\ Len(q.x[1]) \in Nat
    BY Shape
  <2> DEFINE m == Len(q.x[1])
  <2>2. m \in Nat /\ Features = 1 .. m
    BY <2>1
  <2> HIDE DEF m
  <2>3. IsFiniteSet(1 .. m) /\ Cardinality(1 .. m) = m
    <3>1. 1 \in Int /\ m \in Int
      BY <2>2
    <3>2. IsFiniteSet(1 .. m) /\ Cardinality(1 .. m) = IF 1 > m THEN 0 ELSE m - 1 + 1
      BY <3>1, FS_Interval
    <3> QED BY <2>2, <3>2
  <2> QED BY <2>2, <2>3
<1>4. \A a, b \in Features : <<a, b>> \in R <=> Before(st, a, b)
  OBVIOUS
<1>5. Orders(R, Features)
  <2>1. ASSUME NEW a \in Features PROVE ~Before(st, a, a)
    <3>1. ~Larger(st[a], st[a])
      BY <1>1, LargerOnce
    <3>2. ~(a < a)
      BY <1>3
    <3> QED BY <3>1, <3>2, Zenon DEF Before
  <2>2. ASSUME NEW a \in Features, NEW b \in Features, a # b
        PROVE  Before(st, a, b) \/ Before(st, b, a)
    <3>1. a < b \/ b < a
      BY <1>3, <2>2
    <3> QED BY <3>1, Zenon DEF Before
  <2>3. ASSUME NEW a \in Features, NEW b \in Features, NEW c \in Features,
               Before(st, a, b), Before(st, b, c)
        PROVE  Before(st, a, c)
    <3>1. ~Larger(st[b], st[a]) /\ ~Larger(st[c], st[b])
      BY <1>1, <2>3, LargerOnce DEF Before
    <3>2. ~Larger(st[c], st[a])
      BY <1>1, <3>1, NotLarger
    <3>3. CASE a < b /\ b < c
      <4>1. a < c
        BY <1>3, <3>3
      <4> QED BY <3>2, <4>1, Zenon DEF Before
    <3>4. CASE Larger(st[a], st[b])
      <4>1. Larger(st[a], st[c])
        <5> SUFFICES ASSUME ~Larger(st[a], st[c]) PROVE FALSE
          OBVIOUS
        <5>1. ~Larger(st[a], st[b])
          BY <1>1, <3>1, NotLarger
        <5> QED BY <3>4, <5>1
      <4> QED BY <4>1, Zenon DEF Before
    <3>5. CASE Larger(st[b], st[c])
      <4>1. Larger(st[a], st[c])
        <5> SUFFICES ASSUME ~Larger(st[a], st[c]) PROVE FALSE
          OBVIOUS
        <5>1. ~Larger(st[b], st[c])
          BY <1>1, <3>1, NotLarger
        <5> QED BY <3>5, <5>1
      <4> QED BY <4>1, Zenon DEF Before
    <3> QED BY <2>3, <3>3, <3>4, <3>5, Zenon DEF Before
  <2> HIDE DEF R
  <2> QED BY <1>4, <2>1, <2>2, <2>3 DEF Orders
<1>6. PICK t \in [1 .. n -> Features] : Along(R, n, t)
  <2> HIDE DEF R
  <2> QED BY <1>3, <1>5, OrderedExists
<1>7. \A a, b \in DOMAIN t : a < b => Before(st, t[a], t[b])
  <2> HIDE DEF R
  <2> QED BY <1>4, <1>6 DEF Along
<1>8. s \in [1 .. n -> Features]
  <2> QED BY <1>2, <1>7
<1> QED BY <1>3, <1>8 DEF s

-----------------------------------------------------------------------------
(* The invariant.                                                          *)

(* Weights as the model keeps them: the intercepts are the last.           *)
Weights == [1 .. Bias -> [Groups -> Int]]

(* The phases in which a round works on its gradients.                     *)
Working == {"bias", "setup", "pick", "step", "finish"}

(* The types of the state, of each part while it is in use.                *)
TypeInv ==
  /\ q \in Problems
  /\ y \in Gradients /\ preds \in Gradients /\ weight \in Weights
  /\ pc \in Working \cup {"gradient", "apply"}
  /\ pc # "gradient" => round_start_weight \in Weights
  /\ pc \in Working => Residual \in Gradients
  /\ page \in 1 .. NumPages /\ gid \in Groups /\ i \in 0 .. Cardinality(Features)
  /\ pc = "step" => fidx \in Features /\ i < Cardinality(Features)
  /\ pc \in {"pick", "step"} =>
       /\ counter \in [Groups -> Nat]
       /\ q.selector = "shuffle" => order \in [Features -> Features]
       /\ q.selector = "thrifty" => ranked \in [Groups -> [Features -> Features]]

(* The margin of a row at given weights.                                   *)
MarginAt(w, r, k) == Base + w[Bias][k] + Total([f \in Features |-> q.x[r][f] * w[f][k]])

(* The margins the learner keeps are those of the weights a round started  *)
(* from, until its changes are applied.                                    *)
MarginsKept ==
  \A r \in Rows, k \in Groups :
    /\ pc = "gradient" => preds[r][k] = MarginAt(weight, r, k)
    /\ pc # "gradient" => preds[r][k] = MarginAt(round_start_weight, r, k)

(* The inductive invariant.                                                *)
IInv == TypeInv /\ MarginsKept /\ ResidualsCurrent

(* The data of a problem stay.                                             *)
LEMMA Frame ==
  ASSUME q' = q
  PROVE  /\ Rows' = Rows /\ Features' = Features /\ Groups' = Groups /\ Bias' = Bias
         /\ NumPages' = NumPages /\ Gradients' = Gradients /\ Weights' = Weights
         /\ Device' = Device /\ ReadsGradients' = ReadsGradients
BY DEF Rows, Features, Groups, Bias, NumPages, Gradients, Weights, Device, ReadsGradients

(* The margin at given weights is the same as long as the problem is.      *)
LEMMA FrameMargin ==
  ASSUME q' = q, NEW w, NEW r, NEW k
  PROVE  MarginAt(w, r, k)' = MarginAt(w, r, k)
BY DEF MarginAt, Bias, Features, Base

(* Features are numbered up to how many there are.                         *)
LEMMA FeaturesCount ==
  ASSUME q \in Problems
  PROVE  Cardinality(Features) = Len(q.x[1]) /\ Features = 1 .. Cardinality(Features)
<1> DEFINE m == Len(q.x[1])
<1>1. m \in Nat /\ Features = 1 .. m
  BY Shape
<1> HIDE DEF m
<1>2. 1 \in Int /\ m \in Int
  BY <1>1
<1>3. Cardinality(1 .. m) = IF 1 > m THEN 0 ELSE m - 1 + 1
  BY <1>2, FS_Interval
<1> QED BY <1>1, <1>3 DEF m

(* The terms of a margin.                                                  *)
Terms(w, r, k) == [f \in Features |-> q.x[r][f] * w[f][k]]

(* They are integers.                                                      *)
LEMMA TermsType ==
  ASSUME q \in Problems, NEW w \in Weights, NEW r \in Rows, NEW k \in Groups
  PROVE  /\ Terms(w, r, k) \in [1 .. Len(q.x[1]) -> Int] /\ Len(q.x[1]) \in Nat
         /\ Features = 1 .. Len(q.x[1])
         /\ \A f \in Features : Terms(w, r, k)[f] = q.x[r][f] * w[f][k] /\ f \in 1 .. Bias
         /\ w[Bias][k] \in Int
<1>1. /\ Len(q.x[1]) \in Nat /\ Features = 1 .. Len(q.x[1]) /\ Bias = Len(q.x[1]) + 1
      /\ \A f \in Features : q.x[r][f] \in Int
  BY Shape
<1>2. \A f \in 1 .. Bias : w[f][k] \in Int
  BY DEF Weights
<1>3. Bias \in 1 .. Bias /\ \A f \in Features : f \in 1 .. Bias
  BY <1>1
<1>4. \A f \in Features : q.x[r][f] * w[f][k] \in Int
  <2>1. \A a, b \in Int : a * b \in Int
    OBVIOUS
  <2> QED BY <1>1, <1>2, <1>3, <2>1
<1> QED BY <1>1, <1>2, <1>3, <1>4 DEF Terms

(* So is a margin.                                                         *)
LEMMA MarginType ==
  ASSUME q \in Problems, NEW w \in Weights, NEW r \in Rows, NEW k \in Groups
  PROVE  MarginAt(w, r, k) \in Int
<1>1. Total(Terms(w, r, k)) \in Int
  <2> DEFINE n == Len(q.x[1])
             s == Terms(w, r, k)
  <2>1. n \in Nat /\ s \in [1 .. n -> Int]
    BY TermsType
  <2> HIDE DEF n, s
  <2>2. Total(s) \in Int
    BY <2>1, TotalType
  <2> QED BY <2>2 DEF s
<1>2. w[Bias][k] \in Int
  BY TermsType
<1> QED BY <1>1, <1>2 DEF MarginAt, Terms, Base

(* A margin moves with the weight of one feature.                          *)
LEMMA MarginMoves ==
  ASSUME q \in Problems, NEW w \in Weights, NEW v \in Weights, NEW f \in Features,
         NEW r \in Rows, NEW k \in Groups,
         \A e \in 1 .. Bias : e # f => v[e][k] = w[e][k]
  PROVE  MarginAt(v, r, k) = MarginAt(w, r, k) + q.x[r][f] * (v[f][k] - w[f][k])
<1> DEFINE n == Len(q.x[1])
           s == Terms(w, r, k)
           t == Terms(v, r, k)
<1>1. /\ n \in Nat /\ s \in [1 .. n -> Int] /\ t \in [1 .. n -> Int] /\ Features = 1 .. n
      /\ \A e \in Features : /\ s[e] = q.x[r][e] * w[e][k] /\ e \in 1 .. Bias
                             /\ t[e] = q.x[r][e] * v[e][k]
      /\ w[Bias][k] \in Int /\ v[Bias][k] \in Int
  BY TermsType
<1>2. Bias # f /\ Bias \in 1 .. Bias
  BY Shape, SMTT(40)
<1>3. MarginAt(w, r, k) = Base + w[Bias][k] + Total(s)
  BY DEF MarginAt, Terms
<1>4. MarginAt(v, r, k) = Base + v[Bias][k] + Total(t)
  BY DEF MarginAt, Terms
<1>5. q.x[r][f] \in Int /\ w[f][k] \in Int /\ v[f][k] \in Int
  BY <1>1, Shape, ZenonT(40) DEF Weights
<1> HIDE DEF n, s, t
<1>6. \A e \in 1 .. n : e # f => t[e] = s[e]
  BY <1>1
<1>7. Total(t) = Total(s) + (t[f] - s[f])
  BY <1>1, <1>6, TotalChange
<1>8. t[f] - s[f] = q.x[r][f] * (v[f][k] - w[f][k])
  <2>1. t[f] = q.x[r][f] * v[f][k] /\ s[f] = q.x[r][f] * w[f][k]
    BY <1>1
  <2>2. \A a, b, c \in Int : a * b - a * c = a * (b - c)
    OBVIOUS
  <2> QED BY <1>5, <2>1, <2>2
<1>9. v[Bias][k] = w[Bias][k]
  BY <1>2
<1>10. Total(s) \in Int /\ q.x[r][f] * (v[f][k] - w[f][k]) \in Int
  <2>1. Total(s) \in Int
    BY <1>1, TotalType
  <2>2. \A a, b, c \in Int : a * (b - c) \in Int
    OBVIOUS
  <2> QED BY <1>5, <2>1, <2>2
<1> QED BY <1>1, <1>3, <1>4, <1>7, <1>8, <1>9, <1>10 DEF Base

(* And with the intercept.                                                 *)
LEMMA InterceptMoves ==
  ASSUME q \in Problems, NEW w \in Weights, NEW v \in Weights,
         NEW r \in Rows, NEW k \in Groups,
         \A e \in Features : v[e][k] = w[e][k]
  PROVE  MarginAt(v, r, k) = MarginAt(w, r, k) + (v[Bias][k] - w[Bias][k])
<1>1. Terms(w, r, k) = Terms(v, r, k)
  BY DEF Terms
<1> DEFINE T == Total(Terms(w, r, k))
<1>2. MarginAt(w, r, k) = Base + w[Bias][k] + T /\ MarginAt(v, r, k) = Base + v[Bias][k] + T
  BY <1>1 DEF MarginAt, Terms
<1>3. w[Bias][k] \in Int /\ v[Bias][k] \in Int
  BY TermsType
<1>4. T \in Int
  <2> DEFINE n == Len(q.x[1])
             s == Terms(w, r, k)
  <2>1. n \in Nat /\ s \in [1 .. n -> Int]
    BY TermsType
  <2> HIDE DEF n, s
  <2>2. Total(s) \in Int
    BY <2>1, TotalType
  <2> QED BY <2>2 DEF s
<1> HIDE DEF T
<1> QED BY <1>2, <1>3, <1>4 DEF Base

(* A total of zeros.                                                       *)
LEMMA TotalZero ==
  ASSUME NEW n \in Nat, NEW s \in [1 .. n -> Int], \A j \in 1 .. n : s[j] = 0
  PROVE  Total(s) = 0
<1>1. \A j \in 1 .. n : s[j] = s[j] - s[j]
  OBVIOUS
<1>2. Total(s) = Total(s) - Total(s)
  BY <1>1, TotalDifference
<1>3. Total(s) \in Int
  BY TotalType
<1> QED BY <1>2, <1>3

(* What apply_delta adds is an integer.                                    *)
LEMMA AdvanceType ==
  ASSUME q \in Problems, NEW u \in Weights, NEW v \in Weights, NEW r \in Rows, NEW k \in Groups
  PROVE  Total([f \in Features |-> q.x[r][f] * (v[f][k] - u[f][k])]) \in Int
<1> DEFINE n == Len(q.x[1])
           d == [f \in Features |-> q.x[r][f] * (v[f][k] - u[f][k])]
<1>1. n \in Nat /\ Features = 1 .. n /\ \A e \in Features : e \in 1 .. Bias
  BY Shape
<1>2. \A e \in Features : q.x[r][e] \in Int /\ u[e][k] \in Int /\ v[e][k] \in Int
  BY <1>1, Shape, ZenonT(40) DEF Weights
<1>3. \A a, b, c \in Int : a * (b - c) \in Int
  OBVIOUS
<1>4. d \in [1 .. n -> Int]
  BY <1>1, <1>2, <1>3
<1> HIDE DEF n, d
<1>5. Total(d) \in Int
  BY <1>1, <1>4, TotalType
<1> QED BY <1>5 DEF d

(* apply_delta: from the margin at u to the margin at v.                   *)
LEMMA AdvanceIs ==
  ASSUME q \in Problems, NEW u \in Weights, NEW v \in Weights, NEW r \in Rows, NEW k \in Groups
  PROVE  MarginAt(u, r, k) + (v[Bias][k] - u[Bias][k])
           + Total([f \in Features |-> q.x[r][f] * (v[f][k] - u[f][k])]) = MarginAt(v, r, k)
<1> DEFINE n == Len(q.x[1])
           s == Terms(u, r, k)
           t == Terms(v, r, k)
           d == [f \in Features |-> q.x[r][f] * (v[f][k] - u[f][k])]
<1>1. /\ n \in Nat /\ s \in [1 .. n -> Int] /\ t \in [1 .. n -> Int] /\ Features = 1 .. n
      /\ \A e \in Features : /\ s[e] = q.x[r][e] * u[e][k] /\ e \in 1 .. Bias
                             /\ t[e] = q.x[r][e] * v[e][k]
      /\ u[Bias][k] \in Int /\ v[Bias][k] \in Int
  BY TermsType
<1>2. \A e \in Features : q.x[r][e] \in Int /\ u[e][k] \in Int /\ v[e][k] \in Int
  BY <1>1, Shape, ZenonT(40) DEF Weights
<1>3. \A a, b, c \in Int : a * (b - c) = a * b - a * c /\ a * (b - c) \in Int
  OBVIOUS
<1>4. \A e \in Features : d[e] \in Int /\ d[e] = t[e] - s[e]
  <2> HIDE DEF s, t
  <2> QED BY <1>1, <1>2, <1>3
<1>5. d \in [1 .. n -> Int]
  <2>1. DOMAIN d = Features /\ d = [e \in Features |-> d[e]]
    OBVIOUS
  <2> HIDE DEF d
  <2> QED BY <1>1, <1>4, <2>1
<1>6. MarginAt(u, r, k) = Base + u[Bias][k] + Total(s)
  BY DEF MarginAt, Terms
<1>7. MarginAt(v, r, k) = Base + v[Bias][k] + Total(t)
  BY DEF MarginAt, Terms
<1> HIDE DEF n, s, t, d
<1>8. Total(d) = Total(t) - Total(s)
  BY <1>1, <1>4, <1>5, TotalDifference
<1>9. Total(s) \in Int /\ Total(t) \in Int
  BY <1>1, TotalType
<1>10. MarginAt(u, r, k) + (v[Bias][k] - u[Bias][k]) + Total(d) = MarginAt(v, r, k)
  <2>1. PICK a \in Int, b \in Int : a = u[Bias][k] /\ b = v[Bias][k]
    BY <1>1
  <2>2. PICK su \in Int, sv \in Int : su = Total(s) /\ sv = Total(t)
    BY <1>9
  <2>3. PICK z \in Int : z = Base
    BY DEF Base
  <2>4. MarginAt(u, r, k) = z + a + su /\ MarginAt(v, r, k) = z + b + sv /\ Total(d) = sv - su
    BY <1>6, <1>7, <1>8, <2>1, <2>2, <2>3
  <2>5. ((z + a + su) + (b - a)) + (sv - su) = z + b + sv
    OBVIOUS
  <2> QED BY <2>1, <2>4, <2>5
<1> QED BY <1>10 DEF d

(* The contributions of a row sum to its margin.                           *)
LEMMA ContributionsSum ==
  ASSUME q \in Problems, weight \in Weights, NEW r \in Rows, NEW k \in Groups
  PROVE  /\ PredictMargin(r, k) = MarginAt(weight, r, k)
         /\ PredictMargin(r, k) = Total(PredictContribution(r, k))
<1> DEFINE n == Len(q.x[1])
           t == Terms(weight, r, k)
           s == PredictContribution(r, k)
<1>1. PredictMargin(r, k) = Base + weight[Bias][k] + Total(t)
  BY DEF PredictMargin, Terms
<1>2. PredictMargin(r, k) = MarginAt(weight, r, k)
  BY DEF PredictMargin, MarginAt
<1>3. /\ n \in Nat /\ t \in [1 .. n -> Int] /\ Features = 1 .. n
      /\ \A e \in Features : t[e] = q.x[r][e] * weight[e][k]
      /\ weight[Bias][k] \in Int
  BY TermsType
<1>4. Bias = n + 1
  BY Shape
<1>5. s = [f \in 1 .. Bias |->
             IF f = Bias THEN weight[Bias][k] + Base ELSE q.x[r][f] * weight[f][k]]
  BY DEF PredictContribution
<1> HIDE DEF n, t, s
<1>6. ASSUME NEW e \in 1 .. n PROVE s[e] = t[e] /\ t[e] \in Int
  <2>1. e # Bias /\ e \in 1 .. Bias /\ e \in Features
    BY <1>3, <1>4
  <2> QED BY <1>3, <1>5, <2>1
<1>7. s[n + 1] = weight[Bias][k] + Base /\ DOMAIN s = 1 .. n + 1 /\ n + 1 \in 1 .. n + 1
  BY <1>3, <1>4, <1>5
<1>8. s \in [1 .. n + 1 -> Int]
  <2>1. \A e \in 1 .. n + 1 : e \in 1 .. n \/ e = n + 1
    BY <1>3
  <2>2. \A e \in 1 .. n + 1 : s[e] \in Int
    BY <1>3, <1>6, <1>7, <2>1 DEF Base
  <2>3. s = [e \in 1 .. n + 1 |-> s[e]]
    BY <1>4, <1>5
  <2> QED BY <2>2, <2>3
<1>9. Total(s) = Total(t) + s[n + 1]
  BY <1>3, <1>6, <1>8, TotalLast
<1>10. Total(t) \in Int
  BY <1>3, TotalType
<1> QED BY <1>1, <1>2, <1>3, <1>7, <1>9, <1>10 DEF Base, s

(* Where a correction goes, and what a fetch leaves.                       *)
LEMMA Corrected ==
  ASSUME q' = q, NEW g, IF Device THEN resident' = g /\ UNCHANGED gpair
                                  ELSE gpair' = g /\ UNCHANGED resident
  PROVE  Residual' = g
<1>1. Device' = Device
  BY Frame
<1> QED BY <1>1 DEF Residual

(* A fetch for a selector leaves the gradients of the round as they are.   *)
LEMMA Fetched ==
  ASSUME q' = q, gpair' = Downloaded, resident' = resident
  PROVE  Residual' = Residual
<1>1. Device' = Device
  BY Frame
<1> QED BY <1>1 DEF Residual, Downloaded

(* So does a step that changes neither copy.                               *)
LEMMA Kept ==
  ASSUME q' = q, gpair' = gpair, resident' = resident
  PROVE  Residual' = Residual
<1>1. Device' = Device
  BY Frame
<1> QED BY <1>1 DEF Residual

(* One weight is moved.                                                    *)
LEMMA Moves ==
  ASSUME NEW w \in Weights, NEW f \in 1 .. Bias, NEW k \in Groups, NEW d \in Int
  PROVE  /\ [w EXCEPT ![f][k] = @ + d] \in Weights
         /\ \A e \in 1 .. Bias, j \in Groups :
              [w EXCEPT ![f][k] = @ + d][e][j] = IF e = f /\ j = k THEN w[e][j] + d ELSE w[e][j]
<1>1. \A e \in 1 .. Bias : w[e] \in [Groups -> Int]
  BY DEF Weights
<1> DEFINE u == [w[f] EXCEPT ![k] = w[f][k] + d]
<1>2. /\ u \in [Groups -> Int]
      /\ \A j \in Groups : u[j] = IF j = k THEN w[f][j] + d ELSE w[f][j]
  BY <1>1
<1>3. [w EXCEPT ![f][k] = @ + d] = [w EXCEPT ![f] = u]
  OBVIOUS
<1> HIDE DEF u
<1>4. /\ [w EXCEPT ![f] = u] \in Weights
      /\ \A e \in 1 .. Bias : [w EXCEPT ![f] = u][e] = IF e = f THEN u ELSE w[e]
  BY <1>2 DEF Weights
<1> QED BY <1>2, <1>3, <1>4

(* What a round's gradients are taken to be.                               *)
Taken == [r \in Rows |-> [k \in Groups |-> q.hess[r] * (preds[r][k] - y[r][k])]]

(* They are integers.                                                      *)
LEMMA TakenType ==
  ASSUME q \in Problems, preds \in Gradients, y \in Gradients
  PROVE  Taken \in Gradients
<1>1. \A r \in Rows, k \in Groups : q.hess[r] \in Int /\ preds[r][k] \in Int /\ y[r][k] \in Int
  BY Shape DEF Gradients
<1>2. \A a, b, c \in Int : a * (b - c) \in Int
  OBVIOUS
<1>3. \A r \in Rows, k \in Groups : q.hess[r] * (preds[r][k] - y[r][k]) \in Int
  BY <1>1, <1>2
<1> QED BY <1>3 DEF Taken, Gradients

(* What the steps do, with their operators' results named.                 *)
LEMMA BiasEffect ==
  ASSUME TypeInv, UpdateBias
  PROVE  \E db \in Int :
           /\ weight' = [weight EXCEPT ![Bias][gid] = @ + db]
           /\ Residual' = UpdateBiasResidual(Residual, gid, db)
<1>1. q \in Problems /\ Residual \in Gradients /\ gid \in Groups /\ q' = q
  BY DEF TypeInv, UpdateBias, Working, learner
<1> DEFINE G == Residual
           s == BiasGradient(G, gid)
           db == Narrow(CoordinateDeltaBias(s))
<1>2. s \in Sums /\ s.hess \in Nat
  BY <1>1, BiasGradientType
<1>3. db \in Int
  <2> HIDE DEF s
  <2>1. CoordinateDeltaBias(s) \in Steps
    BY <1>1, <1>2, BiasStepType
  <2> QED BY <1>1, <2>1, NarrowType
<1>4. /\ weight' = [weight EXCEPT ![Bias][gid] = @ + db]
      /\ Correct(UpdateBiasResidual(Residual, gid, db))
  BY DEF UpdateBias
<1> HIDE DEF db, G
<1> DEFINE H == UpdateBiasResidual(Residual, gid, db)
<1>5. IF Device THEN resident' = H /\ UNCHANGED gpair ELSE gpair' = H /\ UNCHANGED resident
  BY <1>4 DEF Correct
<1> HIDE DEF H
<1>6. Residual' = H
  BY <1>1, <1>5, Corrected
<1> QED BY <1>3, <1>4, <1>6 DEF H

LEMMA CoordEffect ==
  ASSUME TypeInv, CoordStep
  PROVE  \E dw \in Int :
           /\ weight' = [weight EXCEPT ![fidx][gid] = @ + dw]
           /\ Residual' \in Gradients /\ Corrects(Rows, fidx, gid, dw, Residual, Residual')
<1>1. /\ q \in Problems /\ Residual \in Gradients /\ gid \in Groups /\ fidx \in Features /\ q' = q
      /\ weight \in Weights
  BY DEF TypeInv, CoordStep, Working, learner
<1>2. Residual = gpair /\ Residual' = gpair'
  <2>1. ~Device /\ Device' = Device
    BY <1>1, Frame DEF CoordStep
  <2> QED BY <2>1 DEF Residual
<1> DEFINE dw == Narrow(CoordinateDelta(SumOverPages(gpair, fidx, gid), weight[fidx][gid]))
<1>3. dw \in Int
  <2>1. weight[fidx][gid] \in Int
    BY <1>1, TermsType, Shape, SMTT(40) DEF Weights
  <2>2. SumOverPages(gpair, fidx, gid) \in Sums
    BY <1>1, <1>2, SumOverPagesType
  <2>3. CoordinateDelta(SumOverPages(gpair, fidx, gid), weight[fidx][gid]) \in Steps
    BY <1>1, <2>1, <2>2, StepType
  <2> QED BY <1>1, <2>3, NarrowType
<1>4. weight' = [weight EXCEPT ![fidx][gid] = @ + dw]
  BY DEF CoordStep
<1>5. gpair' = CoordCorrected(gpair, fidx, gid, dw)
  BY DEF CoordStep, CoordCorrected
<1> HIDE DEF dw
<1>6. /\ CoordCorrected(gpair, fidx, gid, dw) \in Gradients
      /\ Corrects(Rows, fidx, gid, dw, gpair, CoordCorrected(gpair, fidx, gid, dw))
  BY <1>1, <1>2, <1>3, CoordPages
<1> QED BY <1>2, <1>3, <1>4, <1>5, <1>6

LEMMA DeviceEffect ==
  ASSUME TypeInv, DeviceStep
  PROVE  \E dw \in Int :
           /\ weight' = [weight EXCEPT ![fidx][gid] = @ + dw]
           /\ Residual' \in Gradients /\ Corrects(Rows, fidx, gid, dw, Residual, Residual')
<1>1. /\ q \in Problems /\ Residual \in Gradients /\ gid \in Groups /\ fidx \in Features /\ q' = q
      /\ weight \in Weights
  BY DEF TypeInv, DeviceStep, Working, learner
<1>2. Residual = resident /\ Residual' = resident'
  <2>1. Device /\ Device' = Device
    BY <1>1, Frame DEF DeviceStep
  <2> QED BY <2>1 DEF Residual
<1> DEFINE of == [p \in 1 .. NumPages |-> DeviceColumnGradient(resident, p, fidx, gid)]
           dw == Narrow(CoordinateDelta(Summed(of), weight[fidx][gid]))
<1>3. dw \in Int
  <2>1. weight[fidx][gid] \in Int
    BY <1>1, TermsType, Shape, SMTT(40) DEF Weights
  <2>2. of \in [1 .. NumPages -> Sums]
    BY <1>1, <1>2, DeviceSumsAgree, ColumnGradientType
  <2>3. NumPages \in Nat
    BY <1>1, Paged
  <2> HIDE DEF of
  <2>4. Summed(of) \in Sums
    BY <2>2, <2>3, SummedType
  <2>5. CoordinateDelta(Summed(of), weight[fidx][gid]) \in Steps
    BY <1>1, <2>1, <2>4, StepType
  <2> QED BY <1>1, <2>5, NarrowType
<1>4. weight' = [weight EXCEPT ![fidx][gid] = @ + dw]
  BY DEF DeviceStep
<1>5. resident' = DeviceCorrected(resident, fidx, gid, dw)
  BY DEF DeviceStep, DeviceCorrected
<1> HIDE DEF dw
<1>6. /\ DeviceCorrected(resident, fidx, gid, dw) \in Gradients
      /\ Corrects(Rows, fidx, gid, dw, resident, DeviceCorrected(resident, fidx, gid, dw))
  BY <1>1, <1>2, <1>3, DevicePages
<1> QED BY <1>2, <1>3, <1>4, <1>5, <1>6

LEMMA ShotgunEffect ==
  ASSUME TypeInv, ShotgunStep
  PROVE  \E dw \in [Groups -> Int] :
           /\ weight' = [weight EXCEPT ![fidx] = [k \in Groups |-> @[k] + dw[k]]]
           /\ Residual' \in Gradients
           /\ \A r \in Rows, k \in Groups :
                Residual'[r][k] =
                  Residual[r][k] + (IF r \in PageRows(page) THEN Due(r, fidx, dw[k]) ELSE 0)
<1>1. /\ q \in Problems /\ Residual \in Gradients /\ fidx \in Features /\ q' = q
      /\ weight \in Weights
  BY DEF TypeInv, ShotgunStep, Working, learner
<1>2. Residual = gpair /\ Residual' = gpair'
  <2>1. ~Device /\ Device' = Device
    BY <1>1, Frame DEF ShotgunStep, Device
  <2> QED BY <2>1 DEF Residual
<1> DEFINE dw == [k \in Groups |-> Narrow(CoordinateDelta(ColumnGradient(gpair, page, fidx, k),
                                                          weight[fidx][k]))]
<1>3. dw \in [Groups -> Int]
  <2> SUFFICES ASSUME NEW k \in Groups
               PROVE  Narrow(CoordinateDelta(ColumnGradient(gpair, page, fidx, k),
                                             weight[fidx][k])) \in Int
    OBVIOUS
  <2>1. weight[fidx][k] \in Int
    BY <1>1, TermsType, Shape, SMTT(40) DEF Weights
  <2>2. ColumnGradient(gpair, page, fidx, k) \in Sums
    BY <1>1, <1>2, ColumnGradientType
  <2>3. CoordinateDelta(ColumnGradient(gpair, page, fidx, k), weight[fidx][k]) \in Steps
    BY <1>1, <2>1, <2>2, StepType
  <2> QED BY <1>1, <2>3, NarrowType
<1>4. weight' = [weight EXCEPT ![fidx] = [k \in Groups |-> @[k] + dw[k]]]
  BY DEF ShotgunStep
<1>5. gpair' = ShotgunCorrected(gpair, page, fidx, dw)
  BY DEF ShotgunStep, ShotgunCorrected
<1> HIDE DEF dw
<1>6. /\ ShotgunCorrected(gpair, page, fidx, dw) \in Gradients
      /\ \A r \in Rows, j \in Groups :
              ShotgunCorrected(gpair, page, fidx, dw)[r][j] =
                gpair[r][j] + (IF r \in PageRows(page) THEN Due(r, fidx, dw[j]) ELSE 0)
  BY <1>1, <1>2, <1>3, ShotgunIs
<1> QED BY <1>2, <1>3, <1>4, <1>5, <1>6

(* The invariant holds when a fit starts.                                  *)
LEMMA InitType == Init => IInv
<1> SUFFICES ASSUME Init PROVE IInv
  OBVIOUS
<1>1. q \in Problems
  BY DEF Init
<1>2. TypeInv
  <2>1. y \in Gradients
    <3>1. Labels \subseteq Int /\ y \in [Rows -> [Groups -> Labels]]
      BY LinearAssumption DEF Init
    <3> QED BY <3>1 DEF Gradients
  <2>2. preds \in Gradients /\ weight \in Weights
    BY DEF Init, Gradients, Weights, Base
  <2>3. page \in 1 .. NumPages /\ gid \in Groups /\ i \in 0 .. Cardinality(Features)
    <3>1. NumPages \in Nat \ {0} /\ q.groups \in Nat \ {0} /\ Groups = 1 .. q.groups
      BY <1>1, Shape, Paged
    <3>2. Cardinality(Features) = Len(q.x[1]) /\ Len(q.x[1]) \in Nat
      BY <1>1, FeaturesCount, Shape
    <3>3. page = 1 /\ gid = 1 /\ i = 0
      BY DEF Init
    <3> HIDE DEF Init
    <3> QED BY <3>1, <3>2, <3>3
  <2> QED BY <1>1, <2>1, <2>2, <2>3 DEF TypeInv, Init, Working
<1>3. MarginsKept
  <2> SUFFICES ASSUME NEW r \in Rows, NEW k \in Groups PROVE preds[r][k] = MarginAt(weight, r, k)
    BY DEF MarginsKept, Init
  <2> DEFINE n == Len(q.x[1])
             s == Terms(weight, r, k)
  <2>1. /\ n \in Nat /\ s \in [1 .. n -> Int] /\ Features = 1 .. n
        /\ \A f \in Features : s[f] = q.x[r][f] * weight[f][k] /\ f \in 1 .. Bias
    BY <1>1, <1>2, TermsType DEF TypeInv
  <2>2. \A f \in Features : weight[f][k] = 0 /\ q.x[r][f] \in Int
    BY <1>1, <2>1, Shape DEF Init
  <2>3. weight[Bias][k] = 0 /\ preds[r][k] = Base
    <3>1. Bias \in 1 .. Bias
      BY <1>1, Shape, SMTT(40)
    <3> QED BY <3>1 DEF Init
  <2>4. MarginAt(weight, r, k) = Base + weight[Bias][k] + Total(s)
    BY DEF MarginAt, Terms
  <2> HIDE DEF n, s
  <2>5. \A f \in 1 .. n : s[f] = 0
    BY <2>1, <2>2
  <2>6. Total(s) = 0
    BY <2>1, <2>5, TotalZero
  <2> QED BY <2>3, <2>4, <2>6 DEF Base
<1>4. ResidualsCurrent
  BY DEF ResidualsCurrent, Init
<1> QED BY <1>2, <1>3, <1>4 DEF IInv

(* Where a sweep goes on.                                                  *)
LEMMA SweepEnds ==
  ASSUME q \in Problems, page \in 1 .. NumPages, gid \in Groups, pc = "pick", EndSweep
  PROVE  /\ i' = 0 /\ page' \in 1 .. NumPages /\ gid' \in Groups /\ pc' \in {"pick", "finish"}
<1>1. NumPages \in Nat /\ Groups = 1 .. q.groups /\ q.groups \in Nat
  BY Paged, Shape
<1> QED BY <1>1 DEF EndSweep

(* What a sweep keeps in its state.                                        *)
Picking ==
  /\ counter \in [Groups -> Nat]
  /\ q.selector = "shuffle" => order \in [Features -> Features]
  /\ q.selector = "thrifty" => ranked \in [Groups -> [Features -> Features]]

(* A pick names a feature or ends the sweep, and leaves the gradients      *)
(* alone.                                                                  *)
LEMMA PickEffect ==
  ASSUME TypeInv, NextFeature
  PROVE  /\ Residual' = Residual /\ counter' \in [Groups -> Nat]
         /\ \/ fidx' \in Features /\ pc' = "step" /\ page' = page /\ gid' = gid /\ i' = i
            \/ EndSweep
<1>1. /\ q \in Problems /\ q' = q /\ pc = "pick" /\ gid \in Groups /\ Picking
      /\ Residual \in Gradients /\ weight \in Weights
      /\ i \in 0 .. Cardinality(Features) /\ i < Cardinality(Features)
  BY DEF TypeInv, NextFeature, Working, learner, Picking
<1>2. Residual' = Residual
  <2>1. gpair' = Downloaded /\ resident' = resident
    BY DEF NextFeature
  <2> QED BY <1>1, <2>1, Fetched
<1>3. /\ Cardinality(Features) = Len(q.x[1]) /\ Len(q.x[1]) \in Nat
      /\ Features = 1 .. Cardinality(Features)
  BY <1>1, FeaturesCount, Shape
<1>4. CASE ReadsGradients
  <2>1. counter' = [counter EXCEPT ![gid] = @ + 1]
    BY <1>4 DEF NextFeature
  <2>2. counter' \in [Groups -> Nat]
    BY <1>1, <2>1 DEF Picking
  <2>3. CASE SlotTaken(gid)
    <3>1. /\ fidx' = IF q.selector = "greedy" THEN LargestStep(Downloaded, gid)
                     ELSE ranked[gid][counter[gid] + 1]
          /\ pc' = "step" /\ page' = page /\ gid' = gid /\ i' = i
      BY <1>4, <2>3 DEF NextFeature
    <3>2. fidx' \in Features
      <4>1. CASE q.selector = "greedy"
        <5>1. Downloaded = Residual
          BY <1>4 DEF Downloaded, Residual
        <5> DEFINE st == [f \in Features |->
                            CoordinateDelta(SumOverPages(Residual, f, gid), weight[f][gid])]
        <5>2. st \in [Features -> Steps]
          <6> SUFFICES ASSUME NEW f \in Features
                       PROVE  CoordinateDelta(SumOverPages(Residual, f, gid), weight[f][gid])
                                \in Steps
            OBVIOUS
          <6>1. weight[f][gid] \in Int
            BY <1>1, TermsType, Shape, SMTT(40) DEF Weights
          <6>2. SumOverPages(Residual, f, gid) \in Sums
            BY <1>1, SumOverPagesType
          <6> QED BY <1>1, <6>1, <6>2, StepType
        <5>3. LargestStep(Downloaded, gid) = LargestOf(st)
          BY <5>1 DEF LargestStep, LargestOf
        <5> HIDE DEF st
        <5>4. LargestOf(st) \in Features
          BY <1>1, <5>2, LargestIs
        <5> QED BY <3>1, <4>1, <5>3, <5>4
      <4>2. CASE q.selector # "greedy"
        <5>1. q.selector = "thrifty"
          BY <1>4, <4>2 DEF ReadsGradients
        <5>2. counter[gid] \in Nat /\ counter[gid] < Cardinality(Features) - 1
          BY <1>1, <2>3 DEF Picking, SlotTaken
        <5>3. counter[gid] + 1 \in Features
          BY <1>3, <5>2
        <5>4. ranked[gid] \in [Features -> Features]
          BY <1>1, <5>1 DEF Picking
        <5> QED BY <3>1, <4>2, <5>3, <5>4
      <4> QED BY <4>1, <4>2
    <3> QED BY <1>2, <2>2, <3>1, <3>2
  <2>4. CASE ~SlotTaken(gid)
    <3>1. EndSweep
      BY <1>4, <2>4 DEF NextFeature
    <3> QED BY <1>2, <2>2, <3>1
  <2> QED BY <2>3, <2>4
<1>5. CASE ~ReadsGradients
  <2>1. /\ fidx' \in (CASE q.selector = "cyclic" -> {i + 1}
                        [] q.selector = "shuffle" -> {order[i + 1]}
                        [] q.selector = "random" -> Features)
        /\ pc' = "step" /\ counter' = counter /\ page' = page /\ gid' = gid /\ i' = i
    BY <1>5 DEF NextFeature
  <2>2. i + 1 \in Features
    BY <1>1, <1>3
  <2>3. q.selector \in {"cyclic", "shuffle", "random"}
    BY <1>1, <1>5, Shape DEF ReadsGradients
  <2>4. fidx' \in Features
    <3>1. CASE q.selector = "cyclic"
      <4>1. fidx' \in {i + 1}
        BY <2>1, <3>1
      <4> QED BY <2>2, <4>1
    <3>2. CASE q.selector = "shuffle"
      <4>1. fidx' \in {order[i + 1]}
        BY <2>1, <3>2
      <4>2. order \in [Features -> Features]
        BY <1>1, <3>2 DEF Picking
      <4> QED BY <2>2, <4>1, <4>2
    <3>3. CASE q.selector = "random"
      BY <2>1, <3>3
    <3> QED BY <2>3, <3>1, <3>2, <3>3
  <2>5. counter' \in [Groups -> Nat]
    BY <1>1, <2>1 DEF Picking
  <2> QED BY <1>2, <2>1, <2>4, <2>5
<1> QED BY <1>4, <1>5

(* Every step keeps the types.  A step's proof names what it changes.      *)
LEMMA TypeStep ==
  ASSUME TypeInv, [Next]_vars
  PROVE  TypeInv'
<1>1. /\ q \in Problems /\ y \in Gradients /\ preds \in Gradients /\ weight \in Weights
      /\ page \in 1 .. NumPages /\ gid \in Groups /\ i \in 0 .. Cardinality(Features)
      /\ pc \in Working \cup {"gradient", "apply"}
  BY DEF TypeInv
<1>2. NumPages \in Nat \ {0} /\ Groups = 1 .. q.groups /\ q.groups \in Nat \ {0}
  BY <1>1, Paged, Shape
<1>3. /\ Cardinality(Features) = Len(q.x[1]) /\ Len(q.x[1]) \in Nat
      /\ Features = 1 .. Cardinality(Features)
  BY <1>1, FeaturesCount, Shape
<1>4. q' = q /\ y' = y
  BY DEF Next, vars, learner, model, convergence, selector, loop, ContinueFrom, StartRound,
         UpdateBias, Setup, NextFeature, SweepDone, ShotgunStep, CoordStep, DeviceStep, Finish,
         ApplyDelta, Done
<1>5. /\ Groups' = Groups /\ Features' = Features /\ Gradients' = Gradients /\ Weights' = Weights
      /\ NumPages' = NumPages /\ Rows' = Rows
  BY <1>4, Frame
<1>6. ASSUME /\ preds' \in Gradients /\ weight' \in Weights
             /\ pc' \in Working \cup {"gradient", "apply"}
             /\ pc' # "gradient" => round_start_weight' \in Weights
             /\ pc' \in Working => Residual' \in Gradients
             /\ page' \in 1 .. NumPages /\ gid' \in Groups /\ i' \in 0 .. Cardinality(Features)
             /\ pc' = "step" => fidx' \in Features /\ i' < Cardinality(Features)
             /\ pc' \in {"pick", "step"} => Picking'
      PROVE  TypeInv'
  BY <1>1, <1>4, <1>5, <1>6 DEF TypeInv, Picking, Working
<1>7. CASE ContinueFrom
  <2>1. /\ preds' = [r \in Rows |-> [k \in Groups |-> PredictMargin(r, k)]] /\ pc' = "gradient"
        /\ weight' = weight /\ page' = page /\ gid' = gid /\ i' = i
    BY <1>7 DEF ContinueFrom, model, loop
  <2>2. \A r \in Rows, k \in Groups : PredictMargin(r, k) \in Int
    BY <1>1, ContributionsSum, MarginType
  <2>3. preds' \in Gradients
    BY <2>1, <2>2 DEF Gradients
  <2> QED BY <1>1, <1>6, <2>1, <2>3 DEF Working
<1>8. CASE StartRound
  <2>1. /\ preds' = preds /\ weight' = weight /\ round_start_weight' = weight /\ gid' = 1
        /\ page' = page /\ i' = i
        /\ \/ pc' = "apply"
           \/ /\ pc' = "bias" /\ gpair' = Taken
              /\ resident' = IF Device THEN Taken ELSE resident
    BY <1>8 DEF StartRound, Taken, learner, model
  <2>2. pc' = "bias" => Residual' = Taken
    <3>1. Device' = Device
      BY <1>4, Frame
    <3> QED BY <2>1, <3>1 DEF Residual
  <2>3. Taken \in Gradients
    BY <1>1, TakenType
  <2>4. gid' \in Groups
    BY <1>2, <2>1
  <2> QED BY <1>1, <1>6, <2>1, <2>2, <2>3, <2>4 DEF Working
<1>9. CASE UpdateBias
  <2>1. PICK db \in Int : /\ weight' = [weight EXCEPT ![Bias][gid] = @ + db]
                          /\ Residual' = UpdateBiasResidual(Residual, gid, db)
    BY <1>9, BiasEffect
  <2>2. Residual \in Gradients /\ round_start_weight \in Weights
    BY <1>9 DEF TypeInv, UpdateBias, Working
  <2>3. Residual' \in Gradients
    BY <1>1, <2>1, <2>2, UpdateBiasIs
  <2>4. weight' \in Weights
    <3>1. Bias \in 1 .. Bias
      BY <1>1, Shape, SMTT(40)
    <3> QED BY <1>1, <2>1, <3>1, Moves
  <2>5. /\ preds' = preds /\ round_start_weight' = round_start_weight /\ page' = page /\ i' = i
        /\ \/ gid < q.groups /\ gid' = gid + 1 /\ pc' = pc
           \/ gid' = 1 /\ pc' = "setup"
        /\ pc = "bias"
    BY <1>9 DEF UpdateBias, learner, convergence
  <2>6. gid' \in Groups
    BY <1>1, <1>2, <2>5
  <2> QED BY <1>1, <1>6, <2>2, <2>3, <2>4, <2>5, <2>6 DEF Working
<1>10. CASE Setup
  <2>1. /\ pc = "setup" /\ pc' = "pick" /\ page' = 1 /\ gid' = 1 /\ i' = 0
        /\ gpair' = Downloaded /\ resident' = resident
        /\ counter' = [k \in Groups |-> 0]
        /\ preds' = preds /\ weight' = weight /\ round_start_weight' = round_start_weight
    BY <1>10 DEF Setup, learner, model, convergence
  <2>2. Residual \in Gradients /\ round_start_weight \in Weights
    BY <2>1 DEF TypeInv, Working
  <2>3. Residual' = Residual
    BY <1>4, <2>1, Fetched
  <2>4. q.selector = "shuffle" => order' \in [Features -> Features]
    <3>1. q.selector = "shuffle" => order' \in SetToSeqs(Features)
      BY <1>10 DEF Setup
    <3> QED BY <1>3, <3>1 DEF SetToSeqs
  <2>5. q.selector = "thrifty" => ranked' \in [Groups -> [Features -> Features]]
    <3> SUFFICES ASSUME q.selector = "thrifty"
                 PROVE  ranked' \in [Groups -> [Features -> Features]]
      OBVIOUS
    <3>1. ranked' = [k \in Groups |-> Ranking(Downloaded, k)]
      BY <1>10 DEF Setup
    <3>2. Downloaded = Residual
      BY DEF Downloaded, Residual, ReadsGradients
    <3>3. \A f \in Features, k \in Groups : weight[f][k] \in Int
      BY <1>1, Shape, SMTT(40) DEF Weights
    <3>4. \A k \in Groups : Ranking(Downloaded, k) \in [Features -> Features]
      BY <1>1, <2>2, <3>2, <3>3, RankingIs
    <3> QED BY <3>1, <3>4
  <2>6. Picking'
    <3>1. counter' \in [Groups -> Nat]
      BY <2>1
    <3> QED BY <1>4, <1>5, <2>4, <2>5, <3>1 DEF Picking
  <2>7. page' \in 1 .. NumPages /\ gid' \in Groups /\ i' \in 0 .. Cardinality(Features)
    BY <1>2, <1>3, <2>1
  <2> QED BY <1>1, <1>6, <2>1, <2>2, <2>3, <2>6, <2>7 DEF Working
<1>11. CASE NextFeature
  <2>1. /\ Residual' = Residual /\ counter' \in [Groups -> Nat]
        /\ \/ fidx' \in Features /\ pc' = "step" /\ page' = page /\ gid' = gid /\ i' = i
           \/ EndSweep
    BY <1>11, PickEffect
  <2>2. /\ preds' = preds /\ weight' = weight /\ round_start_weight' = round_start_weight
        /\ order' = order /\ ranked' = ranked /\ pc = "pick" /\ i < Cardinality(Features)
    BY <1>11 DEF NextFeature, learner, model, convergence
  <2>3. Residual \in Gradients /\ round_start_weight \in Weights /\ Picking
    BY <2>2 DEF TypeInv, Working, Picking
  <2>4. Picking'
    BY <1>4, <1>5, <2>1, <2>2, <2>3 DEF Picking
  <2>5. CASE EndSweep
    <3>1. i' = 0 /\ page' \in 1 .. NumPages /\ gid' \in Groups /\ pc' \in {"pick", "finish"}
      BY <1>1, <2>2, <2>5, SweepEnds
    <3>2. i' \in 0 .. Cardinality(Features)
      BY <1>3, <3>1
    <3> QED BY <1>1, <1>6, <2>1, <2>2, <2>3, <2>4, <3>1, <3>2 DEF Working
  <2>6. CASE fidx' \in Features /\ pc' = "step" /\ page' = page /\ gid' = gid /\ i' = i
    BY <1>1, <1>6, <2>1, <2>2, <2>3, <2>4, <2>6 DEF Working
  <2> QED BY <2>1, <2>5, <2>6
<1>12. CASE SweepDone
  <2>1. /\ preds' = preds /\ weight' = weight /\ round_start_weight' = round_start_weight
        /\ gpair' = gpair /\ resident' = resident /\ counter' = counter
        /\ order' = order /\ ranked' = ranked /\ pc = "pick" /\ EndSweep
    BY <1>12 DEF SweepDone, learner, model, convergence, selector
  <2>2. Residual \in Gradients /\ round_start_weight \in Weights /\ Picking
    BY <2>1 DEF TypeInv, Working, Picking
  <2>3. Residual' = Residual
    BY <1>4, <2>1, Kept
  <2>4. Picking'
    BY <1>4, <1>5, <2>1, <2>2 DEF Picking
  <2>5. i' = 0 /\ page' \in 1 .. NumPages /\ gid' \in Groups /\ pc' \in {"pick", "finish"}
    BY <1>1, <2>1, SweepEnds
  <2>6. i' \in 0 .. Cardinality(Features)
    BY <1>3, <2>5
  <2> QED BY <1>1, <1>6, <2>1, <2>2, <2>3, <2>4, <2>5, <2>6 DEF Working
<1>13. ASSUME ShotgunStep \/ CoordStep \/ DeviceStep, weight' \in Weights, Residual' \in Gradients
       PROVE  TypeInv'
  <2>1. /\ preds' = preds /\ round_start_weight' = round_start_weight
        /\ counter' = counter /\ order' = order /\ ranked' = ranked
        /\ page' = page /\ gid' = gid /\ i' = i + 1 /\ pc = "step" /\ pc' = "pick"
    BY <1>13 DEF ShotgunStep, CoordStep, DeviceStep, learner, convergence, selector
  <2>2. round_start_weight \in Weights /\ Picking /\ i < Cardinality(Features)
    BY <2>1 DEF TypeInv, Working, Picking
  <2>3. Picking'
    BY <1>4, <1>5, <2>1, <2>2 DEF Picking
  <2>4. i' \in 0 .. Cardinality(Features)
    BY <1>1, <1>3, <2>1, <2>2
  <2> QED BY <1>1, <1>6, <1>13, <2>1, <2>2, <2>3, <2>4 DEF Working
<1>14. CASE ShotgunStep
  <2>1. PICK dw \in [Groups -> Int] :
          /\ weight' = [weight EXCEPT ![fidx] = [k \in Groups |-> @[k] + dw[k]]]
          /\ Residual' \in Gradients
    BY <1>14, ShotgunEffect
  <2>2. fidx \in Features
    BY <1>14 DEF TypeInv, ShotgunStep
  <2>3. fidx \in 1 .. Bias
    BY <1>1, <2>2, Shape, SMTT(40)
  <2>4. [k \in Groups |-> weight[fidx][k] + dw[k]] \in [Groups -> Int]
    BY <1>1, <2>3 DEF Weights
  <2>5. weight' \in Weights
    BY <1>1, <2>1, <2>4 DEF Weights
  <2> QED BY <1>13, <1>14, <2>1, <2>5
<1>15. CASE CoordStep \/ DeviceStep
  <2>1. PICK dw \in Int : /\ weight' = [weight EXCEPT ![fidx][gid] = @ + dw]
                          /\ Residual' \in Gradients
    BY <1>15, CoordEffect, DeviceEffect
  <2>2. fidx \in Features
    BY <1>15 DEF TypeInv, CoordStep, DeviceStep
  <2>3. fidx \in 1 .. Bias
    BY <1>1, <2>2, Shape, SMTT(40)
  <2>4. weight' \in Weights
    BY <1>1, <2>1, <2>3, Moves
  <2> QED BY <1>13, <1>15, <2>1, <2>4
<1>16. CASE Finish
  <2>1. /\ pc = "finish" /\ pc' = "apply" /\ preds' = preds /\ weight' = weight
        /\ round_start_weight' = round_start_weight /\ page' = page /\ gid' = gid /\ i' = i
    BY <1>16 DEF Finish, learner, model, convergence, loop
  <2>2. round_start_weight \in Weights
    BY <2>1 DEF TypeInv
  <2> QED BY <1>1, <1>6, <2>1, <2>2 DEF Working
<1>17. CASE ApplyDelta
  <2>1. /\ pc = "apply" /\ pc' = "gradient" /\ weight' = weight
        /\ preds' = [r \in Rows |-> [k \in Groups |-> Advanced(r, k)]]
        /\ page' = page /\ gid' = gid /\ i' = i
    BY <1>17 DEF ApplyDelta, loop
  <2>2. round_start_weight \in Weights
    BY <2>1 DEF TypeInv
  <2>3. \A r \in Rows, k \in Groups : Advanced(r, k) \in Int
    <3> SUFFICES ASSUME NEW r \in Rows, NEW k \in Groups PROVE Advanced(r, k) \in Int
      OBVIOUS
    <3> DEFINE u == round_start_weight
               D == (weight[Bias][k] - u[Bias][k])
               T == Total([f \in Features |-> q.x[r][f] * (weight[f][k] - u[f][k])])
    <3>1. MarginAt(u, r, k) + D + T = MarginAt(weight, r, k)
      BY <1>1, <2>2, AdvanceIs
    <3>2. MarginAt(u, r, k) \in Int /\ MarginAt(weight, r, k) \in Int
      BY <1>1, <2>2, MarginType
    <3>3. preds[r][k] \in Int
      BY <1>1 DEF Gradients
    <3>4. weight[Bias][k] \in Int /\ u[Bias][k] \in Int
      BY <1>1, <2>2, TermsType
    <3>5. T \in Int
      BY <1>1, <2>2, AdvanceType
    <3>6. Advanced(r, k) = preds[r][k] + D + T
      BY DEF Advanced
    <3> HIDE DEF T
    <3> QED BY <3>3, <3>4, <3>5, <3>6
  <2>4. preds' \in Gradients
    BY <2>1, <2>3 DEF Gradients
  <2> QED BY <1>1, <1>6, <2>1, <2>4 DEF Working
<1>18. CASE UNCHANGED vars
  <2>1. /\ gpair' = gpair /\ resident' = resident /\ preds' = preds /\ weight' = weight /\ pc' = pc
        /\ round_start_weight' = round_start_weight /\ page' = page /\ gid' = gid /\ i' = i
        /\ fidx' = fidx /\ counter' = counter /\ order' = order /\ ranked' = ranked
    BY <1>18 DEF vars, learner, model, convergence, selector, loop
  <2>2. Residual' = Residual
    BY <1>4, <2>1, Kept
  <2>3. /\ pc # "gradient" => round_start_weight \in Weights
        /\ pc \in Working => Residual \in Gradients
        /\ pc = "step" => fidx \in Features /\ i < Cardinality(Features)
        /\ pc \in {"pick", "step"} => Picking
    BY DEF TypeInv, Picking
  <2>4. Picking' = Picking
    BY <1>4, <1>5, <2>1 DEF Picking
  <2> QED BY <1>1, <1>6, <2>1, <2>2, <2>3, <2>4
<1> QED
  BY <1>7, <1>8, <1>9, <1>10, <1>11, <1>12, <1>14, <1>15, <1>16, <1>17, <1>18 DEF Next, Done

(* Gradients that are current at given weights.                            *)
Current(g, w) ==
  \A r \in Rows, k \in Groups :
    q.hess[r] >= 0 => g[r][k] = q.hess[r] * (MarginAt(w, r, k) - y[r][k])

(* What ResidualsCurrent is about: all rows are corrected at once.         *)
OnePage == q.updater = "shotgun" => NumPages = 1

(* ResidualsCurrent in those words.                                        *)
LEMMA CurrentIs ==
  ASSUME TypeInv
  PROVE  ResidualsCurrent <=> (pc \in Working /\ OnePage => Current(Residual, weight))
<1>1. \A r \in Rows, k \in Groups : PredictMargin(r, k) = MarginAt(weight, r, k)
  BY ContributionsSum DEF TypeInv
<1> QED BY <1>1 DEF ResidualsCurrent, Current, OnePage, Working

(* A step keeps the gradients current if it corrects every row by what its *)
(* margin moves.                                                           *)
LEMMA CurrentMoves ==
  ASSUME q \in Problems, y \in Gradients, NEW g, NEW h, NEW w \in Weights, NEW v \in Weights,
         g \in Gradients, Current(g, w),
         \A r \in Rows, k \in Groups : q.hess[r] >= 0 =>
           \E d \in Int : /\ MarginAt(v, r, k) = MarginAt(w, r, k) + d
                          /\ h[r][k] = g[r][k] + q.hess[r] * d
  PROVE  Current(h, v)
<1> SUFFICES ASSUME NEW r \in Rows, NEW k \in Groups, q.hess[r] >= 0
             PROVE  h[r][k] = q.hess[r] * (MarginAt(v, r, k) - y[r][k])
  BY DEF Current
<1>1. PICK d \in Int : /\ MarginAt(v, r, k) = MarginAt(w, r, k) + d
                       /\ h[r][k] = g[r][k] + q.hess[r] * d
  OBVIOUS
<1> DEFINE M == MarginAt(w, r, k)
           t == y[r][k]
           z == q.hess[r]
<1>2. M \in Int /\ t \in Int /\ z \in Int
  BY MarginType, Shape DEF Gradients
<1>3. g[r][k] = z * (M - t)
  BY DEF Current
<1> HIDE DEF M, t, z
<1>4. z * (M - t) + z * d = z * ((M + d) - t)
  BY <1>2
<1> QED BY <1>1, <1>3, <1>4 DEF M, t, z

(* Every step keeps the gradients current.                                 *)
LEMMA ResidualStep ==
  ASSUME IInv, [Next]_vars, TypeInv'
  PROVE  ResidualsCurrent'
<1>0. q' = q /\ y' = y
  BY DEF Next, vars, learner, model, convergence, selector, loop, ContinueFrom, StartRound,
         UpdateBias, Setup, NextFeature, SweepDone, ShotgunStep, CoordStep, DeviceStep, Finish,
         ApplyDelta, Done
<1>1. /\ TypeInv /\ q \in Problems /\ y \in Gradients /\ preds \in Gradients /\ weight \in Weights
      /\ weight' \in Weights
  <2>1. Weights' = Weights
    BY <1>0, Frame
  <2> QED BY <2>1 DEF IInv, TypeInv
<1>2. q' = q /\ y' = y
  BY <1>0
<1>3. /\ OnePage' = OnePage /\ Weights' = Weights /\ Rows' = Rows /\ Groups' = Groups
      /\ Features' = Features
  BY <1>2, Frame DEF OnePage
<1>4. ResidualsCurrent' <=> (pc' \in Working /\ OnePage => Current(Residual', weight'))
  <2>1. \A r \in Rows, k \in Groups : PredictMargin(r, k)' = MarginAt(weight', r, k)
    <3>1. Bias' = Bias
      BY <1>2, Frame
    <3> QED BY <1>2, <1>3, <3>1 DEF PredictMargin, MarginAt, Base
  <2> QED BY <1>2, <1>3, <2>1 DEF ResidualsCurrent, Current, OnePage, Working
<1>5. pc \in Working /\ OnePage => Current(Residual, weight)
  BY <1>1, CurrentIs DEF IInv
<1>6. Bias \in 1 .. Bias /\ \A f \in Features : f \in 1 .. Bias /\ f # Bias
  BY <1>1, Shape
<1>7. CASE pc' \notin Working
  BY <1>4, <1>7
<1>8. ASSUME pc \in Working, Residual' = Residual, weight' = weight PROVE ResidualsCurrent'
  BY <1>4, <1>5, <1>8
<1>9. CASE ContinueFrom \/ ApplyDelta \/ Finish
  <2>1. pc' \in {"gradient", "apply"}
    BY <1>9 DEF ContinueFrom, ApplyDelta, Finish
  <2> QED BY <1>7, <2>1 DEF Working
<1>10. CASE StartRound
  <2>1. /\ weight' = weight /\ pc = "gradient"
        /\ \/ pc' = "apply"
           \/ /\ pc' = "bias" /\ gpair' = Taken
              /\ resident' = IF Device THEN Taken ELSE resident
    BY <1>10 DEF StartRound, Taken, model
  <2>2. CASE pc' = "apply"
    BY <1>7, <2>2 DEF Working
  <2>3. CASE pc' = "bias"
    <3>1. Residual' = Taken
      <4>1. Device' = Device
        BY <1>2, Frame
      <4> QED BY <2>1, <2>3, <4>1 DEF Residual
    <3>2. \A r \in Rows, k \in Groups : preds[r][k] = MarginAt(weight, r, k)
      BY <2>1 DEF IInv, MarginsKept
    <3>3. Current(Taken, weight)
      BY <3>2 DEF Current, Taken
    <3> QED BY <1>4, <2>1, <3>1, <3>3
  <2> QED BY <2>1, <2>2, <2>3
<1>11. CASE UpdateBias
  <2>1. PICK db \in Int : /\ weight' = [weight EXCEPT ![Bias][gid] = @ + db]
                          /\ Residual' = UpdateBiasResidual(Residual, gid, db)
    BY <1>1, <1>11, BiasEffect
  <2>2. Residual \in Gradients /\ gid \in Groups /\ pc \in Working
    BY <1>1, <1>11 DEF TypeInv, UpdateBias, Working
  <2>3. \A r \in Rows, j \in Groups :
          Residual'[r][j] =
            Residual[r][j] + (IF q.hess[r] >= 0 /\ j = gid THEN q.hess[r] * db ELSE 0)
    BY <1>1, <2>1, <2>2, UpdateBiasIs
  <2>4. \A e \in 1 .. Bias, j \in Groups :
          weight'[e][j] = IF e = Bias /\ j = gid THEN weight[e][j] + db ELSE weight[e][j]
    BY <1>1, <1>6, <2>1, <2>2, Moves
  <2>5. ASSUME NEW r \in Rows, NEW k \in Groups, q.hess[r] >= 0
        PROVE  \E d \in Int : /\ MarginAt(weight', r, k) = MarginAt(weight, r, k) + d
                              /\ Residual'[r][k] = Residual[r][k] + q.hess[r] * d
    <3> DEFINE d == IF k = gid THEN db ELSE 0
    <3>1. weight'[Bias][k] - weight[Bias][k] = d
      <4>1. weight[Bias][k] \in Int
        BY <1>1, <1>6 DEF Weights
      <4> QED BY <1>6, <2>4, <4>1
    <3>2. \A e \in Features : weight'[e][k] = weight[e][k]
      BY <1>6, <2>4
    <3>3. MarginAt(weight', r, k) = MarginAt(weight, r, k) + d
      <4> HIDE DEF d
      <4>1. MarginAt(weight', r, k) =
              MarginAt(weight, r, k) + (weight'[Bias][k] - weight[Bias][k])
        BY <1>1, <3>2, InterceptMoves
      <4> QED BY <3>1, <4>1
    <3>4. q.hess[r] * 0 = 0
      <4>1. q.hess[r] \in Int
        BY <1>1, Shape
      <4> QED BY <4>1
    <3>5. Residual'[r][k] = Residual[r][k] + q.hess[r] * d
      BY <2>3, <2>5, <3>4
    <3>6. d \in Int
      OBVIOUS
    <3> HIDE DEF d
    <3> QED BY <3>3, <3>5, <3>6
  <2>6. OnePage => Current(Residual', weight')
    BY <1>1, <1>5, <2>2, <2>5, CurrentMoves
  <2> QED BY <1>4, <2>6
<1>12. CASE Setup \/ NextFeature \/ SweepDone
  <2>1. weight' = weight /\ pc \in Working
    BY <1>12 DEF Setup, NextFeature, SweepDone, model, Working
  <2>2. Residual' = Residual
    <3>1. CASE Setup \/ NextFeature
      <4>1. gpair' = Downloaded /\ resident' = resident
        BY <3>1 DEF Setup, NextFeature
      <4> QED BY <1>2, <4>1, Fetched
    <3>2. CASE SweepDone
      <4>1. gpair' = gpair /\ resident' = resident
        BY <3>2 DEF SweepDone
      <4> QED BY <1>2, <4>1, Kept
    <3> QED BY <1>12, <3>1, <3>2
  <2> QED BY <1>8, <2>1, <2>2
<1>13. ASSUME fidx \in Features, Residual \in Gradients, pc \in Working, NEW dw \in [Groups -> Int],
              \A e \in 1 .. Bias, j \in Groups :
                weight'[e][j] = IF e = fidx THEN weight[e][j] + dw[j] ELSE weight[e][j],
              OnePage => \A r \in Rows, k \in Groups :
                           Residual'[r][k] = Residual[r][k] + Due(r, fidx, dw[k])
       PROVE  ResidualsCurrent'
  <2>1. ASSUME OnePage, NEW r \in Rows, NEW k \in Groups, q.hess[r] >= 0
        PROVE  \E d \in Int : /\ MarginAt(weight', r, k) = MarginAt(weight, r, k) + d
                              /\ Residual'[r][k] = Residual[r][k] + q.hess[r] * d
    <3> DEFINE d == q.x[r][fidx] * dw[k]
    <3>1. q.x[r][fidx] \in Int /\ q.hess[r] \in Int /\ dw[k] \in Int
      BY <1>1, <1>13, Shape
    <3>2. d \in Int
      BY <3>1
    <3>3. weight'[fidx][k] - weight[fidx][k] = dw[k]
      <4>1. weight[fidx][k] \in Int
        BY <1>1, <1>6, <1>13 DEF Weights
      <4> QED BY <1>6, <1>13, <3>1, <4>1
    <3>4. \A e \in 1 .. Bias : e # fidx => weight'[e][k] = weight[e][k]
      BY <1>13
    <3>5. MarginAt(weight', r, k) = MarginAt(weight, r, k) + d
      <4>1. MarginAt(weight', r, k) =
              MarginAt(weight, r, k) + q.x[r][fidx] * (weight'[fidx][k] - weight[fidx][k])
        BY <1>1, <1>13, <3>4, MarginMoves
      <4> QED BY <3>3, <4>1
    <3>6. Due(r, fidx, dw[k]) = q.hess[r] * d
      <4>1. Due(r, fidx, dw[k]) = q.hess[r] * q.x[r][fidx] * dw[k]
        BY <2>1 DEF Due
      <4>2. \A a, b, c \in Int : a * b * c = a * (b * c)
        OBVIOUS
      <4> QED BY <3>1, <4>1, <4>2
    <3>7. Residual'[r][k] = Residual[r][k] + q.hess[r] * d
      BY <1>13, <2>1, <3>6
    <3> HIDE DEF d
    <3> QED BY <3>2, <3>5, <3>7
  <2>2. OnePage => Current(Residual', weight')
    BY <1>1, <1>5, <1>13, <2>1, CurrentMoves
  <2> QED BY <1>4, <2>2
<1>14. CASE ShotgunStep
  <2>1. PICK dw \in [Groups -> Int] :
          /\ weight' = [weight EXCEPT ![fidx] = [k \in Groups |-> @[k] + dw[k]]]
          /\ \A r \in Rows, k \in Groups :
                Residual'[r][k] =
                  Residual[r][k] + (IF r \in PageRows(page) THEN Due(r, fidx, dw[k]) ELSE 0)
    BY <1>1, <1>14, ShotgunEffect
  <2>2. fidx \in Features /\ Residual \in Gradients /\ pc \in Working /\ page \in 1 .. NumPages
        /\ q.updater = "shotgun"
    BY <1>1, <1>14 DEF TypeInv, ShotgunStep, Working
  <2>3. OnePage => \A r \in Rows : r \in PageRows(page)
    <3> SUFFICES ASSUME OnePage, NEW r \in Rows PROVE r \in PageRows(page)
      OBVIOUS
    <3>1. page = 1 /\ ((r - 1) \div q.batch) + 1 \in 1 .. 1
      BY <1>1, <2>2, Paged DEF OnePage
    <3>2. (r - 1) \div q.batch \in Int
      <4>1. r \in Int /\ q.batch \in Nat \ {0}
        BY <1>1, Shape
      <4> QED BY <4>1
    <3>3. (r - 1) \div q.batch = page - 1
      BY <3>1, <3>2
    <3> QED BY <3>3 DEF PageRows
  <2>4. OnePage => \A r \in Rows, k \in Groups :
                     Residual'[r][k] = Residual[r][k] + Due(r, fidx, dw[k])
    BY <2>1, <2>3
  <2>5. \A e \in 1 .. Bias, j \in Groups :
          weight'[e][j] = IF e = fidx THEN weight[e][j] + dw[j] ELSE weight[e][j]
    <3>1. weight \in [1 .. Bias -> [Groups -> Int]]
      BY <1>1 DEF Weights
    <3> QED BY <1>6, <2>1, <2>2, <3>1
  <2> QED BY <1>13, <2>2, <2>4, <2>5
<1>15. CASE CoordStep \/ DeviceStep
  <2>1. PICK d \in Int : /\ weight' = [weight EXCEPT ![fidx][gid] = @ + d]
                         /\ Corrects(Rows, fidx, gid, d, Residual, Residual')
    BY <1>1, <1>15, CoordEffect, DeviceEffect
  <2>2. fidx \in Features /\ Residual \in Gradients /\ pc \in Working /\ gid \in Groups
    BY <1>1, <1>15 DEF TypeInv, CoordStep, DeviceStep, Working
  <2> DEFINE dw == [k \in Groups |-> IF k = gid THEN d ELSE 0]
  <2>3. dw \in [Groups -> Int] /\ \A k \in Groups : dw[k] = IF k = gid THEN d ELSE 0
    OBVIOUS
  <2> HIDE DEF dw
  <2>4. \A e \in 1 .. Bias, j \in Groups :
          weight'[e][j] = IF e = fidx THEN weight[e][j] + dw[j] ELSE weight[e][j]
    <3>1. \A e \in 1 .. Bias, j \in Groups :
            weight'[e][j] = IF e = fidx /\ j = gid THEN weight[e][j] + d ELSE weight[e][j]
      BY <1>1, <1>6, <2>1, <2>2, Moves
    <3>2. \A e \in 1 .. Bias, j \in Groups : weight[e][j] \in Int
      BY <1>1 DEF Weights
    <3> QED BY <2>3, <3>1, <3>2
  <2>5. ASSUME NEW r \in Rows, NEW k \in Groups
        PROVE  Residual'[r][k] = Residual[r][k] + Due(r, fidx, dw[k])
    <3>1. Residual'[r][k] = Residual[r][k] + (IF k = gid THEN Due(r, fidx, d) ELSE 0)
      BY <2>1 DEF Corrects
    <3>2. Due(r, fidx, 0) = 0
      <4>1. q.hess[r] \in Int /\ q.x[r][fidx] \in Int
        BY <1>1, <2>2, Shape, SMTT(40)
      <4>2. q.hess[r] * q.x[r][fidx] * 0 = 0
        BY <4>1
      <4> QED BY <4>2 DEF Due
    <3> QED BY <2>3, <3>1, <3>2
  <2> QED BY <1>13, <2>2, <2>3, <2>4, <2>5
<1>16. CASE UNCHANGED vars
  <2>1. gpair' = gpair /\ resident' = resident /\ weight' = weight /\ pc' = pc
    BY <1>16 DEF vars, model
  <2>2. Residual' = Residual
    BY <1>2, <2>1, Kept
  <2> QED BY <1>7, <1>8, <2>1, <2>2
<1> QED
  BY <1>9, <1>10, <1>11, <1>12, <1>14, <1>15, <1>16 DEF Next, Done

(* Every step keeps the margins those of the weights a round started from. *)
LEMMA MarginStep ==
  ASSUME IInv, [Next]_vars, TypeInv'
  PROVE  MarginsKept'
<1>0. q' = q
  BY DEF Next, vars, learner, model, convergence, selector, loop, ContinueFrom, StartRound,
         UpdateBias, Setup, NextFeature, SweepDone, ShotgunStep, CoordStep, DeviceStep, Finish,
         ApplyDelta, Done
<1>1. /\ TypeInv /\ q \in Problems /\ y \in Gradients /\ preds \in Gradients /\ weight \in Weights
      /\ MarginsKept
  BY DEF IInv, TypeInv
<1>2. Rows' = Rows /\ Groups' = Groups
  BY <1>0, Frame
<1>3. MarginsKept' <=>
        \A r \in Rows, k \in Groups :
          /\ pc' = "gradient" => preds'[r][k] = MarginAt(weight', r, k)
          /\ pc' # "gradient" => preds'[r][k] = MarginAt(round_start_weight', r, k)
  <2>1. \A w, r, k : MarginAt(w, r, k)' = MarginAt(w, r, k)
    BY <1>0, FrameMargin
  <2> QED BY <1>2, <2>1 DEF MarginsKept
<1>4. CASE ContinueFrom
  <2>1. /\ preds' = [r \in Rows |-> [k \in Groups |-> PredictMargin(r, k)]] /\ pc' = "gradient"
        /\ weight' = weight
    BY <1>4 DEF ContinueFrom, model
  <2>2. \A r \in Rows, k \in Groups : PredictMargin(r, k) = MarginAt(weight, r, k)
    BY <1>1, ContributionsSum
  <2> QED BY <1>3, <2>1, <2>2
<1>5. CASE StartRound
  <2>1. /\ pc = "gradient" /\ pc' # "gradient" /\ preds' = preds /\ round_start_weight' = weight
    BY <1>5 DEF StartRound, learner
  <2> QED BY <1>1, <1>3, <2>1 DEF MarginsKept
<1>6. CASE ApplyDelta
  <2>1. /\ pc = "apply" /\ pc' = "gradient" /\ weight' = weight
        /\ preds' = [r \in Rows |-> [k \in Groups |-> Advanced(r, k)]]
    BY <1>6 DEF ApplyDelta
  <2>2. round_start_weight \in Weights
    BY <1>1, <2>1 DEF TypeInv
  <2>3. ASSUME NEW r \in Rows, NEW k \in Groups PROVE Advanced(r, k) = MarginAt(weight, r, k)
    <3>1. preds[r][k] = MarginAt(round_start_weight, r, k)
      BY <1>1, <2>1 DEF MarginsKept
    <3> QED BY <1>1, <2>2, <3>1, AdvanceIs DEF Advanced
  <2> QED BY <1>3, <2>1, <2>3
<1>7. CASE \/ UpdateBias \/ Setup \/ NextFeature \/ SweepDone \/ ShotgunStep \/ CoordStep
           \/ DeviceStep \/ Finish
  <2>1. /\ pc \in Working /\ preds' = preds /\ round_start_weight' = round_start_weight
    BY <1>7 DEF UpdateBias, Setup, NextFeature, SweepDone, ShotgunStep, CoordStep, DeviceStep,
                Finish, learner, convergence, Working
  <2>2. pc' # "gradient"
    BY <1>7 DEF UpdateBias, Setup, NextFeature, SweepDone, ShotgunStep, CoordStep, DeviceStep,
                Finish, EndSweep
  <2> QED BY <1>1, <1>3, <2>1, <2>2 DEF MarginsKept, Working
<1>8. CASE UNCHANGED vars
  <2>1. /\ weight' = weight /\ pc' = pc /\ preds' = preds
        /\ round_start_weight' = round_start_weight
    BY <1>8 DEF vars, learner, model, convergence
  <2> QED BY <1>1, <1>3, <2>1 DEF MarginsKept
<1> QED BY <1>4, <1>5, <1>6, <1>7, <1>8 DEF Next, Done

(* The sums of a page are what they were while the problem stays.          *)
LEMMA FrameColumn ==
  ASSUME q' = q, NEW p, NEW f
  PROVE  Column(p, f)' = Column(p, f)
BY DEF Column, InOrder, PageRows, Rows

LEMMA FrameInBlocks ==
  ASSUME q' = q, NEW rows, NEW term
  PROVE  InBlocks(rows, term)' = InBlocks(rows, term)
BY DEF InBlocks, Included

LEMMA FrameGradient ==
  ASSUME q' = q, NEW g, NEW p, NEW f, NEW k
  PROVE  ColumnGradient(g, p, f, k)' = ColumnGradient(g, p, f, k)
<1>1. Rows' = Rows
  BY Frame
<1>2. Column(p, f)' = Column(p, f)
  BY FrameColumn
<1>3. \A rows, term : InBlocks(rows, term)' = InBlocks(rows, term)
  BY FrameInBlocks
<1> QED BY <1>1, <1>2, <1>3 DEF ColumnGradient

LEMMA FrameSums ==
  ASSUME q' = q, NEW g, NEW f, NEW k
  PROVE  SumOverPages(g, f, k)' = SumOverPages(g, f, k)
<1>1. NumPages' = NumPages
  BY Frame
<1>2. \A p : ColumnGradient(g, p, f, k)' = ColumnGradient(g, p, f, k)
  BY FrameGradient
<1> QED BY <1>1, <1>2 DEF SumOverPages, Summed

(* And so are the steps.                                                   *)
LEMMA FrameDelta ==
  ASSUME q' = q, NEW s, NEW w
  PROVE  CoordinateDelta(s, w)' = CoordinateDelta(s, w)
<1>1. Rows' = Rows
  BY Frame
<1>2. SumInstanceWeight' = SumInstanceWeight
  BY <1>1 DEF SumInstanceWeight
<1> QED BY <1>2 DEF CoordinateDelta

(* The step of every feature, for given gradients and weights.             *)
StepsAt(g, w, k) == [f \in Features |-> CoordinateDelta(SumOverPages(g, f, k), w[f][k])]
LargestAt(g, w, k, f) == \A e \in Features : ~Larger(StepsAt(g, w, k)[e], StepsAt(g, w, k)[f])

(* They are the same as long as the problem is.                            *)
LEMMA FrameSteps ==
  ASSUME q' = q, NEW g, NEW w, NEW k
  PROVE  StepsAt(g, w, k)' = StepsAt(g, w, k)
<1>1. Features' = Features
  BY Frame
<1>2. \A f : SumOverPages(g, f, k)' = SumOverPages(g, f, k)
  BY FrameSums
<1>3. \A s, z : CoordinateDelta(s, z)' = CoordinateDelta(s, z)
  BY FrameDelta
<1> QED BY <1>1, <1>2, <1>3 DEF StepsAt

(* GreedyPicksLargest in those words.                                      *)
LEMMA GreedyIs ==
  GreedyPicksLargest <=>
    (pc = "step" /\ q.selector = "greedy" => LargestAt(Residual, weight, gid, fidx))
BY DEF GreedyPicksLargest, LargestAt, StepsAt

(* They are fractions.                                                     *)
LEMMA StepsType ==
  ASSUME q \in Problems, NEW g \in Gradients, NEW w \in Weights, NEW k \in Groups
  PROVE  StepsAt(g, w, k) \in [Features -> Steps]
<1> SUFFICES ASSUME NEW f \in Features
             PROVE  CoordinateDelta(SumOverPages(g, f, k), w[f][k]) \in Steps
  BY DEF StepsAt
<1>1. w[f][k] \in Int
  BY TermsType, Shape DEF Weights
<1>2. SumOverPages(g, f, k) \in Sums
  BY SumOverPagesType
<1> QED BY <1>1, <1>2, StepType

(* A pick is the largest as long as the state it was made in lasts.        *)
LEMMA GreedyStep ==
  ASSUME TypeInv, GreedyPicksLargest, [Next]_vars
  PROVE  GreedyPicksLargest'
<1>0. q' = q
  BY DEF Next, vars, learner, model, convergence, selector, loop, ContinueFrom, StartRound,
         UpdateBias, Setup, NextFeature, SweepDone, ShotgunStep, CoordStep, DeviceStep, Finish,
         ApplyDelta, Done
<1>1. GreedyPicksLargest' <=>
        (pc' = "step" /\ q.selector = "greedy" => LargestAt(Residual', weight', gid', fidx'))
  <2>1. Features' = Features
    BY <1>0, Frame
  <2>2. \A g, w, k : StepsAt(g, w, k)' = StepsAt(g, w, k)
    BY <1>0, FrameSteps
  <2>3. GreedyPicksLargest' <=>
          (pc' = "step" /\ q'.selector = "greedy" => LargestAt(Residual, weight, gid, fidx)')
    BY DEF GreedyPicksLargest, LargestAt, StepsAt
  <2>4. LargestAt(Residual, weight, gid, fidx)' <=> LargestAt(Residual', weight', gid', fidx')
    BY <2>1, <2>2 DEF LargestAt, Larger, Abs
  <2> QED BY <1>0, <2>3, <2>4
<1>2. CASE NextFeature
  <2> SUFFICES ASSUME pc' = "step", q.selector = "greedy"
               PROVE  LargestAt(Residual', weight', gid', fidx')
    BY <1>1
  <2>1. /\ q \in Problems /\ gid \in Groups /\ Residual \in Gradients /\ weight \in Weights
        /\ pc = "pick"
    BY <1>2 DEF TypeInv, NextFeature, Working
  <2>2. ReadsGradients
    BY DEF ReadsGradients
  <2>3. Residual' = Residual /\ weight' = weight
    <3>1. gpair' = Downloaded /\ resident' = resident /\ weight' = weight
      BY <1>2 DEF NextFeature, model
    <3> QED BY <1>0, <3>1, Fetched
  <2>4. fidx' = LargestStep(Downloaded, gid) /\ gid' = gid
    <3>1. CASE SlotTaken(gid)
      BY <1>2, <2>2, <3>1 DEF NextFeature
    <3>2. CASE ~SlotTaken(gid)
      <4>1. EndSweep
        BY <1>2, <2>2, <3>2 DEF NextFeature
      <4>2. pc' \in {pc, "finish"}
        BY <4>1 DEF EndSweep
      <4> QED BY <2>1, <4>2
    <3> QED BY <3>1, <3>2
  <2>5. Downloaded = Residual
    BY <2>2 DEF Downloaded, Residual
  <2> DEFINE st == StepsAt(Residual, weight, gid)
  <2>6. st \in [Features -> Steps]
    BY <2>1, StepsType
  <2>7. LargestStep(Downloaded, gid) = LargestOf(st)
    BY <2>5 DEF LargestStep, LargestOf, StepsAt
  <2>8. \A f \in Features : ~Larger(st[f], st[LargestOf(st)])
    <3> HIDE DEF st
    <3> QED BY <2>1, <2>6, LargestIs
  <2> QED BY <2>3, <2>4, <2>7, <2>8 DEF LargestAt
<1>3. CASE UNCHANGED vars
  <2>1. /\ gpair' = gpair /\ resident' = resident /\ weight' = weight /\ pc' = pc /\ gid' = gid
        /\ fidx' = fidx
    BY <1>3 DEF vars, model, loop
  <2>2. Residual' = Residual
    BY <1>0, <2>1, Kept
  <2> QED BY <1>1, <2>1, <2>2, GreedyIs
<1>4. CASE \/ ContinueFrom \/ StartRound \/ UpdateBias \/ Setup \/ SweepDone \/ ShotgunStep
           \/ CoordStep \/ DeviceStep \/ Finish \/ ApplyDelta
  <2>1. pc' # "step"
    BY <1>4 DEF ContinueFrom, StartRound, UpdateBias, Setup, SweepDone, EndSweep, ShotgunStep,
                CoordStep, DeviceStep, Finish, ApplyDelta
  <2> QED BY <1>1, <2>1
<1> QED BY <1>2, <1>3, <1>4 DEF Next, Done

(* Any step that coordinate_delta returns is the minimum of its penalised  *)
(* quadratic.                                                              *)
LEMMA DeltaMinimises ==
  ASSUME NEW grad \in Int, NEW hess \in Nat \ {0}, NEW alpha \in Nat, NEW w \in Int, NEW num,
         num = IF w * hess - grad >= 0 THEN GreaterOf(-(grad + alpha), -w * hess)
               ELSE LesserOf(-(grad - alpha), -w * hess)
  PROVE  LET slope == grad + num
             z == w * hess + num
         IN /\ z > 0 => slope = -alpha
            /\ z < 0 => slope = alpha
            /\ Abs(slope) <= alpha
<1> DEFINE p == w * hess
<1>1. p \in Int /\ -w * hess = -p
  OBVIOUS
<1>2. num = IF p - grad >= 0 THEN GreaterOf(-(grad + alpha), -p) ELSE LesserOf(-(grad - alpha), -p)
  BY <1>1
<1> HIDE DEF p
<1>3. /\ p + num > 0 => grad + num = -alpha
      /\ p + num < 0 => grad + num = alpha
      /\ Abs(grad + num) <= alpha
  BY <1>1, <1>2 DEF GreaterOf, LesserOf, Abs
<1> QED BY <1>3 DEF p

(* StepMinimises, at every typed state.                                    *)
LEMMA TypeMinimises == TypeInv => StepMinimises
<1> SUFFICES ASSUME TypeInv, pc = "step", NEW k \in Groups,
                    SumOverPages(Residual, fidx, k).hess > 0
             PROVE  LET s == SumOverPages(Residual, fidx, k)
                        w == weight[fidx][k]
                        d == CoordinateDelta(s, w)
                        alpha == q.alpha * SumInstanceWeight
                        slope == s.grad + q.lambda * SumInstanceWeight * w + d.num
                        z == w * d.den + d.num
                    IN /\ z > 0 => slope = -alpha
                       /\ z < 0 => slope = alpha
                       /\ Abs(slope) <= alpha
  BY DEF StepMinimises
<1> DEFINE s == SumOverPages(Residual, fidx, k)
           w == weight[fidx][k]
           d == CoordinateDelta(s, w)
           W == SumInstanceWeight
           alpha == q.alpha * W
           grad == s.grad + q.lambda * W * w
           hess == s.hess + q.lambda * W
<1>1. /\ q \in Problems /\ Residual \in Gradients /\ fidx \in Features /\ weight \in Weights
  BY DEF TypeInv, Working
<1>2. w \in Int /\ s.grad \in Int /\ s.hess \in Int
  <2>1. w \in Int
    BY <1>1, TermsType, Shape, SMTT(40) DEF Weights
  <2>2. s \in Sums
    BY <1>1, SumOverPagesType
  <2> HIDE DEF s
  <2> QED BY <2>1, <2>2 DEF Sums
<1>3. W \in Nat /\ q.alpha \in Nat /\ q.lambda \in Nat
  BY <1>1, WeightType, Shape
<1>4. s.hess > 0
  OBVIOUS
<1>5. d = IF w * hess - grad >= 0
          THEN [num |-> GreaterOf(-(grad + alpha), -w * hess), den |-> hess]
          ELSE [num |-> LesserOf(-(grad - alpha), -w * hess), den |-> hess]
  <2>1. ~(s.hess <= 0)
    BY <1>2, <1>4
  <2> HIDE DEF s
  <2> QED BY <2>1 DEF CoordinateDelta
<1>6. alpha \in Nat /\ grad \in Int /\ hess \in Nat \ {0}
  <2> HIDE DEF s, w, W
  <2>1. q.alpha * W \in Nat /\ q.lambda * W \in Nat
    BY <1>3
  <2>2. q.lambda * W * w \in Int
    BY <1>2, <2>1
  <2> QED BY <1>2, <1>4, <2>1, <2>2
<1>7. /\ d.den = hess
      /\ d.num = IF w * hess - grad >= 0 THEN GreaterOf(-(grad + alpha), -w * hess)
                 ELSE LesserOf(-(grad - alpha), -w * hess)
  <2> HIDE DEF d, grad, hess, alpha, s, w
  <2> QED BY <1>5
<1> DEFINE num == d.num
<1> HIDE DEF d, alpha, grad, hess, s, w, W
<1>8. /\ w * hess + num > 0 => grad + num = -alpha
      /\ w * hess + num < 0 => grad + num = alpha
      /\ Abs(grad + num) <= alpha
  BY <1>2, <1>6, <1>7, DeltaMinimises
<1> QED BY <1>7, <1>8 DEF d, alpha, grad, s, w, W

-----------------------------------------------------------------------------
(* Theorems.                                                               *)

(* The invariant holds from the start, and a pick made before the sweep    *)
(* starts there is none.                                                   *)
LEMMA InitGreedy == Init => GreedyPicksLargest
BY DEF Init, GreedyPicksLargest

(* The invariant is inductive.                                             *)
LEMMA InvStep ==
  ASSUME IInv, [Next]_vars
  PROVE  IInv'
<1>1. TypeInv'
  BY TypeStep DEF IInv
<1>2. MarginsKept' /\ ResidualsCurrent'
  BY <1>1, MarginStep, ResidualStep
<1> QED BY <1>1, <1>2 DEF IInv

(* The inductive invariant: typed state, margins of the weights a round     *)
(* started from, gradients of the weights of the moment.                   *)
THEOREM Invariant == Spec => []IInv
<1>1. Init => IInv
  BY InitType
<1>2. IInv /\ [Next]_vars => IInv'
  BY InvStep
<1> QED BY <1>1, <1>2, PTL DEF Spec

(* Every step of a sweep reads gradients of the weights of that moment, on *)
(* the host or the device, whatever the data, the page size and the order. *)
THEOREM Residuals == Spec => []ResidualsCurrent
<1>1. IInv => ResidualsCurrent
  BY DEF IInv
<1> QED BY <1>1, Invariant, PTL

(* Between rounds the margins of the learner are the model's predictions,  *)
(* though apply_delta never predicts, and contributions sum to them.       *)
THEOREM Margins == Spec => []MarginIsPrediction
<1>1. IInv => MarginIsPrediction
  <2> SUFFICES ASSUME IInv, pc = "gradient", NEW r \in Rows, NEW k \in Groups
               PROVE  /\ preds[r][k] = PredictMargin(r, k)
                      /\ PredictMargin(r, k) = Total(PredictContribution(r, k))
    BY DEF MarginIsPrediction
  <2>1. preds[r][k] = MarginAt(weight, r, k)
    BY DEF IInv, MarginsKept
  <2> QED BY <2>1, ContributionsSum DEF IInv, TypeInv
<1> QED BY <1>1, Invariant, PTL

(* A greedy pick has the largest step there is.                            *)
THEOREM Greedy == Spec => []GreedyPicksLargest
<1>1. Init => GreedyPicksLargest
  BY InitGreedy
<1>2. IInv /\ GreedyPicksLargest /\ [Next]_vars => GreedyPicksLargest'
  BY GreedyStep DEF IInv
<1> QED BY <1>1, <1>2, Invariant, PTL DEF Spec

(* The step of coordinate_delta minimises the penalised quadratic, for all *)
(* penalties, weights and gradients.                                       *)
THEOREM Minimises == Spec => []StepMinimises
<1>1. IInv => StepMinimises
  BY TypeMinimises DEF IInv
<1> QED BY <1>1, Invariant, PTL

=============================================================================
