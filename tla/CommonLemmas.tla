---------------------------- MODULE CommonLemmas -----------------------------
(***************************************************************************)
(* Facts of arithmetic, of induction, of folds and of sequences that the   *)
(* proofs about several components use.                                    *)
(***************************************************************************)
EXTENDS Integers, FiniteSets, SequencesExt, Subsequences, FiniteSetTheorems,
        WellFoundedInduction, TLAPS

(* A product with a natural number grows with its other factor.            *)
LEMMA Monotone ==
  ASSUME NEW a \in Int, NEW b \in Int, a <= b, NEW c \in Nat
  PROVE  a * c <= b * c
<1>1. (b - a) * c >= 0
  OBVIOUS
<1>2. (b - a) * c = b * c - a * c
  OBVIOUS
<1> QED BY <1>1, <1>2

(* What the quotient and the remainder of a natural number are.            *)
LEMMA DivBounds ==
  ASSUME NEW n \in Nat, NEW d \in Nat \ {0}
  PROVE  /\ n \div d \in Nat /\ n % d \in 0 .. d - 1
         /\ n = (n \div d) * d + (n % d)
         /\ (n \div d) * d <= n /\ n < ((n \div d) + 1) * d
<1>1. n \div d \in Nat /\ n % d \in 0 .. d - 1
  OBVIOUS
<1>2. n % d = n - d * (n \div d)
  OBVIOUS
<1> DEFINE k == n \div d
           m == n % d
<1>3. k \in Nat /\ m \in 0 .. d - 1 /\ m = n - d * k
  BY <1>1, <1>2
<1> HIDE DEF k, m
<1>4. d * k = k * d /\ k * d \in Int /\ (k + 1) * d = k * d + d
  BY <1>3
<1>5. n = k * d + m /\ k * d <= n /\ n < (k + 1) * d
  BY <1>3, <1>4
<1> QED BY <1>3, <1>5 DEF k, m

(* The quotient and the remainder of a number written as k * d + r.        *)
LEMMA DivOf ==
  ASSUME NEW k \in Nat, NEW d \in Nat \ {0}, NEW r \in 0 .. d - 1
  PROVE  (k * d + r) \div d = k /\ (k * d + r) % d = r
<1> DEFINE n == k * d + r
<1>1. n \in Nat /\ k * d \in Int
  OBVIOUS
<1>2. /\ n \div d \in Nat /\ n % d \in 0 .. d - 1 /\ n = (n \div d) * d + (n % d)
  BY <1>1, DivBounds
<1> DEFINE q == n \div d
           m == n % d
<1>3. q \in Nat /\ m \in 0 .. d - 1 /\ k * d + r = q * d + m
  BY <1>2
<1> HIDE DEF q, m, n
<1>4. ~(q < k)
  <2> SUFFICES ASSUME q < k PROVE FALSE
    OBVIOUS
  <2>1. (q + 1) * d <= k * d /\ (q + 1) * d = q * d + d /\ q * d \in Int
    BY <1>3, Monotone
  <2> QED BY <1>1, <1>3, <2>1
<1>5. ~(k < q)
  <2> SUFFICES ASSUME k < q PROVE FALSE
    OBVIOUS
  <2>1. (k + 1) * d <= q * d /\ (k + 1) * d = k * d + d /\ q * d \in Int
    BY <1>3, Monotone
  <2> QED BY <1>1, <1>3, <2>1
<1>6. q = k
  BY <1>3, <1>4, <1>5
<1>7. m = r
  BY <1>1, <1>3, <1>6
<1> QED BY <1>6, <1>7 DEF q, m, n

(* Places are numbered through rows of G blocks of P each: no place is in  *)
(* two blocks.                                                             *)
LEMMA BlockUnique ==
  ASSUME NEW P \in Nat \ {0}, NEW G \in Nat \ {0}, NEW t \in Int,
         NEW k \in Int, NEW g \in 0 .. G - 1, NEW l \in Int, NEW h \in 0 .. G - 1,
         k * (P * G) + g * P < t, t <= k * (P * G) + (g + 1) * P,
         l * (P * G) + h * P < t, t <= l * (P * G) + (h + 1) * P
  PROVE  k = l /\ g = h
<1> DEFINE N == P * G
<1>1. N \in Nat
  OBVIOUS
<1>2. /\ (g + 1) * P <= N /\ (h + 1) * P <= N /\ 0 <= g * P /\ 0 <= h * P
      /\ g * P \in Int /\ h * P \in Int /\ (g + 1) * P \in Int /\ (h + 1) * P \in Int
  BY Monotone
<1>3. /\ k * N + g * P < t /\ t <= k * N + (g + 1) * P
      /\ l * N + h * P < t /\ t <= l * N + (h + 1) * P
  OBVIOUS
<1> HIDE DEF N
<1>4. ~(k < l)
  <2> SUFFICES ASSUME k < l PROVE FALSE
    OBVIOUS
  <2>1. (k + 1) * N <= l * N
    BY <1>1, Monotone
  <2>2. (k + 1) * N = k * N + N /\ k * N \in Int /\ l * N \in Int
    BY <1>1
  <2> QED BY <1>1, <1>2, <1>3, <2>1, <2>2
<1>5. ~(l < k)
  <2> SUFFICES ASSUME l < k PROVE FALSE
    OBVIOUS
  <2>1. (l + 1) * N <= k * N
    BY <1>1, Monotone
  <2>2. (l + 1) * N = l * N + N /\ k * N \in Int /\ l * N \in Int
    BY <1>1
  <2> QED BY <1>1, <1>2, <1>3, <2>1, <2>2
<1>6. k = l
  BY <1>4, <1>5
<1>7. k * N \in Int
  BY <1>1
<1>8. g * P < (h + 1) * P /\ h * P < (g + 1) * P
  BY <1>2, <1>3, <1>6, <1>7
<1>9. ~(g < h)
  <2> SUFFICES ASSUME g < h PROVE FALSE
    OBVIOUS
  <2>1. (g + 1) * P <= h * P
    BY Monotone
  <2> QED BY <1>2, <1>8, <2>1
<1>10. ~(h < g)
  <2> SUFFICES ASSUME h < g PROVE FALSE
    OBVIOUS
  <2>1. (h + 1) * P <= g * P
    BY Monotone
  <2> QED BY <1>2, <1>8, <2>1
<1> QED BY <1>6, <1>9, <1>10

(* The place that is a-th in row k is in the block (a - 1) \div P of that  *)
(* row.                                                                    *)
LEMMA TurnInBlock ==
  ASSUME NEW P \in Nat \ {0}, NEW G \in Nat \ {0}, NEW k \in Int, NEW a \in 1 .. P * G
  PROVE  LET g == (a - 1) \div P
         IN /\ g \in 0 .. G - 1
            /\ k * (P * G) + g * P < k * (P * G) + a
            /\ k * (P * G) + a <= k * (P * G) + (g + 1) * P
            /\ g * P + ((a - 1) % P) + 1 = a
<1> DEFINE g == (a - 1) \div P
           m == (a - 1) % P
<1>0. P * G \in Nat /\ k * (P * G) \in Int
  OBVIOUS
<1>1. a - 1 \in Nat /\ a - 1 < P * G
  BY <1>0
<1>2. /\ g \in Nat /\ m \in 0 .. P - 1 /\ a - 1 = g * P + m
      /\ g * P <= a - 1 /\ a - 1 < (g + 1) * P
  BY <1>1, DivBounds
<1> HIDE DEF g, m
<1>3. g < G
  <2> SUFFICES ASSUME G <= g PROVE FALSE
    BY <1>2
  <2>1. G * P <= g * P
    BY <1>2, Monotone
  <2>2. G * P = P * G /\ g * P \in Int
    BY <1>2
  <2> QED BY <1>0, <1>1, <1>2, <2>1, <2>2
<1>4. g * P \in Int /\ (g + 1) * P \in Int
  BY <1>2
<1>5. g \in 0 .. G - 1
  BY <1>2, <1>3
<1>6. g * P < a /\ a <= (g + 1) * P /\ g * P + m + 1 = a
  BY <1>1, <1>2, <1>4
<1>7. /\ k * (P * G) + g * P < k * (P * G) + a
      /\ k * (P * G) + a <= k * (P * G) + (g + 1) * P
  BY <1>0, <1>4, <1>6
<1> QED BY <1>5, <1>6, <1>7 DEF g, m

-----------------------------------------------------------------------------
(* Counting. *)

(* An injective function has as many values as arguments.                   *)
LEMMA ImageSize ==
  ASSUME NEW k \in Nat, NEW A, NEW f \in [1 .. k -> A],
         \A x \in A : \E i \in 1 .. k : f[i] = x,
         \A i, j \in 1 .. k : f[i] = f[j] => i = j
  PROVE  IsFiniteSet(A) /\ Cardinality(A) = k
<1>1. f \in Surjection(1 .. k, A) /\ f \in Injection(1 .. k, A)
  BY DEF Surjection, Injection, IsInjective
<1>2. IsFiniteSet(1 .. k) /\ Cardinality(1 .. k) = k
  BY FS_Interval
<1>3. IsFiniteSet(A) /\ Cardinality(A) = Cardinality(1 .. k)
  BY <1>1, <1>2, FS_Surjection
<1> QED BY <1>2, <1>3

-----------------------------------------------------------------------------
(***************************************************************************)
(* Induction, stated over sets instead of operators so that a proof can    *)
(* cite it with the set of the numbers, or of the sets, it wants.          *)
(***************************************************************************)

(* A set of natural numbers that is not empty has a least member.          *)
LEMMA LeastOf ==
  ASSUME NEW T \in SUBSET Nat, T # {}
  PROVE  \E n \in T : \A m \in T : n <= m
<1>1. PICK n \in T : \A m \in T : ~(<<m, n>> \in OpToRel(<, Nat))
  BY NatLessThanWellFounded, WFMin
<1>2. \A m \in T : ~(m < n)
  BY <1>1 DEF OpToRel
<1> QED BY <1>2

(* A set with zero that is closed under successor has every natural number.*)
LEMMA NatSetInduction ==
  ASSUME NEW C, 0 \in C, \A n \in Nat : n \in C => n + 1 \in C
  PROVE  \A n \in Nat : n \in C
<1> SUFFICES ASSUME NEW k \in Nat, k \notin C PROVE FALSE
  OBVIOUS
<1> DEFINE T == {n \in Nat : n \notin C}
<1>1. PICK n \in T : \A m \in T : n <= m
  <2>1. T # {} /\ T \in SUBSET Nat
    OBVIOUS
  <2> HIDE DEF T
  <2> QED BY <2>1, LeastOf
<1>2. n # 0 /\ n - 1 \in Nat /\ n - 1 \notin T
  BY <1>1
<1> QED BY <1>2, n = (n - 1) + 1

(* A family with the empty set that is closed under adding one member has  *)
(* every finite set.                                                       *)
LEMMA FiniteSetInduction ==
  ASSUME NEW S, IsFiniteSet(S), NEW C, {} \in C,
         \A T \in SUBSET S, x \in S : T \in C /\ x \notin T => T \cup {x} \in C
  PROVE  S \in C
<1> DEFINE G == {n \in Nat : \A T \in SUBSET S : Cardinality(T) = n => T \in C}
<1>0. \A T \in SUBSET S : IsFiniteSet(T) /\ Cardinality(T) \in Nat
  BY FS_Subset, FS_CardinalityType
<1>1. 0 \in G
  BY <1>0, FS_EmptySet
<1>2. ASSUME NEW n \in Nat, n \in G PROVE n + 1 \in G
  <2> SUFFICES ASSUME NEW T \in SUBSET S, Cardinality(T) = n + 1 PROVE T \in C
    OBVIOUS
  <2>1. T # {}
    <3>1. Cardinality({}) = 0
      BY FS_EmptySet
    <3>2. Cardinality(T) # 0
      OBVIOUS
    <3> QED BY <3>1, <3>2, Zenon
  <2>2. PICK x \in T : TRUE
    BY <2>1
  <2>3. Cardinality(T \ {x}) = n
    <3>1. IsFiniteSet(T)
      BY <1>0
    <3>2. Cardinality(T \ {x}) = IF x \in T THEN Cardinality(T) - 1 ELSE Cardinality(T)
      BY <3>1, FS_RemoveElement
    <3> QED BY <3>2
  <2>4. T \ {x} \in C
    BY <1>2, <2>3
  <2> QED BY <2>2, <2>4, T = (T \ {x}) \cup {x}
<1> HIDE DEF G
<1>3. \A n \in Nat : n \in G
  BY <1>1, <1>2, NatSetInduction
<1> QED BY <1>0, <1>3 DEF G

-----------------------------------------------------------------------------
(* Folds.                                                                  *)

(* The greatest number of a set that has n and nothing above it.           *)
LEMMA MaxIs ==
  ASSUME NEW n \in Nat, NEW S \in SUBSET (1 .. n), n \in S
  PROVE  Max(S) = n
<1>1. \A m \in S : n >= m
  OBVIOUS
<1>2. \A x \in S : (\A m \in S : x >= m) => x = n
  <2> SUFFICES ASSUME NEW x \in S, \A m \in S : x >= m PROVE x = n
    OBVIOUS
  <2>1. x >= n /\ x \in 1 .. n
    OBVIOUS
  <2> QED BY <2>1
<1>3. \E x \in S : \A m \in S : x >= m
  BY <1>1
<1>4. Max(S) \in S /\ \A m \in S : Max(S) >= m
  BY <1>3, Zenon DEF Max
<1> QED BY <1>2, <1>4

(* A set of positions that is not empty has a greatest one.                *)
LEMMA MaxIn ==
  ASSUME NEW n \in Nat, NEW S \in SUBSET (1 .. n), S # {}
  PROVE  Max(S) \in S /\ Max(S) \in 1 .. n
<1> DEFINE T == {m \in Nat : \A z \in S : z <= m}
<1>1. PICK m \in T : \A k \in T : m <= k
  <2>1. T # {} /\ T \in SUBSET Nat
    <3>1. n \in T
      OBVIOUS
    <3> QED BY <3>1
  <2> HIDE DEF T
  <2> QED BY <2>1, LeastOf
<1>2. m \in S
  <2> SUFFICES ASSUME m \notin S PROVE FALSE
    OBVIOUS
  <2>1. \A z \in S : z <= m - 1 /\ z \in 1 .. n
    BY <1>1
  <2>2. m - 1 \in Nat
    <3>1. PICK z \in S : TRUE
      OBVIOUS
    <3>2. m \in Nat /\ z <= m - 1 /\ z \in 1 .. n
      BY <1>1, <2>1, <3>1
    <3> QED BY <3>2
  <2> QED BY <1>1, <2>1, <2>2
<1>3. S \in SUBSET (1 .. m) /\ m \in Nat
  BY <1>1
<1> QED BY <1>2, <1>3, MaxIs

(* g folds the positions of a set, from the greatest one down.             *)
FoldOn(n, base, step, g) ==
  \A S \in SUBSET (1 .. n) :
    g[S] = IF S = {} THEN base ELSE step[<<Max(S), g[S \ {Max(S)}]>>]

(* h folds so as long as its values are in D.                              *)
Folds(n, D, base, step, h) ==
  /\ h[{}] = base
  /\ \A S \in SUBSET (1 .. n) :
       S # {} /\ h[S \ {Max(S)}] \in D => h[S] = step[<<Max(S), h[S \ {Max(S)}]>>]

(* v is the last of what has been folded after each position.              *)
Result(n, D, base, step, v) ==
  \E R \in [0 .. n -> D] :
    /\ R[0] = base /\ R[n] = v
    /\ \A k \in 1 .. n : R[k] = step[<<k, R[k - 1]>>]

(* A fold over a sequence is defined by a function of sets of positions,    *)
(* which exists.                                                           *)
LEMMA FoldExists ==
  ASSUME NEW n \in Nat, NEW D, NEW base \in D, NEW step \in [(1 .. n) \X D -> D]
  PROVE  \E g \in [SUBSET (1 .. n) -> D] : FoldOn(n, base, step, g)
<1> DEFINE Has(k) == \E g \in [SUBSET (1 .. k) -> D] : FoldOn(k, base, step, g)
           C == {k \in Nat : k <= n => Has(k)}
<1>1. 0 \in C
  <2> DEFINE g == [S \in SUBSET (1 .. 0) |-> base]
  <2>1. \A S \in SUBSET (1 .. 0) : S = {}
    OBVIOUS
  <2>2. g \in [SUBSET (1 .. 0) -> D] /\ \A S \in SUBSET (1 .. 0) : g[S] = base
    OBVIOUS
  <2>3. FoldOn(0, base, step, g)
    BY <2>1, <2>2 DEF FoldOn
  <2> HIDE DEF g
  <2> QED BY <2>2, <2>3
<1>2. ASSUME NEW k \in Nat, k \in C PROVE k + 1 \in C
  <2> HIDE DEF Has
  <2> SUFFICES ASSUME k + 1 <= n PROVE Has(k + 1)
    OBVIOUS
  <2>0. Has(k)
    BY <1>2
  <2>1. PICK f \in [SUBSET (1 .. k) -> D] : FoldOn(k, base, step, f)
    BY <2>0 DEF Has
  <2> DEFINE g == [S \in SUBSET (1 .. k + 1) |->
                     IF k + 1 \in S THEN step[<<k + 1, f[S \ {k + 1}]>>] ELSE f[S]]
  <2>2. \A S \in SUBSET (1 .. k + 1) : S \ {k + 1} \in SUBSET (1 .. k)
    OBVIOUS
  <2>3. \A S \in SUBSET (1 .. k + 1) : k + 1 \notin S => S \in SUBSET (1 .. k)
    BY <2>2
  <2>4. k + 1 \in 1 .. n
    OBVIOUS
  <2>5. g \in [SUBSET (1 .. k + 1) -> D]
    <3> SUFFICES ASSUME NEW S \in SUBSET (1 .. k + 1) PROVE g[S] \in D
      OBVIOUS
    <3>1. CASE k + 1 \in S
      <4>1. f[S \ {k + 1}] \in D
        BY <2>2
      <4> QED BY <3>1, <2>4, <4>1
    <3>2. CASE k + 1 \notin S
      BY <3>2, <2>3
    <3> QED BY <3>1, <3>2
  <2>6. ASSUME NEW S \in SUBSET (1 .. k + 1)
        PROVE  g[S] = IF S = {} THEN base ELSE step[<<Max(S), g[S \ {Max(S)}]>>]
    <3>1. CASE k + 1 \in S
      <4>1. Max(S) = k + 1
        BY <3>1, MaxIs
      <4>2. g[S \ {k + 1}] = f[S \ {k + 1}]
        BY <2>2
      <4>3. g[S] = step[<<k + 1, f[S \ {k + 1}]>>]
        BY <3>1
      <4> HIDE DEF g
      <4> QED BY <3>1, <4>1, <4>2, <4>3
    <3>2. CASE k + 1 \notin S
      <4>1. S \in SUBSET (1 .. k) /\ g[S] = f[S]
        BY <3>2, <2>3
      <4>2. S \ {Max(S)} \in SUBSET (1 .. k) /\ k + 1 \notin S \ {Max(S)}
        BY <3>2, <4>1
      <4>3. g[S \ {Max(S)}] = f[S \ {Max(S)}]
        BY <4>2
      <4>4. f[S] = IF S = {} THEN base ELSE step[<<Max(S), f[S \ {Max(S)}]>>]
        BY <4>1, <2>1 DEF FoldOn
      <4> HIDE DEF g
      <4> QED BY <4>1, <4>3, <4>4
    <3> QED BY <3>1, <3>2
  <2> HIDE DEF g
  <2>7. FoldOn(k + 1, base, step, g)
    BY <2>6 DEF FoldOn
  <2> QED BY <2>5, <2>7 DEF Has
<1> HIDE DEF C, Has
<1>3. n \in C
  BY <1>1, <1>2, NatSetInduction
<1>4. Has(n)
  BY <1>3 DEF C
<1> QED BY <1>4 DEF Has

(* The values such a function takes, one position after the other.         *)
LEMMA RunOf ==
  ASSUME NEW n \in Nat, NEW D, NEW base \in D, NEW step \in [(1 .. n) \X D -> D],
         NEW h, Folds(n, D, base, step, h)
  PROVE  Result(n, D, base, step, h[1 .. n])
<1>1. ASSUME NEW k \in 1 .. n, h[1 .. k - 1] \in D
      PROVE  h[1 .. k] = step[<<k, h[1 .. k - 1]>>] /\ h[1 .. k] \in D
  <2>1. Max(1 .. k) = k
    BY MaxIs
  <2>2. (1 .. k) \ {k} = 1 .. k - 1
    OBVIOUS
  <2>3. 1 .. k \in SUBSET (1 .. n) /\ 1 .. k # {}
    OBVIOUS
  <2>4. h[1 .. k] = step[<<k, h[1 .. k - 1]>>]
    BY <1>1, <2>1, <2>2, <2>3 DEF Folds
  <2> QED BY <1>1, <2>4
<1> DEFINE C == {k \in Nat : k <= n => h[1 .. k] \in D}
<1>2. 0 \in C
  <2>1. 1 .. 0 = {}
    OBVIOUS
  <2> QED BY <2>1 DEF Folds
<1>3. ASSUME NEW k \in Nat, k \in C PROVE k + 1 \in C
  <2> SUFFICES ASSUME k + 1 <= n PROVE h[1 .. k + 1] \in D
    OBVIOUS
  <2>1. k + 1 \in 1 .. n /\ (k + 1) - 1 = k /\ h[1 .. k] \in D
    BY <1>3
  <2> QED BY <1>1, <2>1
<1> HIDE DEF C
<1>4. \A k \in Nat : k \in C
  BY <1>2, <1>3, NatSetInduction
<1>5. \A k \in 0 .. n : h[1 .. k] \in D
  BY <1>4 DEF C
<1> DEFINE R == [k \in 0 .. n |-> h[1 .. k]]
<1>6. R \in [0 .. n -> D] /\ R[n] = h[1 .. n]
  BY <1>5
<1>7. R[0] = base
  <2>1. 1 .. 0 = {}
    OBVIOUS
  <2> QED BY <2>1 DEF Folds
<1>8. ASSUME NEW k \in 1 .. n PROVE R[k] = step[<<k, R[k - 1]>>]
  <2>1. k - 1 \in 0 .. n /\ k \in 0 .. n
    OBVIOUS
  <2>2. R[k] = h[1 .. k] /\ R[k - 1] = h[1 .. k - 1]
    BY <2>1
  <2> QED BY <1>1, <1>5, <2>1, <2>2
<1> HIDE DEF R
<1> QED BY <1>6, <1>7, <1>8 DEF Result

-----------------------------------------------------------------------------
(* Sequences. *)

(* What is appended is the last element.                                   *)
LEMMA Appended ==
  ASSUME NEW X, NEW u \in Seq(X), NEW x \in X
  PROVE  /\ Append(u, x) \in Seq(X) /\ Len(u) \in Nat /\ Len(Append(u, x)) = Len(u) + 1
         /\ DOMAIN u = 1 .. Len(u) /\ DOMAIN Append(u, x) = 1 .. Len(u) + 1
         /\ \A i \in 1 .. Len(u) : Append(u, x)[i] = u[i]
         /\ Append(u, x)[Len(u) + 1] = x
OBVIOUS

(* Appending adds one element, and adds it once if it is new.              *)
LEMMA AppendedElems ==
  ASSUME NEW X, NEW u \in Seq(X), NEW x \in X
  PROVE  Elems(Append(u, x)) = Elems(u) \cup {x}
<1> DEFINE v == Append(u, x)
           n == Len(u)
<1>1. /\ n \in Nat /\ DOMAIN u = 1 .. n /\ DOMAIN v = 1 .. n + 1
      /\ \A i \in 1 .. n : v[i] = u[i]
      /\ v[n + 1] = x
  BY Appended
<1> HIDE DEF v, n
<1>2. \A y \in Elems(v) : y \in Elems(u) \cup {x}
  <2> SUFFICES ASSUME NEW i \in 1 .. n + 1 PROVE v[i] \in Elems(u) \cup {x}
    BY <1>1 DEF Elems
  <2>1. CASE i = n + 1
    BY <1>1, <2>1
  <2>2. CASE i \in 1 .. n
    BY <1>1, <2>2 DEF Elems
  <2> QED BY <1>1, <2>1, <2>2
<1>3. \A y \in Elems(u) : y \in Elems(v)
  <2> SUFFICES ASSUME NEW i \in 1 .. n PROVE u[i] \in Elems(v)
    BY <1>1 DEF Elems
  <2>1. i \in 1 .. n + 1 /\ v[i] = u[i]
    BY <1>1
  <2> QED BY <1>1, <2>1 DEF Elems
<1>4. x \in Elems(v)
  <2>1. n + 1 \in 1 .. n + 1
    BY <1>1
  <2> QED BY <1>1, <2>1 DEF Elems
<1> QED BY <1>2, <1>3, <1>4 DEF v

(* Sequences chosen from longer and longer parts of s.                     *)
Choosing(X, s, S, F) ==
  /\ F \in [0 .. Len(s) -> Seq(X)] /\ F[0] = <<>> /\ F[Len(s)] = Chosen(s, S)
  /\ \A k \in 1 .. Len(s) : F[k] = IF s[k] \in S THEN Append(F[k - 1], s[k]) ELSE F[k - 1]

(* The fold of Chosen, step by step.                                       *)
LEMMA ChosenRun ==
  ASSUME NEW X, NEW s \in Seq(X), NEW S
  PROVE  \E F : Choosing(X, s, S, F)
<1> DEFINE n == Len(s)
           E(F, m) == [k \in 0 .. m |-> IF k = 0 THEN <<>>
                                        ELSE IF s[k] \in S THEN Append(F[k - 1], s[k]) ELSE F[k - 1]]
           Has(m) == \E F : F \in [0 .. m -> Seq(X)] /\ F = E(F, m)
           C == {m \in Nat : m <= n => Has(m)}
           h == CHOOSE F : F = E(F, n)
<1>1. n \in Nat /\ \A k \in 1 .. n : s[k] \in X
  OBVIOUS
<1>2. 0 \in C
  <2> DEFINE F == [k \in 0 .. 0 |-> <<>>]
  <2>1. F \in [0 .. 0 -> Seq(X)] /\ F = E(F, 0)
    OBVIOUS
  <2> HIDE DEF F, E
  <2> QED BY <2>1
<1>3. ASSUME NEW m \in Nat, m \in C PROVE m + 1 \in C
  <2> HIDE DEF Has, E, n, h
  <2> SUFFICES ASSUME m + 1 <= n PROVE Has(m + 1)
    OBVIOUS
  <2>1. Has(m)
    BY <1>1, <1>3
  <2> USE DEF E
  <2>2. PICK F : F \in [0 .. m -> Seq(X)] /\ F = E(F, m)
    BY <2>1 DEF Has
  <2> DEFINE x == IF s[m + 1] \in S THEN Append(F[m], s[m + 1]) ELSE F[m]
             G == [k \in 0 .. m + 1 |-> IF k = m + 1 THEN x ELSE F[k]]
  <2>3. x \in Seq(X)
    <3>1. m + 1 \in 1 .. n /\ m \in 0 .. m
      BY <1>1
    <3> QED BY <1>1, <2>2, <3>1
  <2>4. G \in [0 .. m + 1 -> Seq(X)]
    BY <2>2, <2>3
  <2>5. \A k \in 0 .. m : G[k] = F[k]
    OBVIOUS
  <2>6. G[m + 1] = x
    OBVIOUS
  <2>7. \A k \in 0 .. m + 1 :
          G[k] = IF k = 0 THEN <<>>
                 ELSE IF s[k] \in S THEN Append(G[k - 1], s[k]) ELSE G[k - 1]
    <3> SUFFICES ASSUME NEW k \in 0 .. m + 1
                 PROVE  G[k] = IF k = 0 THEN <<>>
                               ELSE IF s[k] \in S THEN Append(G[k - 1], s[k]) ELSE G[k - 1]
      OBVIOUS
    <3>1. CASE k = m + 1
      <4>1. k # 0 /\ k - 1 = m /\ m \in 0 .. m
        BY <3>1
      <4>2. G[m] = F[m]
        BY <2>5, <4>1
      <4> HIDE DEF G
      <4> QED BY <3>1, <4>1, <4>2, <2>6
    <3>2. CASE k \in 0 .. m
      <4>1. F[k] = IF k = 0 THEN <<>>
                   ELSE IF s[k] \in S THEN Append(F[k - 1], s[k]) ELSE F[k - 1]
        BY <2>2, <3>2
      <4>2. G[k] = F[k] /\ (k # 0 => G[k - 1] = F[k - 1])
        <5>1. k # 0 => k - 1 \in 0 .. m
          BY <3>2
        <5> QED BY <2>5, <3>2, <5>1
      <4> HIDE DEF G
      <4> QED BY <4>1, <4>2
    <3> QED BY <3>1, <3>2
  <2> HIDE DEF G
  <2>8. G = E(G, m + 1)
    BY <2>4, <2>7
  <2> QED BY <2>4, <2>8 DEF Has
<1> HIDE DEF C, Has
<1>4. n \in C
  BY <1>1, <1>2, <1>3, NatSetInduction
<1>5. PICK G : G \in [0 .. n -> Seq(X)] /\ G = E(G, n)
  <2>1. Has(n)
    <3> HIDE DEF n
    <3> QED BY <1>1, <1>4 DEF C
  <2> HIDE DEF E, n
  <2> QED BY <2>1 DEF Has
<1>6. h = E(h, n)
  BY <1>5
<1>7. Chosen(s, S) = h[n]
  BY DEF Chosen
<1> DEFINE A(k) == k \in 0 .. n => h[k] \in Seq(X)
           B == {k \in Nat : A(k)}
<1>8. /\ h[0] = <<>>
      /\ \A k \in 1 .. n : h[k] = IF s[k] \in S THEN Append(h[k - 1], s[k]) ELSE h[k - 1]
      /\ DOMAIN h = 0 .. n
  <2>1. 0 \in 0 .. n /\ \A k \in 1 .. n : k \in 0 .. n /\ k # 0
    BY <1>1
  <2>2. \A k \in 0 .. n : h[k] = IF k = 0 THEN <<>>
                                 ELSE IF s[k] \in S THEN Append(h[k - 1], s[k]) ELSE h[k - 1]
    BY <1>6
  <2>3. DOMAIN h = 0 .. n
    BY <1>6
  <2> HIDE DEF h
  <2> QED BY <2>1, <2>2, <2>3
<1>e. h = [k \in 0 .. n |-> h[k]]
  <2>1. h = [k \in 0 .. n |-> IF k = 0 THEN <<>>
                              ELSE IF s[k] \in S THEN Append(h[k - 1], s[k]) ELSE h[k - 1]]
    BY <1>6
  <2> HIDE DEF h
  <2> QED BY <2>1
<1> HIDE DEF h
<1>9. 0 \in B
  <2>1. h[0] \in Seq(X)
    BY <1>8
  <2> QED BY <2>1
<1>10. ASSUME NEW k \in Nat, k \in B PROVE k + 1 \in B
  <2> SUFFICES ASSUME k + 1 \in 0 .. n PROVE h[k + 1] \in Seq(X)
    OBVIOUS
  <2>1. k + 1 \in 1 .. n /\ (k + 1) - 1 = k /\ k \in 0 .. n
    BY <1>1
  <2>2. h[k] \in Seq(X) /\ s[k + 1] \in X
    BY <1>1, <1>10, <2>1
  <2>3. h[k + 1] = IF s[k + 1] \in S THEN Append(h[k], s[k + 1]) ELSE h[k]
    BY <1>8, <2>1
  <2> QED BY <2>2, <2>3
<1> HIDE DEF B
<1>11. \A k \in Nat : k \in B
  BY <1>9, <1>10, NatSetInduction
<1>12. \A k \in 0 .. n : h[k] \in Seq(X)
  BY <1>11 DEF B
<1>13. h \in [0 .. n -> Seq(X)]
  BY <1>12, <1>e
<1>14. Choosing(X, s, S, h)
  BY <1>7, <1>8, <1>13 DEF Choosing
<1> QED BY <1>14

(* The elements that are chosen, and that they and the others are all.     *)
LEMMA ChosenElems ==
  ASSUME NEW X, NEW s \in Seq(X), NEW S
  PROVE  Chosen(s, S) \in Seq(X) /\ Elems(Chosen(s, S)) = Elems(s) \cap S
<1>1. PICK F : Choosing(X, s, S, F)
  BY ChosenRun
<1> DEFINE n == Len(s)
           C == {k \in Nat : k <= n => Elems(F[k]) = {s[i] : i \in 1 .. k} \cap S}
<1>2. n \in Nat /\ DOMAIN s = 1 .. n /\ \A k \in 1 .. n : s[k] \in X
  OBVIOUS
<1>3. /\ F \in [0 .. n -> Seq(X)] /\ F[0] = <<>> /\ F[n] = Chosen(s, S)
      /\ \A k \in 1 .. n : F[k] = IF s[k] \in S THEN Append(F[k - 1], s[k]) ELSE F[k - 1]
  BY <1>1 DEF Choosing
<1> HIDE DEF n
<1>4. 0 \in C
  <2>1. Elems(F[0]) = {}
    BY <1>3 DEF Elems
  <2> QED BY <2>1
<1>5. ASSUME NEW k \in Nat, k \in C PROVE k + 1 \in C
  <2> SUFFICES ASSUME k + 1 <= n
               PROVE  Elems(F[k + 1]) = {s[i] : i \in 1 .. k + 1} \cap S
    OBVIOUS
  <2>1. k + 1 \in 1 .. n /\ (k + 1) - 1 = k /\ k \in 0 .. n
    BY <1>2
  <2>2. F[k + 1] = IF s[k + 1] \in S THEN Append(F[k], s[k + 1]) ELSE F[k]
    BY <1>3, <2>1
  <2>3. Elems(F[k]) = {s[i] : i \in 1 .. k} \cap S
    BY <1>2, <1>5
  <2>4. {s[i] : i \in 1 .. k + 1} = {s[i] : i \in 1 .. k} \cup {s[k + 1]}
    <3>1. 1 .. k + 1 = (1 .. k) \cup {k + 1}
      OBVIOUS
    <3> QED BY <3>1
  <2>5. CASE s[k + 1] \in S
    <3>1. Elems(F[k + 1]) = Elems(F[k]) \cup {s[k + 1]}
      <4>1. F[k] \in Seq(X) /\ s[k + 1] \in X
        BY <1>2, <1>3, <2>1
      <4> QED BY <2>2, <2>5, <4>1, AppendedElems
    <3> QED BY <2>3, <2>4, <2>5, <3>1
  <2>6. CASE s[k + 1] \notin S
    BY <2>2, <2>3, <2>4, <2>6
  <2> QED BY <2>5, <2>6
<1> HIDE DEF C
<1>6. n \in C
  BY <1>2, <1>4, <1>5, NatSetInduction
<1>7. Elems(F[n]) = {s[i] : i \in 1 .. n} \cap S
  BY <1>2, <1>6 DEF C
<1>8. F[n] \in Seq(X)
  BY <1>2, <1>3
<1>9. Elems(s) = {s[i] : i \in 1 .. n}
  BY <1>2 DEF Elems
<1> HIDE DEF C
<1> QED BY <1>3, <1>7, <1>8, <1>9

(* Choosing a set and choosing the others use every place once.            *)
LEMMA ChosenLengths ==
  ASSUME NEW X, NEW s \in Seq(X), NEW S, NEW T,
         \A x \in X : x \in T <=> x \notin S
  PROVE  Len(Chosen(s, S)) + Len(Chosen(s, T)) = Len(s)
<1>1. PICK F : Choosing(X, s, S, F)
  BY ChosenRun
<1>2. PICK G : Choosing(X, s, T, G)
  BY ChosenRun
<1> DEFINE n == Len(s)
           L == [k \in 0 .. n |-> Len(F[k])]
           H == [k \in 0 .. n |-> Len(G[k])]
           C == {k \in Nat : k <= n => L[k] + H[k] = k}
<1>3. n \in Nat /\ \A k \in 1 .. n : s[k] \in X
  OBVIOUS
<1>4. /\ F \in [0 .. n -> Seq(X)] /\ F[0] = <<>> /\ F[n] = Chosen(s, S)
      /\ \A k \in 1 .. n : F[k] = IF s[k] \in S THEN Append(F[k - 1], s[k]) ELSE F[k - 1]
  BY <1>1 DEF Choosing
<1>5. /\ G \in [0 .. n -> Seq(X)] /\ G[0] = <<>> /\ G[n] = Chosen(s, T)
      /\ \A k \in 1 .. n : G[k] = IF s[k] \in T THEN Append(G[k - 1], s[k]) ELSE G[k - 1]
  BY <1>2 DEF Choosing
<1> HIDE DEF n
<1>6. \A k \in 0 .. n : L[k] = Len(F[k]) /\ H[k] = Len(G[k]) /\ L[k] \in Nat /\ H[k] \in Nat
  BY <1>4, <1>5
<1>7. L[0] = 0 /\ H[0] = 0
  <2>1. 0 \in 0 .. n
    BY <1>3
  <2>2. L[0] = Len(F[0]) /\ H[0] = Len(G[0])
    BY <1>6, <2>1
  <2> QED BY <1>4, <1>5, <2>2
<1>8. \A k \in 1 .. n : /\ L[k] = IF s[k] \in S THEN L[k - 1] + 1 ELSE L[k - 1]
                        /\ H[k] = IF s[k] \in T THEN H[k - 1] + 1 ELSE H[k - 1]
  <2> SUFFICES ASSUME NEW k \in 1 .. n
               PROVE  /\ L[k] = IF s[k] \in S THEN L[k - 1] + 1 ELSE L[k - 1]
                      /\ H[k] = IF s[k] \in T THEN H[k - 1] + 1 ELSE H[k - 1]
    OBVIOUS
  <2>1. k \in 0 .. n /\ k - 1 \in 0 .. n
    BY <1>3
  <2>2. F[k - 1] \in Seq(X) /\ G[k - 1] \in Seq(X) /\ s[k] \in X
    BY <1>3, <1>4, <1>5, <2>1
  <2>3. /\ Len(Append(F[k - 1], s[k])) = Len(F[k - 1]) + 1
        /\ Len(Append(G[k - 1], s[k])) = Len(G[k - 1]) + 1
    BY <2>2, Appended
  <2>4. /\ L[k] = Len(F[k]) /\ L[k - 1] = Len(F[k - 1])
        /\ H[k] = Len(G[k]) /\ H[k - 1] = Len(G[k - 1])
    BY <1>6, <2>1
  <2> HIDE DEF L, H
  <2>5. L[k] = IF s[k] \in S THEN L[k - 1] + 1 ELSE L[k - 1]
    BY <1>4, <2>3, <2>4
  <2>6. H[k] = IF s[k] \in T THEN H[k - 1] + 1 ELSE H[k - 1]
    BY <1>5, <2>3, <2>4
  <2> QED BY <2>5, <2>6
<1> HIDE DEF L, H
<1>9. 0 \in C
  BY <1>7
<1>10. ASSUME NEW k \in Nat, k \in C PROVE k + 1 \in C
  <2> SUFFICES ASSUME k + 1 <= n PROVE L[k + 1] + H[k + 1] = k + 1
    OBVIOUS
  <2>1. k + 1 \in 1 .. n /\ (k + 1) - 1 = k /\ k \in 0 .. n
    BY <1>3
  <2>2. L[k] + H[k] = k /\ L[k] \in Nat /\ H[k] \in Nat
    BY <1>3, <1>6, <1>10, <2>1
  <2>3. s[k + 1] \in T <=> s[k + 1] \notin S
    BY <1>3, <2>1
  <2>4. /\ L[k + 1] = IF s[k + 1] \in S THEN L[k] + 1 ELSE L[k]
        /\ H[k + 1] = IF s[k + 1] \in T THEN H[k] + 1 ELSE H[k]
    BY <1>8, <2>1
  <2>5. CASE s[k + 1] \in S
    BY <2>2, <2>3, <2>4, <2>5
  <2>6. CASE s[k + 1] \notin S
    BY <2>2, <2>3, <2>4, <2>6
  <2> QED BY <2>5, <2>6
<1> HIDE DEF C
<1>11. n \in C
  BY <1>3, <1>9, <1>10, NatSetInduction
<1>12. L[n] + H[n] = n /\ n \in 0 .. n
  BY <1>3, <1>11 DEF C
<1>13. L[n] = Len(Chosen(s, S)) /\ H[n] = Len(Chosen(s, T))
  BY <1>4, <1>5, <1>6, <1>12
<1> QED BY <1>12, <1>13 DEF n

(* Places are chosen in their order, each once.                            *)
Rising(c) == \A a, b \in DOMAIN c : a < b => c[a] < c[b]

(* Chosen places rise.                                                     *)
LEMMA ChosenPlaces ==
  ASSUME NEW X, NEW s \in Seq(X), NEW S
  PROVE  /\ Chosen(Numbered(s), S) \in Seq(DOMAIN s) /\ Rising(Chosen(Numbered(s), S))
         /\ Elems(Chosen(Numbered(s), S)) = DOMAIN s \cap S
<1> DEFINE n == Len(s)
           t == Numbered(s)
<1>1. n \in Nat /\ DOMAIN s = 1 .. n
  OBVIOUS
<1> HIDE DEF n
<1>2. /\ t \in Seq(1 .. n) /\ Len(t) = n /\ \A k \in 1 .. n : t[k] = k
      /\ Elems(t) = 1 .. n
  BY <1>1 DEF Numbered, Elems
<1> HIDE DEF t
<1>3. PICK F : Choosing(1 .. n, t, S, F)
  BY <1>2, ChosenRun
<1>4. /\ F \in [0 .. n -> Seq(1 .. n)] /\ F[0] = <<>> /\ F[n] = Chosen(t, S)
      /\ \A k \in 1 .. n : F[k] = IF k \in S THEN Append(F[k - 1], k) ELSE F[k - 1]
  BY <1>2, <1>3 DEF Choosing
<1> DEFINE C == {k \in Nat : k <= n => Rising(F[k]) /\ \A a \in DOMAIN F[k] : F[k][a] <= k}
<1>5. 0 \in C
  BY <1>4 DEF Rising
<1>6. ASSUME NEW k \in Nat, k \in C PROVE k + 1 \in C
  <2> SUFFICES ASSUME k + 1 <= n
               PROVE  Rising(F[k + 1]) /\ \A a \in DOMAIN F[k + 1] : F[k + 1][a] <= k + 1
    OBVIOUS
  <2>1. k + 1 \in 1 .. n /\ (k + 1) - 1 = k /\ k \in 0 .. n
    BY <1>1
  <2>2. F[k + 1] = IF k + 1 \in S THEN Append(F[k], k + 1) ELSE F[k]
    BY <1>4, <2>1
  <2>3. Rising(F[k]) /\ \A a \in DOMAIN F[k] : F[k][a] <= k
    BY <1>1, <1>6
  <2> DEFINE u == F[k]
             v == F[k + 1]
             m == Len(u)
             x == k + 1
  <2>4. u \in Seq(1 .. n)
    BY <1>4, <2>1
  <2>5. \A a \in DOMAIN u : u[a] \in Int
    BY <1>1, <2>4
  <2>6. CASE k + 1 \in S
    <3>1. x \in 1 .. n
      BY <2>1
    <3> HIDE DEF u, x
    <3>2. /\ m \in Nat /\ DOMAIN u = 1 .. m /\ DOMAIN Append(u, x) = 1 .. m + 1
          /\ \A i \in 1 .. m : Append(u, x)[i] = u[i]
          /\ Append(u, x)[m + 1] = x
      BY <2>4, <3>1, Appended
    <3>3. v = Append(u, x)
      BY <2>2, <2>6 DEF u, x
    <3> HIDE DEF v, m
    <3>4. Rising(u) /\ \A a \in 1 .. m : u[a] < x /\ u[a] \in Int /\ x \in Int
      BY <2>3, <2>5, <3>2 DEF u, x
    <3>5. \A a \in 1 .. m + 1 : v[a] <= x
      BY <3>1, <3>2, <3>3, <3>4
    <3>6. ASSUME NEW a \in 1 .. m + 1, NEW b \in 1 .. m + 1, a < b PROVE v[a] < v[b]
      <4>1. a \in 1 .. m
        BY <3>2, <3>6
      <4>2. CASE b = m + 1
        BY <3>2, <3>3, <3>4, <4>1, <4>2
      <4>3. CASE b \in 1 .. m
        BY <3>2, <3>3, <3>4, <3>6, <4>1, <4>3 DEF Rising
      <4> QED BY <3>2, <4>2, <4>3
    <3> QED BY <3>2, <3>3, <3>5, <3>6 DEF Rising, v, x
  <2>7. CASE k + 1 \notin S
    <3>1. v = u
      BY <2>2, <2>7
    <3>2. \A a \in DOMAIN u : u[a] <= k /\ u[a] \in Int
      BY <2>3, <2>5
    <3> HIDE DEF u
    <3> QED BY <2>3, <3>1, <3>2 DEF u
  <2> QED BY <2>6, <2>7
<1> HIDE DEF C
<1>7. n \in C
  BY <1>1, <1>5, <1>6, NatSetInduction
<1>8. Rising(F[n])
  BY <1>1, <1>7 DEF C
<1>9. F[n] \in Seq(1 .. n)
  BY <1>1, <1>4
<1>10. Elems(Chosen(t, S)) = Elems(t) \cap S
  BY <1>2, ChosenElems
<1> QED BY <1>1, <1>2, <1>4, <1>8, <1>9, <1>10 DEF t

(* The elements of a concatenation are those of its parts, once if they    *)
(* are apart.                                                              *)
LEMMA Concatenated ==
  ASSUME NEW X, NEW u \in Seq(X), NEW v \in Seq(X)
  PROVE  /\ u \o v \in Seq(X) /\ Len(u \o v) = Len(u) + Len(v)
         /\ \A i \in 1 .. Len(u) : (u \o v)[i] = u[i]
         /\ \A i \in 1 .. Len(v) : (u \o v)[Len(u) + i] = v[i]
         /\ Elems(u \o v) = Elems(u) \cup Elems(v)
<1> DEFINE m == Len(u)
           n == Len(v)
           w == u \o v
<1>1. /\ m \in Nat /\ n \in Nat /\ DOMAIN u = 1 .. m /\ DOMAIN v = 1 .. n
      /\ w \in Seq(X) /\ Len(w) = m + n /\ DOMAIN w = 1 .. m + n
      /\ \A i \in 1 .. m : w[i] = u[i]
  OBVIOUS
<1>2. \A i \in 1 .. n : w[m + i] = v[i]
  OBVIOUS
<1> HIDE DEF m, n, w
<1>3. ASSUME NEW y \in Elems(w) PROVE y \in Elems(u) \cup Elems(v)
  <2>1. PICK i \in 1 .. m + n : y = w[i]
    BY <1>1 DEF Elems
  <2>2. CASE i \in 1 .. m
    BY <1>1, <2>1, <2>2 DEF Elems
  <2>3. CASE i \notin 1 .. m
    <3>1. i - m \in 1 .. n /\ i = m + (i - m)
      BY <1>1, <2>3
    <3>2. w[i] = v[i - m]
      BY <1>2, <3>1
    <3> QED BY <1>1, <2>1, <3>1, <3>2 DEF Elems
  <2> QED BY <2>2, <2>3
<1>4. ASSUME NEW i \in 1 .. m PROVE u[i] \in Elems(w)
  <2>1. i \in 1 .. m + n
    BY <1>1
  <2> QED BY <1>1, <2>1 DEF Elems
<1>5. ASSUME NEW i \in 1 .. n PROVE v[i] \in Elems(w)
  <2>1. m + i \in 1 .. m + n
    BY <1>1
  <2> QED BY <1>1, <1>2, <2>1 DEF Elems
<1>6. Elems(u) \subseteq Elems(w) /\ Elems(v) \subseteq Elems(w)
  BY <1>1, <1>4, <1>5 DEF Elems
<1>7. Elems(w) = Elems(u) \cup Elems(v)
  BY <1>3, <1>6
<1> QED BY <1>1, <1>2, <1>7 DEF m, n, w

-----------------------------------------------------------------------------
(* Sums over a finite set.                                                 *)

(* g sums f over each subset of S, one chosen member after another.        *)
Pick(T) == CHOOSE x \in T : TRUE
SumsTo(f, T, g) == g[T] = IF T = {} THEN 0 ELSE f[Pick(T)] + g[T \ {Pick(T)}]
SubsetSums(f, S, g) == \A T \in SUBSET S : SumsTo(f, T, g)

(* What is picked is a member, and the rest is smaller by one.             *)
LEMMA Rest ==
  ASSUME NEW T, IsFiniteSet(T), T # {}
  PROVE  /\ Pick(T) \in T /\ IsFiniteSet(T \ {Pick(T)})
         /\ \A x \in T : /\ IsFiniteSet(T \ {x}) /\ Cardinality(T \ {x}) = Cardinality(T) - 1
                         /\ Cardinality(T) \in Nat \ {0}
<1>1. Pick(T) \in T
  BY DEF Pick
<1>2. Cardinality(T) \in Nat /\ Cardinality(T) # 0
  BY FS_CardinalityType, FS_EmptySet
<1>3. ASSUME NEW x \in T
      PROVE  IsFiniteSet(T \ {x}) /\ Cardinality(T \ {x}) = Cardinality(T) - 1
  BY <1>3, FS_RemoveElement
<1> QED BY <1>1, <1>2, <1>3

(* Sums over the subsets exist.                                            *)
LEMMA SumsExist ==
  ASSUME NEW S, IsFiniteSet(S), NEW f, \A x \in S : f[x] \in Int
  PROVE  \E g \in [SUBSET S -> Int] : SubsetSums(f, S, g)
<1> DEFINE C == {n \in Nat : \E g \in [SUBSET S -> Int] :
                               \A T \in SUBSET S : Cardinality(T) <= n => SumsTo(f, T, g)}
<1>1. \A T \in SUBSET S : IsFiniteSet(T) /\ Cardinality(T) \in Nat
  BY FS_Subset, FS_CardinalityType
<1>2. 0 \in C
  <2> DEFINE g == [T \in SUBSET S |-> 0]
  <2>1. ASSUME NEW T \in SUBSET S, Cardinality(T) <= 0 PROVE SumsTo(f, T, g)
    <3>1. T = {}
      BY <1>1, <2>1, FS_EmptySet
    <3> QED BY <3>1 DEF SumsTo
  <2>2. g \in [SUBSET S -> Int]
    OBVIOUS
  <2> HIDE DEF g
  <2> QED BY <2>1, <2>2
<1>3. ASSUME NEW n \in Nat, n \in C PROVE n + 1 \in C
  <2>1. PICK g \in [SUBSET S -> Int] :
          \A T \in SUBSET S : Cardinality(T) <= n => SumsTo(f, T, g)
    BY <1>3
  <2> DEFINE G == [T \in SUBSET S |-> IF Cardinality(T) = n + 1
                                      THEN f[Pick(T)] + g[T \ {Pick(T)}] ELSE g[T]]
  <2>2. ASSUME NEW T \in SUBSET S, Cardinality(T) = n + 1
        PROVE  /\ T # {} /\ Pick(T) \in S /\ T \ {Pick(T)} \in SUBSET S
               /\ Cardinality(T \ {Pick(T)}) = n
    <3>1. T # {}
      BY <2>2, FS_EmptySet
    <3> QED BY <1>1, <2>2, <3>1, Rest
  <2>3. G \in [SUBSET S -> Int]
    BY <2>2
  <2>4. ASSUME NEW T \in SUBSET S, Cardinality(T) <= n + 1 PROVE SumsTo(f, T, G)
    <3>1. CASE Cardinality(T) = n + 1
      <4>1. G[T] = f[Pick(T)] + g[T \ {Pick(T)}]
        BY <3>1
      <4>2. G[T \ {Pick(T)}] = g[T \ {Pick(T)}]
        BY <2>2, <3>1
      <4> HIDE DEF G
      <4> QED BY <2>2, <3>1, <4>1, <4>2 DEF SumsTo
    <3>2. CASE Cardinality(T) # n + 1
      <4>1. Cardinality(T) <= n
        BY <1>1, <2>4, <3>2
      <4>2. G[T] = g[T] /\ SumsTo(f, T, g)
        BY <2>1, <3>2, <4>1
      <4>3. T # {} => G[T \ {Pick(T)}] = g[T \ {Pick(T)}]
        <5> SUFFICES ASSUME T # {} PROVE G[T \ {Pick(T)}] = g[T \ {Pick(T)}]
          OBVIOUS
        <5>1. Pick(T) \in T /\ Cardinality(T \ {Pick(T)}) = Cardinality(T) - 1
          BY <1>1, Rest
        <5>2. Cardinality(T \ {Pick(T)}) # n + 1 /\ T \ {Pick(T)} \in SUBSET S
          BY <1>1, <4>1, <5>1
        <5> QED BY <5>2
      <4> HIDE DEF G
      <4> QED BY <4>2, <4>3 DEF SumsTo
    <3> QED BY <3>1, <3>2
  <2> HIDE DEF G
  <2> QED BY <2>3, <2>4
<1> HIDE DEF C
<1>4. Cardinality(S) \in C
  BY <1>1, <1>2, <1>3, NatSetInduction
<1>5. PICK g \in [SUBSET S -> Int] :
        \A T \in SUBSET S : Cardinality(T) <= Cardinality(S) => SumsTo(f, T, g)
  BY <1>4 DEF C
<1>6. \A T \in SUBSET S : Cardinality(T) <= Cardinality(S)
  BY FS_Subset
<1> QED BY <1>5, <1>6 DEF SubsetSums

(* They do not depend on the set they are taken from.                      *)
LEMMA SumsAgree ==
  ASSUME NEW S, IsFiniteSet(S), NEW f, NEW g, SubsetSums(f, S, g),
         NEW T \in SUBSET S, NEW h, SubsetSums(f, T, h)
  PROVE  h[T] = g[T]
<1> DEFINE C == {U \in SUBSET T : h[U] = g[U]}
           D == {n \in Nat : \A U \in SUBSET T : Cardinality(U) = n => h[U] = g[U]}
<1>1. \A U \in SUBSET T : IsFiniteSet(U) /\ Cardinality(U) \in Nat /\ U \in SUBSET S
  BY FS_Subset, FS_CardinalityType
<1>2. 0 \in D
  <2> SUFFICES ASSUME NEW U \in SUBSET T, Cardinality(U) = 0 PROVE h[U] = g[U]
    OBVIOUS
  <2>1. U = {}
    BY <1>1, FS_EmptySet
  <2> QED BY <1>1, <2>1 DEF SubsetSums, SumsTo
<1>3. ASSUME NEW n \in Nat, n \in D PROVE n + 1 \in D
  <2> SUFFICES ASSUME NEW U \in SUBSET T, Cardinality(U) = n + 1 PROVE h[U] = g[U]
    OBVIOUS
  <2>1. U # {}
    BY FS_EmptySet
  <2>2. Cardinality(U \ {Pick(U)}) = n /\ U \ {Pick(U)} \in SUBSET T
    BY <1>1, <2>1, Rest
  <2>3. h[U \ {Pick(U)}] = g[U \ {Pick(U)}]
    BY <1>3, <2>2
  <2> QED BY <1>1, <2>1, <2>3 DEF SubsetSums, SumsTo
<1> HIDE DEF D
<1>4. Cardinality(T) \in D
  BY <1>1, <1>2, <1>3, NatSetInduction
<1> QED BY <1>4 DEF D

(* Any member can be taken out first.                                      *)
OutOf(f, S, g) == \A x \in S : g[S] = f[x] + g[S \ {x}]

(* Of any set whose subsets are summed.                                    *)
LEMMA TakenOut ==
  ASSUME NEW S, IsFiniteSet(S), NEW f, \A x \in S : f[x] \in Int,
         NEW g \in [SUBSET S -> Int], SubsetSums(f, S, g)
  PROVE  OutOf(f, S, g)
<1> DEFINE D == {n \in Nat : \A T \in SUBSET S : Cardinality(T) = n =>
                               \A y \in T : g[T] = f[y] + g[T \ {y}]}
<1>1. \A T \in SUBSET S : IsFiniteSet(T) /\ Cardinality(T) \in Nat
  BY FS_Subset, FS_CardinalityType
<1>2. 0 \in D
  BY <1>1, FS_EmptySet
<1>3. ASSUME NEW n \in Nat, n \in D PROVE n + 1 \in D
  <2> SUFFICES ASSUME NEW T \in SUBSET S, Cardinality(T) = n + 1, NEW y \in T
               PROVE  g[T] = f[y] + g[T \ {y}]
    OBVIOUS
  <2>1. PICK z : z = Pick(T)
    OBVIOUS
  <2>2. z \in T /\ \A w \in T : Cardinality(T \ {w}) = n
    <3>1. T # {} /\ IsFiniteSet(T) /\ Cardinality(T) = n + 1
      BY <1>1
    <3>2. Pick(T) \in T /\ \A w \in T : Cardinality(T \ {w}) = Cardinality(T) - 1
      BY <3>1, Rest
    <3> QED BY <2>1, <3>1, <3>2
  <2>3. g[T] = f[z] + g[T \ {z}]
    BY <2>1, <2>2 DEF SubsetSums, SumsTo
  <2>4. CASE y = z
    BY <2>3, <2>4
  <2>5. CASE y # z
    <3> DEFINE U == T \ {y, z}
    <3>1. (T \ {z}) \ {y} = U /\ (T \ {y}) \ {z} = U /\ U \in SUBSET S
      OBVIOUS
    <3>2. ASSUME NEW V \in SUBSET S, Cardinality(V) = n, NEW w \in V
          PROVE  g[V] = f[w] + g[V \ {w}]
      BY <1>3, <3>2
    <3>3. g[T \ {z}] = f[y] + g[U]
      <4>1. PICK V : V = T \ {z}
        OBVIOUS
      <4>2. y \in V /\ V \in SUBSET S /\ Cardinality(V) = n
        BY <2>2, <2>5, <4>1
      <4>3. g[V] = f[y] + g[V \ {y}]
        BY <3>2, <4>2
      <4> QED BY <3>1, <4>1, <4>3
    <3>5. g[T \ {y}] = f[z] + g[U]
      <4>1. PICK V : V = T \ {y}
        OBVIOUS
      <4>2. z \in V /\ V \in SUBSET S /\ Cardinality(V) = n
        BY <2>2, <2>5, <4>1
      <4>3. g[V] = f[z] + g[V \ {z}]
        BY <3>2, <4>2
      <4> QED BY <3>1, <4>1, <4>3
    <3>4. g[U] \in Int /\ f[y] \in Int /\ f[z] \in Int
      BY <2>2, <3>1
    <3> QED BY <2>3, <3>3, <3>4, <3>5
  <2> QED BY <2>4, <2>5
<1> HIDE DEF D
<1>4. Cardinality(S) \in D
  BY <1>1, <1>2, <1>3, NatSetInduction
<1> QED BY <1>4 DEF D, OutOf

=============================================================================
