-------------------------- MODULE SplitSearchProofs --------------------------
(***************************************************************************)
(* What SplitSearch keeps true of every tree it grows, for every number of *)
(* rows, features, bins and categories, every gradient and every setting:  *)
(* the split found for a node is the best of all that are allowed and adds *)
(* up to the rows on its sides, the features along a path stay within one  *)
(* interaction group, and more of a constrained number moves no prediction *)
(* the wrong way.                                                          *)
(*                                                                         *)
(* None is inductive.  That an order holds between any two leaves on the   *)
(* two sides of a split follows from the boxes handed down: a weight is    *)
(* within the box of every node above its leaf, and the boxes of a split's *)
(* children lie apart when its feature is constrained.  So the invariant   *)
(* says how nodes are linked, what path and box each keeps, that its sums  *)
(* are those of its rows and that the split it has found is one it is      *)
(* allowed and gains the most.  The last is a fact about all scans of all  *)
(* kinds of feature, that each candidate parts the rows and each parting   *)
(* has a candidate; and gains and boxes need that fractions, which the     *)
(* model compares without a common denominator, are ordered: the first     *)
(* half of the module.                                                     *)
(***************************************************************************)
EXTENDS SplitSearch, CommonLemmas

-----------------------------------------------------------------------------
(* Greatest common divisors.                                               *)

(* D divides both, and is no divisor of nothing unless both are 0.         *)
Divides(d, n) == \E k \in Nat : n = k * d
DividesBoth(d, a, b) ==
  /\ d \in Nat /\ Divides(d, a) /\ Divides(d, b)
  /\ a # 0 \/ b # 0 => d # 0

(* G is Euclid's recursion, for second arguments up to n.                  *)
Euclid(n, G) ==
  \A a \in Nat, b \in 0 .. n : G[<<a, b>>] = IF b = 0 THEN a ELSE G[<<b, a % b>>]

(* A divisor of a number and of the remainder divides the other number.    *)
LEMMA DividesRest ==
  ASSUME NEW a \in Nat, NEW b \in Nat \ {0}, NEW d \in Nat, DividesBoth(d, b, a % b)
  PROVE  DividesBoth(d, a, b)
<1>1. PICK k \in Nat, l \in Nat : b = k * d /\ a % b = l * d
  BY DEF DividesBoth, Divides
<1>2. PICK q \in Nat, m \in Nat : a = q * b + m /\ m = a % b
  <2>1. a \div b \in Nat /\ a % b \in 0 .. b - 1 /\ a = (a \div b) * b + (a % b)
    BY DivBounds
  <2>2. a % b \in Nat
    BY <2>1
  <2> QED BY <2>1, <2>2
<1>3. q * (k * d) = (q * k) * d /\ (q * k) * d + l * d = (q * k + l) * d /\ q * k + l \in Nat
  BY <1>1, <1>2
<1>4. a = (q * k + l) * d
  BY <1>1, <1>2, <1>3
<1>5. d # 0
  BY DEF DividesBoth
<1> QED BY <1>1, <1>3, <1>4, <1>5 DEF DividesBoth, Divides

(* The recursion has a solution up to any number.                          *)
LEMMA EuclidTo ==
  \A n \in Nat : \E G \in [Nat \X (0 .. n) -> Nat] : Euclid(n, G)
<1> DEFINE C == {n \in Nat : \E G \in [Nat \X (0 .. n) -> Nat] : Euclid(n, G)}
<1>1. 0 \in C
  <2> DEFINE G == [e \in Nat \X (0 .. 0) |-> e[1]]
  <2>1. G \in [Nat \X (0 .. 0) -> Nat] /\ Euclid(0, G)
    BY DEF Euclid
  <2> QED BY <2>1
<1>2. ASSUME NEW n \in Nat, n \in C PROVE n + 1 \in C
  <2>1. PICK F \in [Nat \X (0 .. n) -> Nat] : Euclid(n, F)
    BY <1>2
  <2> DEFINE G == [e \in Nat \X (0 .. n + 1) |->
                     IF e[2] = 0 THEN e[1] ELSE F[<<e[2], e[1] % e[2]>>]]
  <2>2. ASSUME NEW a \in Nat, NEW b \in 1 .. n + 1 PROVE <<b, a % b>> \in Nat \X (0 .. n)
    <3>1. b \in Nat \ {0} /\ a % b \in 0 .. b - 1
      BY DivBounds
    <3> QED BY <3>1
  <2>3. G \in [Nat \X (0 .. n + 1) -> Nat]
    BY <2>2
  <2>4. ASSUME NEW a \in Nat, NEW b \in 0 .. n PROVE G[<<a, b>>] = F[<<a, b>>]
    BY <2>1, <2>2 DEF Euclid
  <2>5. Euclid(n + 1, G)
    <3> SUFFICES ASSUME NEW a \in Nat, NEW b \in 0 .. n + 1
                 PROVE  G[<<a, b>>] = IF b = 0 THEN a ELSE G[<<b, a % b>>]
      BY DEF Euclid
    <3>1. CASE b = 0
      BY <3>1
    <3>2. CASE b # 0
      <4>1. b \in 1 .. n + 1 /\ b \in Nat /\ a % b \in 0 .. n
        BY <3>2, <2>2
      <4>2. G[<<a, b>>] = F[<<b, a % b>>]
        BY <3>2
      <4>3. G[<<b, a % b>>] = F[<<b, a % b>>]
        BY <2>4, <4>1
      <4> QED BY <3>2, <4>2, <4>3
    <3> QED BY <3>1, <3>2
  <2> HIDE DEF G
  <2> QED BY <2>3, <2>5
<1>3. \A n \in Nat : n \in C
  <2> HIDE DEF C
  <2> QED BY <1>1, <1>2, NatSetInduction
<1> QED BY <1>3

(* What a solution gives for two numbers.                                  *)
LEMMA EuclidAt ==
  ASSUME NEW n \in Nat, NEW G, Euclid(n, G)
  PROVE  /\ \A a \in Nat : G[<<a, 0>>] = a
         /\ \A a \in Nat, b \in Nat \ {0} : b <= n => G[<<a, b>>] = G[<<b, a % b>>]
<1>1. ASSUME NEW a \in Nat, NEW b \in 0 .. n
      PROVE  G[<<a, b>>] = IF b = 0 THEN a ELSE G[<<b, a % b>>]
  BY DEF Euclid
<1>2. 0 \in 0 .. n
  OBVIOUS
<1>3. ASSUME NEW a \in Nat PROVE G[<<a, 0>>] = a
  BY <1>1, <1>2
<1>4. ASSUME NEW a \in Nat, NEW b \in Nat \ {0}, b <= n PROVE G[<<a, b>>] = G[<<b, a % b>>]
  <2>1. b \in 0 .. n /\ b # 0
    BY <1>4
  <2> QED BY <1>1, <2>1
<1> QED BY <1>3, <1>4

(* Solutions agree where both are defined.                                 *)
LEMMA EuclidOne ==
  ASSUME NEW n \in Nat, NEW m \in Nat, NEW F, NEW G, Euclid(n, F), Euclid(m, G)
  PROVE  \A a \in Nat, b \in Nat : b <= n /\ b <= m => F[<<a, b>>] = G[<<a, b>>]
<1> DEFINE Same(k) == \A a \in Nat, b \in 0 .. k : b <= n /\ b <= m => F[<<a, b>>] = G[<<a, b>>]
           C == {k \in Nat : Same(k)}
<1>1. 0 \in C
  <2>1. ASSUME NEW a \in Nat PROVE F[<<a, 0>>] = G[<<a, 0>>]
    <3>1. F[<<a, 0>>] = a /\ G[<<a, 0>>] = a
      BY EuclidAt
    <3> QED BY <3>1
  <2> QED BY <2>1
<1>2. ASSUME NEW k \in Nat, k \in C PROVE k + 1 \in C
  <2> SUFFICES ASSUME NEW a \in Nat, NEW b \in 0 .. k + 1, b <= n, b <= m
               PROVE  F[<<a, b>>] = G[<<a, b>>]
    OBVIOUS
  <2>1. CASE b = 0
    <3>1. F[<<a, 0>>] = a /\ G[<<a, 0>>] = a
      BY EuclidAt
    <3> QED BY <2>1, <3>1
  <2>2. CASE b # 0
    <3>1. b \in Nat \ {0}
      BY <2>2
    <3>2. PICK c : c = a % b
      OBVIOUS
    <3>3. c \in 0 .. k /\ c <= n /\ c <= m
      <4>1. c \in 0 .. b - 1
        BY <3>1, <3>2, DivBounds
      <4> QED BY <4>1
    <3>4. F[<<b, c>>] = G[<<b, c>>]
      BY <1>2, <3>1, <3>3
    <3>5. F[<<a, b>>] = F[<<b, a % b>>]
      <4>1. \A u \in Nat, v \in Nat \ {0} : v <= n => F[<<u, v>>] = F[<<v, u % v>>]
        BY EuclidAt
      <4> QED BY <3>1, <4>1
    <3>6. G[<<a, b>>] = G[<<b, a % b>>]
      <4>1. \A u \in Nat, v \in Nat \ {0} : v <= m => G[<<u, v>>] = G[<<v, u % v>>]
        BY EuclidAt
      <4> QED BY <3>1, <4>1
    <3> QED BY <3>2, <3>4, <3>5, <3>6, Zenon
  <2> QED BY <2>1, <2>2
<1> HIDE DEF C
<1>3. \A k \in Nat : k \in C
  BY <1>1, <1>2, NatSetInduction
<1> QED BY <1>3 DEF C

(* So it is defined everywhere.                                            *)
LEMMA GcdIs ==
  /\ \A a \in Nat : gcd[<<a, 0>>] = a
  /\ \A a \in Nat, b \in Nat \ {0} : gcd[<<a, b>>] = gcd[<<b, a % b>>]
<1> DEFINE F(n) == CHOOSE G \in [Nat \X (0 .. n) -> Nat] : Euclid(n, G)
           E(G) == [e \in Nat \X Nat |-> IF e[2] = 0 THEN e[1] ELSE G[<<e[2], e[1] % e[2]>>]]
           H == [e \in Nat \X Nat |-> F(e[2])[e]]
<1>1. \A n \in Nat : F(n) \in [Nat \X (0 .. n) -> Nat] /\ Euclid(n, F(n))
  BY EuclidTo
<1> HIDE DEF F
<1>2. ASSUME NEW a \in Nat, NEW b \in Nat
      PROVE  H[<<a, b>>] = IF b = 0 THEN a ELSE H[<<b, a % b>>]
  <2>1. H[<<a, b>>] = F(b)[<<a, b>>]
    OBVIOUS
  <2>2. CASE b = 0
    <3>1. F(b)[<<a, b>>] = a
      <4>1. PICK X : X = F(b)
        OBVIOUS
      <4>2. Euclid(b, X)
        BY <1>1, <4>1
      <4>3. X[<<a, 0>>] = a
        BY <4>2, EuclidAt
      <4> QED BY <2>2, <4>1, <4>3
    <3> QED BY <2>1, <2>2, <3>1
  <2>3. CASE b # 0
    <3>1. PICK c : c = a % b
      OBVIOUS
    <3>2. c \in Nat /\ c <= b
      <4>1. c \in 0 .. b - 1
        BY <2>3, <3>1, DivBounds
      <4> QED BY <4>1
    <3>3. F(b)[<<a, b>>] = F(b)[<<b, c>>]
      <4>1. PICK X : X = F(b)
        OBVIOUS
      <4>2. Euclid(b, X)
        BY <1>1, <4>1
      <4>3. X[<<a, b>>] = X[<<b, a % b>>]
        BY <2>3, <4>2, EuclidAt
      <4> QED BY <3>1, <4>1, <4>3
    <3>4. F(b)[<<b, c>>] = F(c)[<<b, c>>]
      <4>1. PICK X, Y : X = F(b) /\ Y = F(c)
        OBVIOUS
      <4>2. Euclid(b, X) /\ Euclid(c, Y)
        BY <1>1, <3>2, <4>1
      <4>3. X[<<b, c>>] = Y[<<b, c>>]
        BY <3>2, <4>2, EuclidOne
      <4> QED BY <4>1, <4>3
    <3>5. H[<<b, c>>] = F(c)[<<b, c>>]
      BY <3>2
    <3> HIDE DEF H
    <3> QED BY <2>1, <2>3, <3>1, <3>3, <3>4, <3>5
  <2> QED BY <2>2, <2>3
<1>3. H = E(H)
  <2>1. ASSUME NEW e \in Nat \X Nat
        PROVE  H[e] = IF e[2] = 0 THEN e[1] ELSE H[<<e[2], e[1] % e[2]>>]
    <3>1. PICK a \in Nat, b \in Nat : e = <<a, b>>
      OBVIOUS
    <3> HIDE DEF H
    <3> QED BY <1>2, <3>1
  <2>2. H = [e \in Nat \X Nat |-> H[e]]
    OBVIOUS
  <2> HIDE DEF H
  <2> QED BY <2>1, <2>2
<1>4. gcd = CHOOSE G : G = E(G)
  BY DEF gcd
<1>5. gcd = E(gcd)
  <2> HIDE DEF E, H
  <2> QED BY <1>3, <1>4
<1> QED
  <2>1. ASSUME NEW a \in Nat, NEW b \in Nat
        PROVE  gcd[<<a, b>>] = IF b = 0 THEN a ELSE gcd[<<b, a % b>>]
    <3>1. <<a, b>> \in Nat \X Nat /\ <<a, b>>[1] = a /\ <<a, b>>[2] = b
      OBVIOUS
    <3> QED BY <1>5, <3>1
  <2> QED BY <2>1

(* What it gives divides both.                                             *)
LEMMA GcdDivides ==
  \A a \in Nat, b \in Nat : DividesBoth(Gcd(a, b), a, b)
<1> DEFINE Good(k) == \A a \in Nat, b \in 0 .. k : DividesBoth(gcd[<<a, b>>], a, b)
           C == {k \in Nat : Good(k)}
<1>1. 0 \in C
  <2>1. ASSUME NEW a \in Nat PROVE DividesBoth(gcd[<<a, 0>>], a, 0)
    <3>1. a = 1 * a /\ 0 = 0 * a /\ gcd[<<a, 0>>] = a
      BY GcdIs
    <3> QED BY <3>1 DEF DividesBoth, Divides
  <2> QED BY <2>1
<1>2. ASSUME NEW k \in Nat, k \in C PROVE k + 1 \in C
  <2> SUFFICES ASSUME NEW a \in Nat, NEW b \in 0 .. k + 1
               PROVE  DividesBoth(gcd[<<a, b>>], a, b)
    OBVIOUS
  <2>1. CASE b = 0
    BY <1>2, <2>1
  <2>2. CASE b # 0
    <3>1. b \in Nat \ {0}
      BY <2>2
    <3>2. PICK c : c = a % b
      OBVIOUS
    <3>3. c \in 0 .. k
      <4>1. c \in 0 .. b - 1
        BY <3>1, <3>2, DivBounds
      <4> QED BY <4>1
    <3>4. DividesBoth(gcd[<<b, c>>], b, c)
      BY <1>2, <3>1, <3>3
    <3>5. gcd[<<a, b>>] = gcd[<<b, c>>]
      BY <3>1, <3>2, GcdIs
    <3>6. gcd[<<b, c>>] \in Nat
      BY <3>4 DEF DividesBoth
    <3> QED BY <3>1, <3>2, <3>4, <3>5, <3>6, DividesRest
  <2> QED BY <2>1, <2>2
<1>3. \A k \in Nat : k \in C
  <2> HIDE DEF C
  <2> QED BY <1>1, <1>2, NatSetInduction
<1>4. ASSUME NEW a \in Nat, NEW b \in Nat PROVE DividesBoth(Gcd(a, b), a, b)
  <2>1. Good(b) /\ b \in 0 .. b
    BY <1>3
  <2> QED BY <2>1 DEF Gcd
<1> QED BY <1>4

-----------------------------------------------------------------------------
(* Fractions.                                                              *)

Q == Int \X (Nat \ {0})
LE(a, b) == a[1] * b[2] <= b[1] * a[2]

(* A multiple is divided without a remainder.                              *)
LEMMA ExactDiv ==
  ASSUME NEW k \in Int, NEW d \in Nat \ {0}
  PROVE  (k * d) \div d = k
<1> DEFINE x == k * d
           q == x \div d
<1>1. x \in Int /\ q \in Int
  OBVIOUS
<1>2. q * d <= x /\ x < (q + 1) * d
  <2>1. PICK z \in Int : z = x
    BY <1>1
  <2>2. (z \div d) * d <= z /\ z < (z \div d + 1) * d
    <3>1. z % d \in 0 .. d - 1 /\ z = d * (z \div d) + (z % d)
      OBVIOUS
    <3>2. z \div d \in Int
      OBVIOUS
    <3>3. PICK y \in Int : y = z \div d
      BY <3>2
    <3>4. (y + 1) * d = d * y + d /\ y * d = d * y /\ d * y \in Int
      BY <3>3
    <3> QED BY <3>1, <3>3, <3>4
  <2> QED BY <2>1, <2>2
<1> HIDE DEF q
<1>3. ~(q < k)
  <2> SUFFICES ASSUME q < k PROVE FALSE
    OBVIOUS
  <2>1. q + 1 <= k /\ q + 1 \in Int
    BY <1>1
  <2>2. (q + 1) * d <= k * d
    BY <2>1, Monotone
  <2>3. (q + 1) * d \in Int
    BY <1>1
  <2> QED BY <1>1, <1>2, <2>2, <2>3
<1>4. ~(k < q)
  <2> SUFFICES ASSUME k < q PROVE FALSE
    OBVIOUS
  <2>1. k + 1 <= q
    BY <1>1
  <2>2. (k + 1) * d <= q * d
    BY <1>1, <2>1, Monotone
  <2>3. (k + 1) * d = k * d + d /\ q * d \in Int
    BY <1>1
  <2> QED BY <1>1, <1>2, <2>2, <2>3
<1>5. q = k
  BY <1>1, <1>3, <1>4
<1> QED BY <1>5 DEF q

(* A common factor does not change an order.                               *)
LEMMA Cancel ==
  ASSUME NEW a \in Int, NEW b \in Int, NEW c \in Nat \ {0}
  PROVE  a * c <= b * c <=> a <= b
<1>1. a <= b => a * c <= b * c
  BY Monotone
<1>2. b < a => b * c < a * c
  <2> SUFFICES ASSUME b < a PROVE b * c < a * c
    OBVIOUS
  <2>1. (b + 1) * c <= a * c
    BY Monotone
  <2>2. (b + 1) * c = b * c + c
    OBVIOUS
  <2> QED BY <2>1, <2>2
<1> QED BY <1>1, <1>2

(* Lifted numerators are over one denominator.                             *)
LEMMA LiftedIs ==
  ASSUME NEW a \in Q, NEW b \in Q
  PROVE  \E x \in Nat \ {0}, y \in Nat \ {0}, g \in Nat \ {0} :
           /\ Gcd(a[2], b[2]) = g /\ a[2] = x * g /\ b[2] = y * g /\ b[2] \div g = y
           /\ Lifted(a, b) = a[1] * y
           /\ LE(a, b) <=> a[1] * y <= b[1] * x
<1>1. a[1] \in Int /\ b[1] \in Int /\ a[2] \in Nat \ {0} /\ b[2] \in Nat \ {0}
  BY DEF Q
<1>2. PICK g : g = Gcd(a[2], b[2])
  OBVIOUS
<1>3. DividesBoth(g, a[2], b[2])
  BY <1>1, <1>2, GcdDivides
<1>4. g \in Nat \ {0}
  BY <1>1, <1>3 DEF DividesBoth
<1>5. PICK x \in Nat, y \in Nat : a[2] = x * g /\ b[2] = y * g
  BY <1>3 DEF DividesBoth, Divides
<1>6. x # 0 /\ y # 0
  BY <1>1, <1>4, <1>5
<1>7. b[2] \div g = y
  BY <1>4, <1>5, ExactDiv
<1>8. Lifted(a, b) = a[1] * y
  BY <1>2, <1>7 DEF Lifted
<1>9. LE(a, b) <=> a[1] * y <= b[1] * x
  <2>1. PICK m \in Int, n \in Int : m = a[1] /\ n = b[1]
    BY <1>1
  <2>2. m * (y * g) = (m * y) * g /\ n * (x * g) = (n * x) * g /\ m * y \in Int /\ n * x \in Int
    BY <1>4, <1>5, <2>1
  <2>3. (m * y) * g <= (n * x) * g <=> m * y <= n * x
    BY <1>4, <2>2, Cancel
  <2> QED BY <1>5, <2>1, <2>2, <2>3 DEF LE
<1> QED BY <1>2, <1>4, <1>5, <1>6, <1>7, <1>8, <1>9

(* The greatest common divisor does not depend on the order of two.        *)
LEMMA GcdEither ==
  ASSUME NEW a \in Nat \ {0}, NEW b \in Nat \ {0}
  PROVE  Gcd(a, b) = Gcd(b, a)
<1>1. ASSUME NEW c \in Nat \ {0}, NEW d \in Nat \ {0}, c < d PROVE c % d = c
  <2>1. 0 \in Nat /\ c \in 0 .. d - 1 /\ 0 * d + c = c
    BY <1>1
  <2>2. (0 * d + c) % d = c
    BY <2>1, DivOf
  <2> QED BY <2>1, <2>2
<1>2. ASSUME NEW c \in Nat \ {0}, NEW d \in Nat \ {0}, c < d PROVE Gcd(c, d) = Gcd(d, c)
  <2>1. gcd[<<c, d>>] = gcd[<<d, c % d>>]
    BY GcdIs
  <2> QED BY <1>1, <1>2, <2>1 DEF Gcd
<1>3. a < b \/ b < a \/ a = b
  OBVIOUS
<1> QED BY <1>2, <1>3

(* What two fractions are over their common denominator.                   *)
Common(a, b, x, y, g) ==
  /\ x \in Nat \ {0} /\ y \in Nat \ {0} /\ g \in Nat \ {0}
  /\ a[2] = x * g /\ b[2] = y * g
  /\ b[2] \div Gcd(a[2], b[2]) = y
  /\ Lifted(a, b) = a[1] * y /\ Lifted(b, a) = b[1] * x

(* The comparisons compare the fractions.                                  *)
LEMMA ComparedAs ==
  ASSUME NEW a \in Q, NEW b \in Q
  PROVE  /\ \E x, y, g : Common(a, b, x, y, g)
         /\ AtMost(a, b) <=> LE(a, b)
         /\ Below(a, b) <=> ~LE(b, a)
<1>1. a[1] \in Int /\ b[1] \in Int /\ a[2] \in Nat \ {0} /\ b[2] \in Nat \ {0}
  BY DEF Q
<1>2. PICK x \in Nat \ {0}, y \in Nat \ {0}, g \in Nat \ {0} :
        /\ Gcd(a[2], b[2]) = g /\ a[2] = x * g /\ b[2] = y * g /\ b[2] \div g = y
        /\ Lifted(a, b) = a[1] * y
        /\ LE(a, b) <=> a[1] * y <= b[1] * x
  BY LiftedIs
<1>3. Gcd(b[2], a[2]) = g
  BY <1>1, <1>2, GcdEither
<1>4. a[2] \div g = x
  BY <1>2, ExactDiv
<1>5. Lifted(b, a) = b[1] * x
  BY <1>3, <1>4 DEF Lifted
<1>6. a[1] * y \in Int /\ b[1] * x \in Int
  BY <1>1
<1>7. Common(a, b, x, y, g)
  BY <1>2, <1>5 DEF Common
<1>8. LE(b, a) <=> b[1] * x <= a[1] * y
  <2>1. PICK m \in Int, n \in Int : m = a[1] /\ n = b[1]
    BY <1>1
  <2>2. m * (y * g) = (m * y) * g /\ n * (x * g) = (n * x) * g /\ m * y \in Int /\ n * x \in Int
    BY <2>1
  <2>3. (n * x) * g <= (m * y) * g <=> n * x <= m * y
    BY <2>2, Cancel
  <2> QED BY <1>2, <2>1, <2>2, <2>3 DEF LE
<1> QED BY <1>2, <1>5, <1>6, <1>7, <1>8 DEF AtMost, Below

(* Fractions are in a total preorder.                                      *)
LEMMA Ordered ==
  /\ \A a \in Q : LE(a, a)
  /\ \A a, b \in Q : LE(a, b) \/ LE(b, a)
  /\ \A a, b, c \in Q : LE(a, b) /\ LE(b, c) => LE(a, c)
<1>1. ASSUME NEW a \in Q, NEW b \in Q PROVE LE(a, b) \/ LE(b, a)
  <2>1. a[1] * b[2] \in Int /\ b[1] * a[2] \in Int
    BY DEF Q
  <2> QED BY <2>1 DEF LE
<1>2. ASSUME NEW a \in Q, NEW b \in Q, NEW c \in Q, LE(a, b), LE(b, c) PROVE LE(a, c)
  <2>1. PICK m \in Int, n \in Int, o \in Int : m = a[1] /\ n = b[1] /\ o = c[1]
    BY DEF Q
  <2>2. PICK u \in Nat \ {0}, v \in Nat \ {0}, w \in Nat \ {0} : u = a[2] /\ v = b[2] /\ w = c[2]
    BY DEF Q
  <2>3. m * v <= n * u /\ n * w <= o * v
    BY <1>2, <2>1, <2>2 DEF LE
  <2>4. m * v \in Int /\ n * u \in Int /\ n * w \in Int /\ o * v \in Int
    OBVIOUS
  <2>5. (m * v) * w <= (n * u) * w
    BY <2>3, <2>4, Monotone
  <2>6. (n * w) * u <= (o * v) * u
    BY <2>3, <2>4, Monotone
  <2>7. (m * v) * w = (m * w) * v /\ (n * u) * w = (n * w) * u /\ (o * v) * u = (o * u) * v
    OBVIOUS
  <2>8. m * w \in Int /\ o * u \in Int /\ (m * w) * v \in Int /\ (o * u) * v \in Int
        /\ (n * w) * u \in Int
    OBVIOUS
  <2>9. (m * w) * v <= (o * u) * v
    BY <2>5, <2>6, <2>7, <2>8
  <2>10. m * w <= o * u
    BY <2>8, <2>9, Cancel
  <2> QED BY <2>1, <2>2, <2>10 DEF LE
<1> QED BY <1>1, <1>2

(* A fraction in lowest terms is of the same size.                         *)
LEMMA FracIs ==
  ASSUME NEW n \in Int, NEW d \in Nat \ {0}
  PROVE  /\ Frac(n, d) \in Q
         /\ \E g \in Nat \ {0} : n = Frac(n, d)[1] * g /\ d = Frac(n, d)[2] * g
<1>1. Size(n) \in Nat /\ Size(d) = d /\ ~(d < 0)
  BY DEF Size
<1>2. PICK g : g = Gcd(Size(n), d)
  OBVIOUS
<1>3. DividesBoth(g, Size(n), d)
  BY <1>1, <1>2, GcdDivides
<1>4. g \in Nat \ {0}
  BY <1>3 DEF DividesBoth
<1>5. PICK k \in Nat, l \in Nat : Size(n) = k * g /\ d = l * g
  BY <1>3 DEF DividesBoth, Divides
<1>6. PICK m \in Int : n = m * g
  <2>1. CASE n < 0
    <3>1. n = -(k * g) /\ -(k * g) = (-k) * g
      BY <1>4, <1>5, <2>1 DEF Size
    <3> QED BY <3>1
  <2>2. CASE ~(n < 0)
    BY <1>5, <2>2 DEF Size
  <2> QED BY <2>1, <2>2
<1>7. l # 0
  BY <1>4, <1>5
<1>8. Frac(n, d) = <<(1 * n) \div g, (1 * d) \div g>>
  BY <1>1, <1>2 DEF Frac
<1>9. (1 * n) \div g = m /\ (1 * d) \div g = l
  <2>1. 1 * n = m * g /\ 1 * d = l * g
    BY <1>5, <1>6
  <2> QED BY <1>4, <2>1, ExactDiv
<1>10. Frac(n, d) = <<m, l>>
  BY <1>8, <1>9
<1>11. Frac(n, d)[1] = m /\ Frac(n, d)[2] = l /\ l \in Nat \ {0}
  BY <1>7, <1>10
<1>12. Frac(n, d) \in Q
  BY <1>10, <1>11 DEF Q
<1> QED BY <1>4, <1>5, <1>6, <1>11, <1>12

(* A sum does not depend on the order of its terms.                        *)
LEMMA PlusEither ==
  ASSUME NEW a \in Q, NEW b \in Q
  PROVE  Plus(a, b) = Plus(b, a)
<1>1. PICK x \in Nat \ {0}, y \in Nat \ {0}, g \in Nat \ {0} :
        /\ Gcd(a[2], b[2]) = g /\ a[2] = x * g /\ b[2] = y * g /\ b[2] \div g = y
        /\ Lifted(a, b) = a[1] * y
        /\ LE(a, b) <=> a[1] * y <= b[1] * x
  BY LiftedIs
<1>2. a[1] \in Int /\ b[1] \in Int /\ a[2] \in Nat \ {0} /\ b[2] \in Nat \ {0}
  BY DEF Q
<1>3. Gcd(b[2], a[2]) = g /\ a[2] \div g = x
  BY <1>1, <1>2, GcdEither, ExactDiv
<1>4. Lifted(a, b) \in Int /\ Lifted(b, a) \in Int
  BY <1>1, <1>2, <1>3 DEF Lifted
<1>5. PICK s \in Int, t \in Int : s = Lifted(a, b) /\ t = Lifted(b, a)
  BY <1>4
<1>6. (x * g) * y = (y * g) * x /\ s + t = t + s
  OBVIOUS
<1>7. a[2] * (b[2] \div Gcd(a[2], b[2])) = (x * g) * y
  BY <1>1
<1>8. b[2] * (a[2] \div Gcd(b[2], a[2])) = (y * g) * x
  BY <1>1, <1>3
<1>9. Plus(a, b) = Frac(s + t, (x * g) * y) /\ Plus(b, a) = Frac(t + s, (y * g) * x)
  BY <1>5, <1>7, <1>8 DEF Plus
<1> QED BY <1>6, <1>9

(* Fractions are closed under what weights and gains are made of.          *)
LEMMA FractionArithmetic ==
  /\ Zero \in Q
  /\ \A a, b \in Q : Plus(a, b) \in Q /\ Minus(a, b) \in Q /\ Times(a, b) \in Q
  /\ \A k \in Int, a \in Q : Scaled(k, a) \in Q /\ Magnitude(a) \in Q
<1>1. Zero \in Q
  BY DEF Zero, Q
<1>2. ASSUME NEW a \in Q, NEW b \in Q
      PROVE  Plus(a, b) \in Q /\ Minus(a, b) \in Q /\ Times(a, b) \in Q
  <2>1. PICK x \in Nat \ {0}, y \in Nat \ {0}, g \in Nat \ {0} : Common(a, b, x, y, g)
    BY ComparedAs DEF Common
  <2>2. PICK m \in Int, n \in Int : m = a[1] /\ n = b[1]
    BY DEF Q
  <2>3. /\ m * y + n * x \in Int /\ (m * y) - (n * x) \in Int /\ m * n \in Int
        /\ (x * g) * y \in Nat \ {0} /\ (x * g) * (y * g) \in Nat \ {0}
    <3>1. x * g \in Nat \ {0} /\ y * g \in Nat \ {0}
      OBVIOUS
    <3>2. (x * g) * y \in Nat \ {0} /\ (x * g) * (y * g) \in Nat \ {0}
      BY <3>1
    <3>3. m * y \in Int /\ n * x \in Int /\ m * n \in Int
      OBVIOUS
    <3> QED BY <3>2, <3>3
  <2>4. /\ Plus(a, b) = Frac(m * y + n * x, (x * g) * y)
        /\ Minus(a, b) = Frac((m * y) - (n * x), (x * g) * y)
    BY <2>1, <2>2 DEF Plus, Minus, Common
  <2>5. Times(a, b) = Frac(m * n, (x * g) * (y * g))
    BY <2>1, <2>2 DEF Times, Common
  <2> QED BY <2>3, <2>4, <2>5, FracIs
<1>3. ASSUME NEW k \in Int, NEW a \in Q
      PROVE  Scaled(k, a) \in Q /\ Magnitude(a) \in Q
  <2>1. PICK m \in Int, d \in Nat \ {0} : m = a[1] /\ d = a[2]
    BY DEF Q
  <2>2. k * m \in Int /\ Size(m) \in Int
    BY DEF Size
  <2>3. Scaled(k, a) = Frac(k * m, d) /\ Magnitude(a) = <<Size(m), d>>
    BY <2>1 DEF Scaled, Magnitude
  <2>4. Frac(k * m, d) \in Q
    BY <2>2, FracIs
  <2>5. <<Size(m), d>> \in Q
    BY <2>2 DEF Q
  <2> QED BY <2>3, <2>4, <2>5
<1> QED BY <1>1, <1>2, <1>3

(* The half of a sum lies between its terms.                               *)
LEMMA Between ==
  ASSUME NEW a \in Q, NEW b \in Q, LE(a, b)
  PROVE  LET mid == Frac(Plus(a, b)[1], 2 * Plus(a, b)[2])
         IN mid \in Q /\ LE(a, mid) /\ LE(mid, b)
<1>1. PICK x \in Nat \ {0}, y \in Nat \ {0}, g \in Nat \ {0} : Common(a, b, x, y, g)
  BY ComparedAs DEF Common
<1>2. x \in Nat \ {0} /\ y \in Nat \ {0} /\ g \in Nat \ {0} /\ a[2] = x * g /\ b[2] = y * g
  BY <1>1 DEF Common
<1>3. PICK m \in Int, n \in Int : m = a[1] /\ n = b[1]
  BY DEF Q
<1>4. m * y <= n * x
  <2>1. LE(a, b) => Lifted(a, b) <= Lifted(b, a)
    BY ComparedAs DEF AtMost
  <2> QED BY <1>1, <1>3, <2>1 DEF Common
<1>5. Plus(a, b) = Frac(m * y + n * x, (x * g) * y)
  BY <1>1, <1>3 DEF Plus, Common
<1>6. m * y + n * x \in Int /\ (x * g) * y \in Nat \ {0}
  BY <1>2
<1>7. PICK s : s = Plus(a, b)
  OBVIOUS
<1>8. s \in Q
  BY <1>5, <1>6, <1>7, FracIs
<1>9. PICK h \in Nat \ {0} : m * y + n * x = s[1] * h /\ (x * g) * y = s[2] * h
  BY <1>5, <1>6, <1>7, FracIs
<1>10. PICK u \in Int, v \in Nat \ {0} : u = s[1] /\ v = s[2]
  BY <1>8 DEF Q
<1>11. PICK t : t = Frac(u, 2 * v)
  OBVIOUS
<1>12. t \in Q
  BY <1>11, FracIs
<1>13. PICK k \in Nat \ {0} : u = t[1] * k /\ 2 * v = t[2] * k
  BY <1>11, FracIs
<1>14. PICK e \in Int, f \in Nat \ {0} : e = t[1] /\ f = t[2]
  BY <1>12 DEF Q
<1>15. /\ m * y + n * x = (e * k) * h /\ 2 * ((x * g) * y) = (f * k) * h
  <2>1. 2 * (v * h) = (2 * v) * h
    OBVIOUS
  <2> QED BY <1>9, <1>10, <1>13, <1>14, <2>1
<1>16. PICK z \in Nat \ {0} : z = k * h
  OBVIOUS
<1>17. m * y + n * x = e * z /\ 2 * ((x * g) * y) = f * z
  BY <1>15, <1>16
<1>18. m * f <= e * (x * g)
  <2>1. (m * f) * z = m * (f * z) /\ m * (2 * ((x * g) * y)) = (2 * (m * y)) * (x * g)
    BY <1>16
  <2>2. (e * (x * g)) * z = (e * z) * (x * g)
    OBVIOUS
  <2>3. 2 * (m * y) <= m * y + n * x
    BY <1>4
  <2>4. (2 * (m * y)) * (x * g) <= (m * y + n * x) * (x * g)
    BY <2>3, <1>2, Monotone
  <2>5. (m * f) * z <= (e * (x * g)) * z
    BY <1>17, <2>1, <2>2, <2>4
  <2>6. m * f \in Int /\ e * (x * g) \in Int
    OBVIOUS
  <2> QED BY <2>5, <2>6, Cancel
<1>19. e * (y * g) <= n * f
  <2>1. (n * f) * z = n * (f * z) /\ n * (2 * ((x * g) * y)) = (2 * (n * x)) * (y * g)
    BY <1>16
  <2>2. (e * (y * g)) * z = (e * z) * (y * g)
    OBVIOUS
  <2>3. m * y + n * x <= 2 * (n * x)
    BY <1>4
  <2>4. (m * y + n * x) * (y * g) <= (2 * (n * x)) * (y * g)
    BY <2>3, <1>2, Monotone
  <2>5. (e * (y * g)) * z <= (n * f) * z
    BY <1>17, <2>1, <2>2, <2>4
  <2>6. n * f \in Int /\ e * (y * g) \in Int
    OBVIOUS
  <2> QED BY <2>5, <2>6, Cancel
<1>20. LE(a, t) /\ LE(t, b)
  BY <1>2, <1>3, <1>14, <1>18, <1>19 DEF LE
<1> QED BY <1>7, <1>10, <1>11, <1>12, <1>20

-----------------------------------------------------------------------------
(* Sums of gradients.                                                      *)

StatSet == [grad : Int, hess : Int]
Summable(f, S) == IsFiniteSet(S) /\ \A x \in S : f[x] \in StatSet

(* A total is the record of two sums.                                      *)
LEMMA TotalIs ==
  ASSUME NEW S, NEW f, Summable(f, S), NEW G, NEW H,
         SubsetSums([x \in S |-> f[x].grad], S, G), SubsetSums([x \in S |-> f[x].hess], S, H),
         NEW T \in SUBSET S
  PROVE  Total(f, T) = Stats(G[T], H[T])
<1> DEFINE E(F) == [U \in SUBSET T |-> IF U = {} THEN NoStats
                                       ELSE Add(f[Pick(U)], F[U \ {Pick(U)}])]
           h == CHOOSE F : F = E(F)
           d == [U \in SUBSET T |-> Stats(G[U], H[U])]
           fg == [x \in S |-> f[x].grad]
           fh == [x \in S |-> f[x].hess]
<1>1. Total(f, T) = h[T]
  BY DEF Total, FoldSet, MapThenFoldSet, Pick
<1>2. \A U \in SUBSET T : U # {} => Pick(U) \in U /\ Pick(U) \in S /\ U \ {Pick(U)} \in SUBSET T
  BY DEF Pick
<1>3. \A U \in SUBSET T : U \in SUBSET S /\ SumsTo(fg, U, G) /\ SumsTo(fh, U, H)
  BY DEF SubsetSums
<1>4. d = E(d)
  <2>1. ASSUME NEW U \in SUBSET T
        PROVE  d[U] = IF U = {} THEN NoStats ELSE Add(f[Pick(U)], d[U \ {Pick(U)}])
    <3>1. CASE U = {}
      BY <1>3, <3>1 DEF SumsTo, NoStats
    <3>2. CASE U # {}
      <4>1. PICK x : x = Pick(U) /\ x \in S /\ U \ {x} \in SUBSET T
        BY <1>2, <3>2
      <4>2. G[U] = f[x].grad + G[U \ {x}] /\ H[U] = f[x].hess + H[U \ {x}]
        BY <1>3, <3>2, <4>1 DEF SumsTo
      <4>3. d[U \ {x}] = Stats(G[U \ {x}], H[U \ {x}])
        BY <4>1
      <4> QED BY <3>2, <4>1, <4>2, <4>3 DEF Add, Stats
    <3> QED BY <3>1, <3>2
  <2> HIDE DEF d
  <2>2. d = [U \in SUBSET T |-> d[U]]
    BY DEF d
  <2> QED BY <2>1, <2>2
<1>5. h = E(h)
  <2> HIDE DEF E, d
  <2> QED BY <1>4
<1> HIDE DEF h, d
<1> DEFINE hg == [U \in SUBSET T |-> h[U].grad]
           hh == [U \in SUBSET T |-> h[U].hess]
<1>6. SubsetSums(fg, T, hg) /\ SubsetSums(fh, T, hh)
  <2> SUFFICES ASSUME NEW U \in SUBSET T PROVE SumsTo(fg, U, hg) /\ SumsTo(fh, U, hh)
    BY DEF SubsetSums
  <2>1. CASE U = {}
    BY <1>5, <2>1 DEF SumsTo, NoStats, Stats
  <2>2. CASE U # {}
    <3>1. PICK x : x = Pick(U) /\ x \in S /\ U \ {x} \in SUBSET T
      BY <1>2, <2>2
    <3>2. h[U] = Add(f[x], h[U \ {x}])
      BY <1>5, <2>2, <3>1
    <3>3. h[U].grad = f[x].grad + h[U \ {x}].grad /\ h[U].hess = f[x].hess + h[U \ {x}].hess
      BY <3>2 DEF Add, Stats
    <3> QED BY <2>2, <3>1, <3>3 DEF SumsTo
  <2> QED BY <2>1, <2>2
<1>7. IsFiniteSet(S)
  BY DEF Summable
<1> HIDE DEF fg, fh, hg, hh
<1>8. hg[T] = G[T] /\ hh[T] = H[T]
  <2>1. SubsetSums(fg, S, G) /\ SubsetSums(fh, S, H)
    BY DEF fg, fh
  <2> QED BY <1>6, <1>7, <2>1, SumsAgree
<1>9. h[T].grad = G[T] /\ h[T].hess = H[T]
  BY <1>8 DEF hg, hh
<1>10. \E a, b : h[T] = Stats(a, b)
  <2>1. h[T] = IF T = {} THEN NoStats ELSE Add(f[Pick(T)], h[T \ {Pick(T)}])
    BY <1>5
  <2> QED BY <2>1 DEF NoStats, Add
<1>11. h[T] = Stats(h[T].grad, h[T].hess)
  BY <1>10 DEF Stats
<1> QED BY <1>1, <1>9, <1>11

(* A total is typed, of nothing is nothing, and any member can be taken    *)
(* out of it.                                                              *)
LEMMA TotalOut ==
  ASSUME NEW S, NEW f, Summable(f, S)
  PROVE  /\ Total(f, S) \in StatSet
         /\ Total(f, {}) = NoStats
         /\ \A x \in S : /\ Total(f, S) = Add(f[x], Total(f, S \ {x}))
                         /\ Total(f, S \ {x}) \in StatSet
<1> DEFINE fg == [x \in S |-> f[x].grad]
           fh == [x \in S |-> f[x].hess]
<1>1. IsFiniteSet(S) /\ \A x \in S : fg[x] \in Int /\ fh[x] \in Int
  BY DEF Summable, StatSet
<1>2. \A x \in S : fg[x] = f[x].grad /\ fh[x] = f[x].hess
  OBVIOUS
<1>0. PICK a, b : a = fg /\ b = fh
  OBVIOUS
<1>3. PICK G \in [SUBSET S -> Int] : SubsetSums(a, S, G)
  <2> HIDE DEF fg, fh
  <2> QED BY <1>0, <1>1, SumsExist
<1>4. PICK H \in [SUBSET S -> Int] : SubsetSums(b, S, H)
  <2> HIDE DEF fg, fh
  <2> QED BY <1>0, <1>1, SumsExist
<1>5. \A T \in SUBSET S : Total(f, T) = Stats(G[T], H[T])
  BY <1>0, <1>3, <1>4, TotalIs
<1>6. OutOf(a, S, G) /\ OutOf(b, S, H)
  <2> HIDE DEF fg, fh
  <2>1. \A x \in S : a[x] \in Int /\ b[x] \in Int
    BY <1>0, <1>1
  <2> QED BY <1>1, <1>3, <1>4, <2>1, TakenOut
<1>7. G[{}] = 0 /\ H[{}] = 0
  BY <1>3, <1>4 DEF SubsetSums, SumsTo
<1>8. S \in SUBSET S /\ {} \in SUBSET S /\ \A x \in S : S \ {x} \in SUBSET S
  OBVIOUS
<1>9. ASSUME NEW x \in S PROVE Total(f, S) = Add(f[x], Total(f, S \ {x}))
  <2>1. G[S] = f[x].grad + G[S \ {x}] /\ H[S] = f[x].hess + H[S \ {x}]
    BY <1>0, <1>2, <1>6 DEF OutOf
  <2>2. Total(f, S) = Stats(G[S], H[S]) /\ Total(f, S \ {x}) = Stats(G[S \ {x}], H[S \ {x}])
    BY <1>5, <1>8
  <2>3. /\ Stats(G[S \ {x}], H[S \ {x}]).grad = G[S \ {x}]
        /\ Stats(G[S \ {x}], H[S \ {x}]).hess = H[S \ {x}]
    BY DEF Stats
  <2>4. Add(f[x], Total(f, S \ {x})) = Stats(f[x].grad + G[S \ {x}], f[x].hess + H[S \ {x}])
    BY <2>2, <2>3 DEF Add
  <2> QED BY <2>1, <2>2, <2>4
<1>10. \A T \in SUBSET S : Stats(G[T], H[T]) \in StatSet
  BY <1>3, <1>4 DEF Stats, StatSet
<1>11. Total(f, {}) = NoStats
  BY <1>5, <1>7, <1>8 DEF NoStats
<1> QED BY <1>5, <1>8, <1>9, <1>10, <1>11

(* It depends on the members alone.                                        *)
LEMMA TotalSame ==
  ASSUME NEW S, NEW f, NEW g, Summable(f, S), \A x \in S : f[x] = g[x]
  PROVE  Total(f, S) = Total(g, S)
<1>1. Summable(g, S) /\ IsFiniteSet(S)
  BY DEF Summable
<1>2. PICK a, b : a = [x \in S |-> f[x].grad] /\ b = [x \in S |-> f[x].hess]
  OBVIOUS
<1>3. a = [x \in S |-> g[x].grad] /\ b = [x \in S |-> g[x].hess]
  BY <1>2
<1>4. \A x \in S : a[x] \in Int /\ b[x] \in Int
  BY <1>2 DEF Summable, StatSet
<1>5. PICK G \in [SUBSET S -> Int], H \in [SUBSET S -> Int] :
        SubsetSums(a, S, G) /\ SubsetSums(b, S, H)
  BY <1>1, <1>4, SumsExist
<1>6. S \in SUBSET S
  OBVIOUS
<1>7. Total(f, S) = Stats(G[S], H[S])
  BY <1>2, <1>5, <1>6, TotalIs
<1>8. Total(g, S) = Stats(G[S], H[S])
  BY <1>1, <1>3, <1>5, <1>6, TotalIs
<1> QED BY <1>7, <1>8

(* The totals of two parts add up to the total of both.                    *)
LEMMA TotalJoin ==
  ASSUME NEW f, NEW A, NEW B, Summable(f, A \cup B), A \cap B = {}
  PROVE  Total(f, A \cup B) = Add(Total(f, A), Total(f, B))
<1>1. \A S \in SUBSET (A \cup B) : Summable(f, S)
  <2> SUFFICES ASSUME NEW S \in SUBSET (A \cup B) PROVE Summable(f, S)
    OBVIOUS
  <2>1. IsFiniteSet(S)
    BY FS_Subset DEF Summable
  <2> QED BY <2>1 DEF Summable
<1>2. \A S \in SUBSET (A \cup B) : Total(f, S) \in StatSet
  BY <1>1, TotalOut
<1>3. IsFiniteSet(B)
  <2>1. B \in SUBSET (A \cup B)
    OBVIOUS
  <2> QED BY <1>1, <2>1 DEF Summable
<1> DEFINE C == {T \in SUBSET B : Total(f, A \cup T) = Add(Total(f, A), Total(f, T))}
<1>4. {} \in C
  <2>1. PICK a \in StatSet : a = Total(f, A)
    BY <1>2
  <2>2. Total(f, {}) = NoStats /\ A \cup {} = A
    BY <1>1, TotalOut
  <2>3. Add(a, NoStats) = a
    BY DEF Add, NoStats, Stats, StatSet
  <2> QED BY <2>1, <2>2, <2>3
<1>5. ASSUME NEW T \in SUBSET B, NEW x \in B, T \in C, x \notin T PROVE T \cup {x} \in C
  <2>1. PICK U, V : U = T \cup {x} /\ V = A \cup U
    OBVIOUS
  <2>2. /\ U \in SUBSET (A \cup B) /\ V \in SUBSET (A \cup B) /\ x \in U /\ x \in V
        /\ U \ {x} = T /\ V \ {x} = A \cup T
    BY <1>5, <2>1
  <2>3. Total(f, V) = Add(f[x], Total(f, V \ {x})) /\ Total(f, U) = Add(f[x], Total(f, U \ {x}))
    BY <1>1, <2>2, TotalOut
  <2>4. PICK a, b, c : a = Total(f, A) /\ b = Total(f, T) /\ c = f[x]
    OBVIOUS
  <2>5. a \in StatSet /\ b \in StatSet /\ c \in StatSet
    <3>1. A \in SUBSET (A \cup B) /\ T \in SUBSET (A \cup B) /\ x \in A \cup B
      OBVIOUS
    <3> QED BY <1>2, <2>4, <3>1 DEF Summable
  <2>6. Total(f, A \cup T) = Add(a, b)
    BY <1>5, <2>4
  <2>7. Add(c, Add(a, b)) = Add(a, Add(c, b))
    BY <2>5 DEF Add, Stats, StatSet
  <2>8. Total(f, V) = Add(a, Total(f, U))
    BY <2>2, <2>3, <2>4, <2>6, <2>7
  <2>9. U \in SUBSET B
    BY <2>1
  <2> QED BY <2>1, <2>4, <2>8, <2>9
<1>6. B \in C
  <2> HIDE DEF C
  <2> QED BY <1>3, <1>4, <1>5, FiniteSetInduction
<1> QED BY <1>6

(* Sums stay sums.                                                         *)
LEMMA StatsArithmetic ==
  \A a, b \in StatSet : Add(a, b) \in StatSet /\ Subtract(a, b) \in StatSet
BY DEF Add, Subtract, Stats, StatSet


-----------------------------------------------------------------------------
(* The settings, and what weights and gains are.                           *)

(* What SettingAssumption says of the setting in use.                      *)
LEMMA SettingIs ==
  ASSUME p \in Settings
  PROVE  /\ p.features \in Nat \ {0} /\ p.bins \in Nat \ {0} /\ p.targets \in Nat \ {0}
         /\ p.lambda \in Nat /\ p.alpha \in Nat /\ p.max_delta_step \in Nat
         /\ p.min_child_weight \in Nat
         /\ p.monotone \in [1 .. p.features -> {-1, 0, 1}]
         /\ p.cat \in SUBSET Nat /\ p.interaction \in SUBSET SUBSET Nat
         /\ p.max_cat_to_onehot \in Nat /\ p.max_cat_threshold \in Nat
         /\ \A i \in DOMAIN p.kinds :
              /\ p.kinds[i].bin \in [1 .. p.features -> 0 .. p.bins]
              /\ p.kinds[i].gpair \in [1 .. p.targets -> Int \X Nat]
<1>1. /\ p.features \in Nat \ {0} /\ p.bins \in Nat \ {0} /\ p.targets \in Nat \ {0}
      /\ p.lambda \in Nat /\ p.alpha \in Nat /\ p.max_delta_step \in Nat
      /\ p.min_child_weight \in Nat
      /\ p.cat \in SUBSET Nat /\ p.interaction \in SUBSET SUBSET Nat
      /\ p.max_cat_to_onehot \in Nat /\ p.max_cat_threshold \in Nat
      /\ p.monotone \in Seq({-1, 0, 1})
      /\ p.kinds \in Seq([bin : Seq(Nat), gpair : Seq(Int \X Nat)])
  BY SettingAssumption
<1>2. /\ Len(p.monotone) = p.features
      /\ \A i \in DOMAIN p.kinds :
           /\ p.kinds[i].bin \in [1 .. p.features -> 0 .. p.bins]
           /\ Len(p.kinds[i].gpair) = p.targets
  BY SettingAssumption
<1>3. p.monotone \in [1 .. p.features -> {-1, 0, 1}]
  BY <1>1, <1>2
<1>4. ASSUME NEW i \in DOMAIN p.kinds PROVE p.kinds[i].gpair \in [1 .. p.targets -> Int \X Nat]
  <2>1. p.kinds[i] \in [bin : Seq(Nat), gpair : Seq(Int \X Nat)]
    <3>1. PICK K, ks : K = [bin : Seq(Nat), gpair : Seq(Int \X Nat)] /\ ks = p.kinds
      OBVIOUS
    <3>2. ks \in Seq(K) /\ i \in DOMAIN ks
      BY <1>1, <3>1
    <3>3. ks[i] \in K
      BY <3>2
    <3> QED BY <3>1, <3>3
  <2>2. p.kinds[i].gpair \in Seq(Int \X Nat)
    BY <2>1
  <2> QED BY <1>2, <2>2
<1> QED BY <1>1, <1>2, <1>3, <1>4

Boxed(n) == n.lower \in Q /\ n.upper \in Q

(* A clamped fraction is one, between the bounds.                          *)
LEMMA ClampIs ==
  ASSUME NEW w \in Q, NEW low \in Q, NEW high \in Q
  PROVE  /\ Clamp(w, low, high) \in Q
         /\ LE(low, high) => LE(low, Clamp(w, low, high)) /\ LE(Clamp(w, low, high), high)
<1>1. Below(w, low) <=> ~LE(low, w)
  BY ComparedAs
<1>2. Below(high, w) <=> ~LE(w, high)
  BY ComparedAs
<1>3. LE(low, low) /\ LE(high, high)
  BY Ordered
<1> QED BY <1>1, <1>2, <1>3 DEF Clamp

(* A weight is a fraction, within the box where there are constraints.     *)
LEMMA WeightIs ==
  ASSUME p \in Settings, NEW s \in StatSet
  PROVE  /\ UnboundedWeight(s) \in Q
         /\ \A n : Boxed(n) => CalcWeight(n, s) \in Q
         /\ \A n : Boxed(n) /\ HasConstraint /\ LE(n.lower, n.upper) =>
              LE(n.lower, CalcWeight(n, s)) /\ LE(CalcWeight(n, s), n.upper)
<1>1. s.grad \in Int /\ s.hess \in Int /\ ThresholdL1(s.grad) \in Int
  BY SettingIs DEF StatSet, ThresholdL1
<1>2. UnboundedWeight(s) \in Q
  <2>1. CASE s.hess <= 0
    BY <2>1 DEF UnboundedWeight, Zero, Q
  <2>2. CASE ~(s.hess <= 0)
    <3>1. s.hess + p.lambda \in Nat \ {0} /\ -ThresholdL1(s.grad) \in Int
      <4>1. PICK l \in Nat : l = p.lambda
        BY SettingIs
      <4>2. PICK h \in Int, t \in Int : h = s.hess /\ t = ThresholdL1(s.grad) /\ ~(h <= 0)
        BY <1>1, <2>2
      <4>3. h + l \in Nat \ {0} /\ -t \in Int
        BY <4>2
      <4> QED BY <4>1, <4>2, <4>3
    <3>2. PICK w : w = Frac(-ThresholdL1(s.grad), s.hess + p.lambda)
      OBVIOUS
    <3>3. w \in Q
      BY <3>1, <3>2, FracIs
    <3>4. PICK l, u : l = <<-p.max_delta_step, 1>> /\ u = <<p.max_delta_step, 1>>
      OBVIOUS
    <3>5. l \in Q /\ u \in Q
      BY <3>4, SettingIs DEF Q
    <3>6. Clamp(w, l, u) \in Q
      BY <3>3, <3>5, ClampIs
    <3>7. UnboundedWeight(s) = IF p.max_delta_step = 0 THEN w ELSE Clamp(w, l, u)
      BY <2>2, <3>2, <3>4 DEF UnboundedWeight
    <3> QED BY <3>3, <3>6, <3>7
  <2> QED BY <2>1, <2>2
<1>3. ASSUME NEW n, Boxed(n) PROVE CalcWeight(n, s) \in Q
  BY <1>2, <1>3, ClampIs DEF CalcWeight, Boxed
<1>4. ASSUME NEW n, Boxed(n), HasConstraint, LE(n.lower, n.upper)
      PROVE  LE(n.lower, CalcWeight(n, s)) /\ LE(CalcWeight(n, s), n.upper)
  BY <1>2, <1>4, ClampIs DEF CalcWeight, Boxed
<1> QED BY <1>2, <1>3, <1>4

(* So a gain is a fraction, in a node with a box,                          *)
LEMMA GainIs ==
  ASSUME p \in Settings, NEW n, Boxed(n), NEW s \in StatSet
  PROVE  CalcGain(n, s) \in Q
<1>1. PICK w \in Q : w = CalcWeight(n, s)
  BY WeightIs
<1>2. PICK g \in Int, h \in Int : g = s.grad /\ h = s.hess
  BY DEF StatSet
<1>3. PICK l \in Nat, a \in Nat : l = p.lambda /\ a = p.alpha
  BY SettingIs
<1>4. GainGivenWeight(s, w) \in Q
  <2>1. 2 * g \in Int /\ h + l \in Int /\ 2 * a \in Int
    OBVIOUS
  <2>2. Scaled(2 * g, w) \in Q /\ Times(w, w) \in Q /\ Magnitude(w) \in Q
    BY <2>1, FractionArithmetic
  <2>3. Scaled(h + l, Times(w, w)) \in Q /\ Scaled(2 * a, Magnitude(w)) \in Q
    BY <2>1, <2>2, FractionArithmetic
  <2>4. PICK x \in Q, y \in Q, z \in Q :
          /\ x = Scaled(2 * g, w) /\ y = Scaled(h + l, Times(w, w))
          /\ z = Scaled(2 * a, Magnitude(w))
    BY <2>2, <2>3
  <2>5. Plus(x, y) \in Q
    BY FractionArithmetic
  <2>6. Plus(Plus(x, y), z) \in Q
    BY <2>5, FractionArithmetic
  <2>7. Zero \in Q /\ Minus(Zero, Plus(Plus(x, y), z)) \in Q
    BY <2>6, FractionArithmetic
  <2>8. GainGivenWeight(s, w) = IF h <= 0 THEN Zero ELSE Minus(Zero, Plus(Plus(x, y), z))
    BY <1>2, <1>3, <2>4 DEF GainGivenWeight
  <2> QED BY <2>7, <2>8
<1>5. ClosedFormGain(s) \in Q
  <2>1. PICK t \in Int : t = ThresholdL1(g)
    BY <1>3 DEF ThresholdL1
  <2>2. ClosedFormGain(s) = IF h <= 0 THEN Zero ELSE Frac(t * t, h + l)
    BY <1>2, <1>3, <2>1 DEF ClosedFormGain
  <2>3. ~(h <= 0) => h + l \in Nat \ {0}
    OBVIOUS
  <2>4. t * t \in Int
    OBVIOUS
  <2> QED BY <2>2, <2>3, <2>4, FracIs, FractionArithmetic
<1> QED BY <1>1, <1>4, <1>5 DEF CalcGain, GainAt

(* and so is a vector leaf's, added up target by target.                   *)
LEMMA MultiGainIs ==
  ASSUME p \in Settings, NEW n, Boxed(n), NEW sums, \A t \in Targets : sums[t] \in StatSet
  PROVE  MultiGain(n, sums) \in Q
<1> DEFINE k == p.targets
           Put(g, x) == Plus(g, x)
           each == [t \in Targets |-> CalcGain(n, sums[t])]
           step == [e \in (1 .. k) \X Q |-> Put(e[2], each[e[1]])]
           E(F) == [S \in SUBSET (1 .. k) |->
                      IF S = {} THEN Zero ELSE Put(F[S \ {Max(S)}], each[Max(S)])]
           h == CHOOSE F : F = E(F)
<1>0. k \in Nat /\ DOMAIN each = 1 .. k /\ \A i \in 1 .. k : each[i] \in Q
  <2>1. \A t \in Targets : CalcGain(n, sums[t]) \in Q
    BY GainIs
  <2> QED BY <2>1, SettingIs DEF Targets
<1>1. \A i \in 1 .. k, g \in Q : Put(g, each[i]) \in Q
  BY <1>0, FractionArithmetic
<1>2. Zero \in Q
  BY FractionArithmetic
<1>3. MultiGain(n, sums) = h[1 .. k]
  BY <1>0 DEF MultiGain, AddedUp, FoldLeft, MapThenFoldSet
<1> HIDE DEF k, Put, each
<1>4. /\ step \in [(1 .. k) \X Q -> Q]
      /\ \A i \in 1 .. k, g \in Q : step[<<i, g>>] = Put(g, each[i])
  <2>1. \A e \in (1 .. k) \X Q : e[1] \in 1 .. k /\ e[2] \in Q
    OBVIOUS
  <2>2. \A e \in (1 .. k) \X Q : Put(e[2], each[e[1]]) \in Q
    BY <1>1, <2>1
  <2>3. step \in [(1 .. k) \X Q -> Q]
    BY <2>2
  <2>4. ASSUME NEW i \in 1 .. k, NEW g \in Q PROVE step[<<i, g>>] = Put(g, each[i])
    OBVIOUS
  <2> QED BY <2>3, <2>4
<1> HIDE DEF step
<1>5. PICK F \in [SUBSET (1 .. k) -> Q] : FoldOn(k, Zero, step, F)
  <2> HIDE DEF E, h
  <2> QED BY <1>0, <1>2, <1>4, FoldExists, Zenon
<1>6. F = E(F)
  <2>1. ASSUME NEW S \in SUBSET (1 .. k)
        PROVE  F[S] = IF S = {} THEN Zero ELSE Put(F[S \ {Max(S)}], each[Max(S)])
    <3>1. CASE S = {}
      BY <1>5, <3>1 DEF FoldOn
    <3>2. CASE S # {}
      <4>1. F[S] = step[<<Max(S), F[S \ {Max(S)}]>>]
        BY <1>5, <3>2 DEF FoldOn
      <4>2. Max(S) \in 1 .. k /\ F[S \ {Max(S)}] \in Q
        BY <1>0, <3>2, MaxIn
      <4> QED BY <1>4, <3>2, <4>1, <4>2
    <3> QED BY <3>1, <3>2
  <2> QED BY <2>1
<1>7. h = E(h)
  <2> HIDE DEF E
  <2> QED BY <1>6
<1> HIDE DEF h
<1>8. Folds(k, Q, Zero, step, h)
  <2>1. h[{}] = Zero
    BY <1>7
  <2>2. ASSUME NEW S \in SUBSET (1 .. k), S # {}, h[S \ {Max(S)}] \in Q
        PROVE  h[S] = step[<<Max(S), h[S \ {Max(S)}]>>]
    <3>1. h[S] = Put(h[S \ {Max(S)}], each[Max(S)])
      BY <1>7, <2>2
    <3>2. Max(S) \in 1 .. k
      BY <1>0, MaxIn, <2>2
    <3> QED BY <1>4, <2>2, <3>1, <3>2
  <2> HIDE DEF E
  <2> QED BY <2>1, <2>2 DEF Folds
<1>9. Result(k, Q, Zero, step, h[1 .. k])
  BY <1>0, <1>2, <1>4, <1>8, RunOf
<1>10. h[1 .. k] \in Q
  BY <1>0, <1>9 DEF Result
<1> QED BY <1>3, <1>10

-----------------------------------------------------------------------------
(* The folds of the search: what they return is the best of what they saw. *)

(* What a scan holds after each candidate: what it began with, or one of   *)
(* them that is allowed.                                                   *)
Scanning(n, first, cands, k, R) ==
  /\ R[0] = first /\ R[k] = Scan(n, first, cands)
  /\ \A i \in 0 .. k :
       R[i] = first \/ \E j \in 1 .. k : R[i] = cands[j] /\ IsFinite(n, cands[j])
  /\ \A i \in 1 .. k : R[i] = Consider(n, R[i - 1], cands[i])
LEMMA ScanRuns ==
  ASSUME NEW n, NEW first, NEW cands, NEW k \in Nat, DOMAIN cands = 1 .. k
  PROVE  \E R : Scanning(n, first, cands, k, R)
<1> DEFINE D == {first} \cup {c \in {cands[i] : i \in 1 .. k} : IsFinite(n, c)}
           step == [e \in (1 .. k) \X D |-> Consider(n, e[2], cands[e[1]])]
           E(F) == [S \in SUBSET (1 .. k) |->
                      IF S = {} THEN first ELSE Consider(n, F[S \ {Max(S)}], cands[Max(S)])]
           h == CHOOSE F : F = E(F)
<1>1. \A i \in 1 .. k, e \in D : Consider(n, e, cands[i]) \in D
  BY DEF Consider, UpdateEntry
<1>2. first \in D
  OBVIOUS
<1>3. /\ step \in [(1 .. k) \X D -> D]
      /\ \A i \in 1 .. k, e \in D : step[<<i, e>>] = Consider(n, e, cands[i])
  <2>1. \A e \in (1 .. k) \X D : e[1] \in 1 .. k /\ e[2] \in D
    OBVIOUS
  <2> HIDE DEF D
  <2>2. \A e \in (1 .. k) \X D : Consider(n, e[2], cands[e[1]]) \in D
    BY <1>1, <2>1
  <2> QED BY <2>2
<1> HIDE DEF step, D
<1>4. PICK F \in [SUBSET (1 .. k) -> D] : FoldOn(k, first, step, F)
  <2> HIDE DEF E, h
  <2> QED BY <1>2, <1>3, FoldExists, Zenon
<1>5. F = E(F)
  <2>1. ASSUME NEW S \in SUBSET (1 .. k)
        PROVE  F[S] = IF S = {} THEN first ELSE Consider(n, F[S \ {Max(S)}], cands[Max(S)])
    <3>1. CASE S = {}
      BY <1>4, <3>1 DEF FoldOn
    <3>2. CASE S # {}
      <4>1. F[S] = step[<<Max(S), F[S \ {Max(S)}]>>]
        BY <1>4, <3>2 DEF FoldOn
      <4>2. Max(S) \in 1 .. k /\ F[S \ {Max(S)}] \in D
        BY <3>2, MaxIn
      <4> QED BY <1>3, <3>2, <4>1, <4>2
    <3> QED BY <3>1, <3>2
  <2> QED BY <2>1
<1>6. h = E(h)
  <2> HIDE DEF E
  <2> QED BY <1>5
<1>7. Scan(n, first, cands) = h[1 .. k]
  BY DEF Scan, FoldLeft, MapThenFoldSet
<1> HIDE DEF h
<1>8. Folds(k, D, first, step, h)
  <2>1. h[{}] = first
    BY <1>6
  <2>2. ASSUME NEW S \in SUBSET (1 .. k), S # {}, h[S \ {Max(S)}] \in D
        PROVE  h[S] = step[<<Max(S), h[S \ {Max(S)}]>>]
    <3>1. h[S] = Consider(n, h[S \ {Max(S)}], cands[Max(S)])
      BY <1>6, <2>2
    <3>2. Max(S) \in 1 .. k
      BY MaxIn, <2>2
    <3> QED BY <1>3, <2>2, <3>1, <3>2
  <2> HIDE DEF E
  <2> QED BY <2>1, <2>2 DEF Folds
<1>9. Result(k, D, first, step, h[1 .. k])
  BY <1>2, <1>3, <1>8, RunOf
<1>10. PICK R \in [0 .. k -> D] : /\ R[0] = first /\ R[k] = h[1 .. k]
                                 /\ \A i \in 1 .. k : R[i] = step[<<i, R[i - 1]>>]
  BY <1>9 DEF Result
<1>11. ASSUME NEW i \in 1 .. k PROVE R[i] = Consider(n, R[i - 1], cands[i])
  <2>1. i - 1 \in 0 .. k
    OBVIOUS
  <2> QED BY <1>3, <1>10, <2>1
<1>12. ASSUME NEW i \in 0 .. k
       PROVE  R[i] = first \/ \E j \in 1 .. k : R[i] = cands[j] /\ IsFinite(n, cands[j])
  <2>1. R[i] \in D
    OBVIOUS
  <2> QED BY <2>1 DEF D
<1> QED BY <1>7, <1>10, <1>11, <1>12 DEF Scanning

(* So a scan ends with what it began with, or with a candidate that is     *)
(* allowed.                                                                *)
LEMMA ScanIs ==
  ASSUME NEW n, NEW first, NEW cands, NEW k \in Nat, DOMAIN cands = 1 .. k
  PROVE  \/ Scan(n, first, cands) = first
         \/ \E i \in 1 .. k : Scan(n, first, cands) = cands[i] /\ IsFinite(n, cands[i])
<1>1. PICK R : Scanning(n, first, cands, k, R)
  BY ScanRuns
<1>2. R[k] = Scan(n, first, cands) /\ k \in 0 .. k
  BY <1>1 DEF Scanning
<1> QED BY <1>1, <1>2 DEF Scanning

(* A split that takes a better one's place, where gains are fractions.     *)
LEMMA UpdateKeeps ==
  ASSUME NEW e, e.chg \in Q, NEW new, new.chg \in Q, NEW u, u = UpdateEntry(e, new)
  PROVE  u \in {e, new} /\ u.chg \in Q /\ LE(e.chg, u.chg) /\ LE(new.chg, u.chg)
<1>1. PICK a \in Q, b \in Q : a = e.chg /\ b = new.chg
  OBVIOUS
<1>2. /\ Below(a, b) <=> ~LE(b, a)
      /\ Below(b, a) <=> ~LE(a, b)
  BY ComparedAs
<1>3. LE(a, a) /\ LE(b, b) /\ (LE(a, b) \/ LE(b, a))
  BY Ordered
<1>4. CASE NeedReplace(e, new.chg, new.f)
  <2>1. u = new
    BY <1>4 DEF UpdateEntry
  <2>2. LE(a, b)
    BY <1>1, <1>2, <1>3, <1>4 DEF NeedReplace
  <2> QED BY <1>1, <1>3, <2>1, <2>2
<1>5. CASE ~NeedReplace(e, new.chg, new.f)
  <2>1. u = e
    BY <1>5 DEF UpdateEntry
  <2>2. LE(b, a)
    BY <1>1, <1>2, <1>3, <1>5 DEF NeedReplace
  <2> QED BY <1>1, <1>3, <2>1, <2>2
<1> QED BY <1>4, <1>5

(* A scan gains no less than it began with and than any candidate.         *)
LEMMA ScanBest ==
  ASSUME NEW n, NEW first, NEW cands, NEW k \in Nat, DOMAIN cands = 1 .. k,
         first.chg \in Q, \A i \in 1 .. k : IsFinite(n, cands[i]) => cands[i].chg \in Q,
         NEW e, e = Scan(n, first, cands)
  PROVE  /\ e.chg \in Q /\ LE(first.chg, e.chg)
         /\ \A i \in 1 .. k : IsFinite(n, cands[i]) => LE(cands[i].chg, e.chg)
<1>1. PICK R : Scanning(n, first, cands, k, R)
  BY ScanRuns
<1> DEFINE Upto(m) == /\ R[m].chg \in Q /\ LE(first.chg, R[m].chg)
                      /\ \A i \in 1 .. m : IsFinite(n, cands[i]) => LE(cands[i].chg, R[m].chg)
           C == {m \in Nat : m <= k => Upto(m)}
<1>2. 0 \in C
  <2>1. R[0] = first
    BY <1>1 DEF Scanning
  <2>2. LE(first.chg, first.chg)
    BY Ordered
  <2> QED BY <2>1, <2>2
<1>3. ASSUME NEW m \in Nat, m \in C PROVE m + 1 \in C
  <2> SUFFICES ASSUME m + 1 <= k PROVE Upto(m + 1)
    OBVIOUS
  <2>1. Upto(m)
    BY <1>3
  <2>2. PICK x, y, z : x = R[m] /\ y = cands[m + 1] /\ z = R[m + 1]
    OBVIOUS
  <2>3. z = Consider(n, x, y) /\ m + 1 \in 1 .. k
    <3>1. m + 1 \in 1 .. k /\ (m + 1) - 1 = m
      OBVIOUS
    <3> QED BY <1>1, <2>2, <3>1 DEF Scanning
  <2>4. z.chg \in Q /\ LE(x.chg, z.chg) /\ (IsFinite(n, y) => LE(y.chg, z.chg))
    <3>1. CASE IsFinite(n, y)
      BY <2>1, <2>2, <2>3, <3>1, UpdateKeeps DEF Consider
    <3>2. CASE ~IsFinite(n, y)
      BY <2>1, <2>2, <2>3, <3>2, Ordered DEF Consider
    <3> QED BY <3>1, <3>2
  <2>5. ASSUME NEW q \in Q, LE(q, x.chg) PROVE LE(q, z.chg)
    BY <2>1, <2>2, <2>4, <2>5, Ordered
  <2>6. LE(first.chg, z.chg)
    BY <2>1, <2>2, <2>5
  <2>7. ASSUME NEW i \in 1 .. m + 1, IsFinite(n, cands[i]) PROVE LE(cands[i].chg, z.chg)
    <3>1. CASE i = m + 1
      BY <2>2, <2>4, <2>7, <3>1
    <3>2. CASE i \in 1 .. m
      <4>1. i \in 1 .. k /\ cands[i].chg \in Q
        BY <2>7, <3>2
      <4> QED BY <2>1, <2>2, <2>5, <2>7, <3>2, <4>1
    <3> QED BY <3>1, <3>2
  <2> QED BY <2>2, <2>4, <2>6, <2>7
<1> HIDE DEF Upto
<1>4. \A m \in Nat : m \in C
  <2> HIDE DEF C
  <2> QED BY <1>2, <1>3, NatSetInduction
<1>5. Upto(k)
  BY <1>4
<1>6. R[k] = e
  BY <1>1 DEF Scanning
<1> QED BY <1>5, <1>6 DEF Upto

Evaluate(n, f) == IF IsMulti THEN EvaluateOneMulti(n, f) ELSE EvaluateOne(n, f)

(* What the search of a node holds after each feature.                     *)
Searching(n, R) ==
  /\ R[0] = NoSplit /\ R[p.features] = EvaluateSplits(n)
  /\ \A i \in 0 .. p.features : R[i] = NoSplit \/ \E f \in Features : R[i] = Evaluate(n, f)
  /\ \A i \in 1 .. p.features : R[i] = UpdateEntry(R[i - 1], Evaluate(n, i - 1))
LEMMA SearchRuns ==
  ASSUME p \in Settings, NEW n
  PROVE  \E R : Searching(n, R)
<1> DEFINE k == p.features
           Put(e, f) == UpdateEntry(e, Evaluate(n, f))
           D == {NoSplit} \cup {Evaluate(n, f) : f \in Features}
           step == [e \in (1 .. k) \X D |-> Put(e[2], FeatureSeq[e[1]])]
           E(F) == [S \in SUBSET (1 .. k) |->
                      IF S = {} THEN NoSplit ELSE Put(F[S \ {Max(S)}], FeatureSeq[Max(S)])]
           h == CHOOSE F : F = E(F)
<1>0. k \in Nat /\ DOMAIN FeatureSeq = 1 .. k /\ \A i \in 1 .. k : FeatureSeq[i] \in Features
  BY SettingIs DEF FeatureSeq, Features
<1>1. \A i \in 1 .. k, e \in D : Put(e, FeatureSeq[i]) \in D
  BY <1>0 DEF UpdateEntry
<1>2. NoSplit \in D
  OBVIOUS
<1>3. EvaluateSplits(n) = h[1 .. k]
  BY <1>0 DEF EvaluateSplits, Evaluate, FoldLeft, MapThenFoldSet
<1> HIDE DEF k, Put
<1>4. /\ step \in [(1 .. k) \X D -> D]
      /\ \A i \in 1 .. k, e \in D : step[<<i, e>>] = Put(e, FeatureSeq[i])
  <2>1. \A e \in (1 .. k) \X D : e[1] \in 1 .. k /\ e[2] \in D
    OBVIOUS
  <2> HIDE DEF D
  <2>2. \A e \in (1 .. k) \X D : Put(e[2], FeatureSeq[e[1]]) \in D
    BY <1>1, <2>1
  <2> QED BY <2>2
<1> HIDE DEF step, D
<1>5. PICK F \in [SUBSET (1 .. k) -> D] : FoldOn(k, NoSplit, step, F)
  <2> HIDE DEF E, h
  <2> QED BY <1>0, <1>2, <1>4, FoldExists, Zenon
<1>6. F = E(F)
  <2>1. ASSUME NEW S \in SUBSET (1 .. k)
        PROVE  F[S] = IF S = {} THEN NoSplit ELSE Put(F[S \ {Max(S)}], FeatureSeq[Max(S)])
    <3>1. CASE S = {}
      BY <1>5, <3>1 DEF FoldOn
    <3>2. CASE S # {}
      <4>1. F[S] = step[<<Max(S), F[S \ {Max(S)}]>>]
        BY <1>5, <3>2 DEF FoldOn
      <4>2. Max(S) \in 1 .. k /\ F[S \ {Max(S)}] \in D
        BY <1>0, <3>2, MaxIn
      <4> QED BY <1>4, <3>2, <4>1, <4>2
    <3> QED BY <3>1, <3>2
  <2> QED BY <2>1
<1>7. h = E(h)
  <2> HIDE DEF E
  <2> QED BY <1>6
<1> HIDE DEF h
<1>8. Folds(k, D, NoSplit, step, h)
  <2>1. h[{}] = NoSplit
    BY <1>7
  <2>2. ASSUME NEW S \in SUBSET (1 .. k), S # {}, h[S \ {Max(S)}] \in D
        PROVE  h[S] = step[<<Max(S), h[S \ {Max(S)}]>>]
    <3>1. h[S] = Put(h[S \ {Max(S)}], FeatureSeq[Max(S)])
      BY <1>7, <2>2
    <3>2. Max(S) \in 1 .. k
      BY <1>0, MaxIn, <2>2
    <3> QED BY <1>4, <2>2, <3>1, <3>2
  <2> HIDE DEF E
  <2> QED BY <2>1, <2>2 DEF Folds
<1>9. Result(k, D, NoSplit, step, h[1 .. k])
  BY <1>0, <1>2, <1>4, <1>8, RunOf
<1>10. PICK R \in [0 .. k -> D] : /\ R[0] = NoSplit /\ R[k] = h[1 .. k]
                                 /\ \A i \in 1 .. k : R[i] = step[<<i, R[i - 1]>>]
  BY <1>9 DEF Result
<1>11. ASSUME NEW i \in 1 .. k PROVE R[i] = UpdateEntry(R[i - 1], Evaluate(n, i - 1))
  <2>1. i - 1 \in 0 .. k
    BY <1>0
  <2>2. R[i] = Put(R[i - 1], FeatureSeq[i])
    BY <1>4, <1>10, <2>1
  <2>3. FeatureSeq[i] = i - 1
    BY DEF FeatureSeq, k
  <2> QED BY <2>2, <2>3 DEF Put
<1>12. ASSUME NEW i \in 0 .. k
       PROVE  R[i] = NoSplit \/ \E f \in Features : R[i] = Evaluate(n, f)
  <2>1. R[i] \in D
    OBVIOUS
  <2> QED BY <2>1 DEF D
<1> QED BY <1>3, <1>10, <1>11, <1>12 DEF Searching, k

(* So the split of a node is the one found on some feature, or none.       *)
LEMMA EvaluateSplitsIs ==
  ASSUME p \in Settings, NEW n
  PROVE  \/ EvaluateSplits(n) = NoSplit
         \/ \E f \in Features : EvaluateSplits(n) = Evaluate(n, f)
<1>1. PICK R : Searching(n, R)
  BY SearchRuns
<1>2. R[p.features] = EvaluateSplits(n) /\ p.features \in 0 .. p.features
  BY <1>1, SettingIs DEF Searching
<1> QED BY <1>1, <1>2 DEF Searching

(* It gains no less than nothing and than what was found on any feature.   *)
LEMMA EvaluateSplitsBest ==
  ASSUME p \in Settings, NEW n, \A f \in Features : Evaluate(n, f).chg \in Q,
         NEW e, e = EvaluateSplits(n)
  PROVE  e.chg \in Q /\ LE(Zero, e.chg) /\ \A f \in Features : LE(Evaluate(n, f).chg, e.chg)
<1>0. PICK k \in Nat : k = p.features
  BY SettingIs
<1>1. PICK R : Searching(n, R)
  BY SearchRuns
<1> DEFINE Upto(m) == /\ R[m].chg \in Q /\ LE(Zero, R[m].chg)
                      /\ \A f \in 0 .. m - 1 : LE(Evaluate(n, f).chg, R[m].chg)
           C == {m \in Nat : m <= k => Upto(m)}
<1>2. 0 \in C
  <2>1. R[0].chg = Zero
    BY <1>1 DEF Searching, NoSplit
  <2>2. Zero \in Q /\ LE(Zero, Zero)
    BY Ordered, FractionArithmetic
  <2> QED BY <2>1, <2>2
<1>3. ASSUME NEW m \in Nat, m \in C PROVE m + 1 \in C
  <2> SUFFICES ASSUME m + 1 <= k PROVE Upto(m + 1)
    OBVIOUS
  <2>1. Upto(m)
    BY <1>3
  <2>2. PICK x, y, z : x = R[m] /\ y = Evaluate(n, m) /\ z = R[m + 1]
    OBVIOUS
  <2>3. z = UpdateEntry(x, y) /\ m \in Features
    <3>1. m + 1 \in 1 .. k /\ (m + 1) - 1 = m /\ m \in 0 .. k - 1
      OBVIOUS
    <3> QED BY <1>0, <1>1, <2>2, <3>1 DEF Searching, Features
  <2>4. z.chg \in Q /\ LE(x.chg, z.chg) /\ LE(y.chg, z.chg)
    BY <2>1, <2>2, <2>3, UpdateKeeps
  <2>5. ASSUME NEW q \in Q, LE(q, x.chg) PROVE LE(q, z.chg)
    BY <2>1, <2>2, <2>4, <2>5, Ordered
  <2>6. LE(Zero, z.chg)
    BY <2>1, <2>2, <2>5, FractionArithmetic
  <2>7. ASSUME NEW f \in 0 .. m PROVE LE(Evaluate(n, f).chg, z.chg)
    <3>1. CASE f = m
      BY <2>2, <2>4, <3>1
    <3>2. CASE f \in 0 .. m - 1
      <4>1. f \in Features
        BY <1>0, <3>2 DEF Features
      <4> QED BY <2>1, <2>2, <2>5, <3>2, <4>1
    <3> QED BY <3>1, <3>2
  <2>8. (m + 1) - 1 = m
    OBVIOUS
  <2> QED BY <2>2, <2>4, <2>6, <2>7, <2>8
<1> HIDE DEF Upto
<1>4. \A m \in Nat : m \in C
  <2> HIDE DEF C
  <2> QED BY <1>2, <1>3, NatSetInduction
<1>5. Upto(k)
  BY <1>4
<1>6. R[k] = e
  BY <1>0, <1>1 DEF Searching
<1> QED BY <1>0, <1>5, <1>6 DEF Upto, Features

-----------------------------------------------------------------------------
(* What a feature's scans choose from.                                     *)

(* A split is the best of some candidates: none, or one that is allowed,   *)
(* and where their gains are fractions no worse than any that is.          *)
BestOf(n, C, e) ==
  /\ e = NoSplit \/ (e \in C /\ IsFinite(n, e))
  /\ (\A c \in C : c.chg \in Q) =>
       /\ e.chg \in Q /\ LE(Zero, e.chg)
       /\ \A c \in C : IsFinite(n, c) => LE(c.chg, e.chg)

LEMMA NoneBest == \A n : BestOf(n, {}, NoSplit)
<1>1. NoSplit.chg = Zero /\ Zero \in Q /\ LE(Zero, Zero)
  BY Ordered, FractionArithmetic DEF NoSplit
<1> QED BY <1>1 DEF BestOf

(* The best of more is found by a scan of the others that begins with it,  *)
LEMMA ScanBestOf ==
  ASSUME NEW n, NEW A, NEW first, BestOf(n, A, first), NEW cands, NEW k \in Nat,
         DOMAIN cands = 1 .. k, NEW C, C = A \cup {cands[i] : i \in 1 .. k},
         NEW e, e = Scan(n, first, cands)
  PROVE  BestOf(n, C, e)
<1>1. e = NoSplit \/ (e \in C /\ IsFinite(n, e))
  BY ScanIs DEF BestOf
<1>2. ASSUME \A c \in C : c.chg \in Q
      PROVE  /\ e.chg \in Q /\ LE(Zero, e.chg)
             /\ \A c \in C : IsFinite(n, c) => LE(c.chg, e.chg)
  <2>1. /\ first.chg \in Q /\ LE(Zero, first.chg)
        /\ \A c \in A : IsFinite(n, c) => LE(c.chg, first.chg)
    BY <1>2 DEF BestOf
  <2>2. /\ e.chg \in Q /\ LE(first.chg, e.chg)
        /\ \A i \in 1 .. k : IsFinite(n, cands[i]) => LE(cands[i].chg, e.chg)
    BY <1>2, <2>1, ScanBest
  <2>3. ASSUME NEW q \in Q, LE(q, first.chg) PROVE LE(q, e.chg)
    BY <2>1, <2>2, <2>3, Ordered
  <2>4. LE(Zero, e.chg)
    BY <2>1, <2>3, FractionArithmetic
  <2>5. ASSUME NEW c \in C, IsFinite(n, c) PROVE LE(c.chg, e.chg)
    <3>1. c.chg \in Q /\ (c \in A \/ \E i \in 1 .. k : c = cands[i])
      BY <1>2
    <3> QED BY <2>1, <2>2, <2>3, <2>5, <3>1
  <2> QED BY <2>2, <2>4, <2>5
<1> QED BY <1>1, <1>2 DEF BestOf

(* or by a comparison with the best of the others.                         *)
LEMMA UpdateBestOf ==
  ASSUME NEW n, NEW A, NEW a, BestOf(n, A, a), NEW B, NEW b, BestOf(n, B, b),
         NEW u, u = UpdateEntry(a, b)
  PROVE  BestOf(n, A \cup B, u)
<1>1. u = NoSplit \/ (u \in A \cup B /\ IsFinite(n, u))
  BY DEF BestOf, UpdateEntry
<1>2. ASSUME \A c \in A \cup B : c.chg \in Q
      PROVE  /\ u.chg \in Q /\ LE(Zero, u.chg)
             /\ \A c \in A \cup B : IsFinite(n, c) => LE(c.chg, u.chg)
  <2>1. /\ a.chg \in Q /\ LE(Zero, a.chg) /\ b.chg \in Q
        /\ \A c \in A : IsFinite(n, c) => LE(c.chg, a.chg)
        /\ \A c \in B : IsFinite(n, c) => LE(c.chg, b.chg)
    BY <1>2 DEF BestOf
  <2>2. u.chg \in Q /\ LE(a.chg, u.chg) /\ LE(b.chg, u.chg)
    BY <2>1, UpdateKeeps
  <2>3. LE(Zero, u.chg)
    BY <2>1, <2>2, Ordered, FractionArithmetic
  <2>4. ASSUME NEW c \in A \cup B, IsFinite(n, c) PROVE LE(c.chg, u.chg)
    <3>1. c.chg \in Q /\ (LE(c.chg, a.chg) \/ LE(c.chg, b.chg))
      BY <1>2, <2>1, <2>4
    <3> QED BY <2>1, <2>2, <3>1, Ordered
  <2> QED BY <2>2, <2>3, <2>4
<1> QED BY <1>1, <1>2 DEF BestOf

-----------------------------------------------------------------------------
(* What a search finds.                                                    *)

Bins == 0 .. p.features * p.bins - 1
Hists == [Bins -> StatSet]

(* A split on a feature that a node is allowed: of a scalar leaf the sums  *)
(* of its sides are such that the split is valid and keeps the order.      *)
IsSplit(n, f, e) ==
  /\ e.f = f /\ Query(n, f)
  /\ ~IsMulti => /\ e.left \in StatSet /\ e.right \in StatSet /\ e.value \in Int
                 /\ e.is_cat <=> f \in p.cat
                 /\ IsAllowed(n, f, e.left, e.right)

(* A histogram's sums over some bins are sums.                             *)
LEMMA SumsOfBins ==
  ASSUME p \in Settings, NEW hist \in Hists, NEW B \in SUBSET Bins
  PROVE  Total(hist, B) \in StatSet
<1>1. IsFiniteSet(B)
  <2>1. p.features * p.bins - 1 \in Int
    BY SettingIs
  <2>2. IsFiniteSet(Bins)
    BY <2>1, FS_Interval DEF Bins
  <2> QED BY <2>2, FS_Subset
<1>2. Summable(hist, B)
  BY <1>1 DEF Summable, Hists
<1> QED BY <1>2, TotalOut

(* The bins of a feature.                                                  *)
LEMMA BinsOf ==
  ASSUME p \in Settings, NEW f \in Features
  PROVE  /\ f \in Nat /\ CutPtr(f) \in Nat
         /\ CutPtr(f) .. CutPtr(f) + p.bins - 1 \subseteq Bins
         /\ DOMAIN FeatureBins(f) = 1 .. p.bins
         /\ \A i \in 1 .. p.bins :
              FeatureBins(f)[i] = CutPtr(f) + i - 1 /\ FeatureBins(f)[i] \in Bins
         /\ ToSet(FeatureBins(f)) = CutPtr(f) .. CutPtr(f) + p.bins - 1
<1>1. PICK m \in Nat \ {0}, b \in Nat \ {0} : m = p.features /\ b = p.bins
  BY SettingIs
<1>2. f \in Nat /\ f + 1 <= m
  BY <1>1 DEF Features
<1>3. PICK c \in Nat : c = CutPtr(f) /\ c = f * b
  BY <1>1, <1>2 DEF CutPtr
<1>4. c + b <= m * b /\ m * b \in Nat
  <2>1. (f + 1) * b <= m * b
    BY <1>2, Monotone
  <2>2. (f + 1) * b = c + b
    BY <1>2, <1>3
  <2> QED BY <2>1, <2>2
<1>5. Bins = 0 .. m * b - 1
  BY <1>1 DEF Bins
<1>6. c .. c + b - 1 \subseteq Bins
  BY <1>4, <1>5
<1>7. FeatureBins(f) = [i \in 1 .. b |-> c + i - 1]
  BY <1>1, <1>3 DEF FeatureBins
<1>8. \A i \in 1 .. b : c + i - 1 \in c .. c + b - 1 /\ (c + i) - 1 = c + (i - 1)
  OBVIOUS
<1>9. ASSUME NEW x \in c .. c + b - 1 PROVE \E i \in 1 .. b : x = c + i - 1
  <2>1. (x - c) + 1 \in 1 .. b /\ x = c + ((x - c) + 1) - 1
    OBVIOUS
  <2> QED BY <2>1
<1>10. ToSet(FeatureBins(f)) = c .. c + b - 1
  <2>1. PICK seq : seq = FeatureBins(f)
    OBVIOUS
  <2>2. DOMAIN seq = 1 .. b /\ \A i \in 1 .. b : seq[i] = c + i - 1
    BY <1>7, <2>1
  <2>3. ToSet(seq) = {seq[i] : i \in 1 .. b}
    BY <2>2 DEF ToSet
  <2>4. \A x \in ToSet(seq) : x \in c .. c + b - 1
    BY <1>8, <2>2, <2>3
  <2>5. \A x \in c .. c + b - 1 : x \in ToSet(seq)
    BY <1>9, <2>2, <2>3
  <2> QED BY <2>1, <2>4, <2>5
<1> QED BY <1>1, <1>2, <1>3, <1>6, <1>7, <1>8, <1>10

(* The candidates of a feature's scans: up to a bin, from a bin on,        *)
UpTo(n, f, hist, b) ==
  LET left == Total(hist, CutPtr(f) .. b)
  IN Candidate(n, f, b, FALSE, left, Subtract(n.stats, left), {})
DownTo(n, f, hist, b) ==
  LET right == Total(hist, b .. CutPtr(f) + p.bins - 1)
  IN Candidate(n, f, BackwardSplitPoint(f, b), TRUE, Subtract(n.stats, right), right, {})

(* a category, or the first m of the categories in their order,            *)
One(n, f, hist, b, dl) ==
  LET right == IF dl THEN hist[b] ELSE Add(hist[b], Subtract(n.stats, NonMissing(f, hist)))
  IN Candidate(n, f, b, dl, Subtract(n.stats, right), right, {b})
Heads(n, f, hist, m, dl) ==
  LET head == SortedCategories(f, hist, m)
      some == Total(hist, IF dl THEN head ELSE ToSet(FeatureBins(f)) \ head)
      rest == Subtract(n.stats, some)
  IN Candidate(n, f, 0, dl, IF dl THEN rest ELSE some, IF dl THEN some ELSE rest, head)

(* and of a vector leaf.                                                   *)
SumsOver(n, B) == [t \in Targets |-> Total(n.hists[t], B)]
RestOf(n, sums) == [t \in Targets |-> Subtract(n.sums[t], sums[t])]
UpToAll(n, f, b) ==
  LET left == SumsOver(n, CutPtr(f) .. b)
  IN MultiCandidate(n, f, b, FALSE, left, RestOf(n, left), MultiGain(n, n.sums))
DownToAll(n, f, b) ==
  LET right == SumsOver(n, b .. CutPtr(f) + p.bins - 1)
  IN MultiCandidate(n, f, BackwardSplitPoint(f, b), TRUE, RestOf(n, right), right,
                    MultiGain(n, n.sums))

Most == LesserOf(p.max_cat_threshold, p.bins) - 1
Numbers(n, f, hist) ==
  LET bins == ToSet(FeatureBins(f))
  IN {UpTo(n, f, hist, b) : b \in bins} \cup
     {c \in {DownTo(n, f, hist, b) : b \in bins} : NonMissing(f, hist) # n.stats}
Categories(n, f, hist) ==
  IF UseOneHot THEN {One(n, f, hist, b, TRUE) : b \in ToSet(FeatureBins(f))} \cup
                    {One(n, f, hist, b, FALSE) : b \in ToSet(FeatureBins(f))}
  ELSE {Heads(n, f, hist, s, TRUE) : s \in 1 .. Most} \cup
       {Heads(n, f, hist, p.bins - s, FALSE) : s \in 1 .. Most}
Vectors(n, f) ==
  LET bins == ToSet(FeatureBins(f))
  IN {UpToAll(n, f, b) : b \in bins} \cup
     {c \in {DownToAll(n, f, b) : b \in bins} : SumTargets(SumsOver(n, bins)) # n.stats}
ChoicesOf(n, f) ==
  IF IsMulti THEN Vectors(n, f)
  ELSE IF f \in p.cat THEN Categories(n, f, n.hists[1]) ELSE Numbers(n, f, n.hists[1])

(* A scan of a number's bins takes the best of both directions.            *)
LEMMA NumbersBest ==
  ASSUME p \in Settings, NEW n, NEW f \in Features, NEW hist,
         NEW up, up = EnumerateForward(n, f, hist), NEW down, down = EnumerateBackward(n, f, hist),
         NEW e, e = IF NonMissing(f, hist) # n.stats THEN UpdateEntry(up, down) ELSE up
  PROVE  BestOf(n, Numbers(n, f, hist), e)
<1>1. PICK c \in Nat, k \in Nat \ {0} : c = CutPtr(f) /\ k = p.bins
  BY BinsOf, SettingIs
<1>2. PICK bins : bins = ToSet(FeatureBins(f)) /\ bins = c .. c + k - 1
  BY <1>1, BinsOf
<1>3. DOMAIN FeatureBins(f) = 1 .. k /\ \A i \in 1 .. k : FeatureBins(f)[i] = c + i - 1
  BY <1>1, BinsOf
<1> DEFINE Up(b) == UpTo(n, f, hist, b)
           Down(b) == DownTo(n, f, hist, b)
           ups == [i \in 1 .. k |-> Up(FeatureBins(f)[i])]
           downs == [i \in 1 .. k |-> Down(FeatureBins(f)[k + 1 - i])]
<1>4. up = Scan(n, NoSplit, ups) /\ down = Scan(n, NoSplit, downs)
  BY <1>1 DEF EnumerateForward, EnumerateBackward, UpTo, DownTo
<1> HIDE DEF Up, Down
<1>5. {Up(b) : b \in bins} = {} \cup {ups[i] : i \in 1 .. k}
  <2>1. ASSUME NEW b \in bins PROVE \E i \in 1 .. k : ups[i] = Up(b)
    <3>1. b - c + 1 \in 1 .. k /\ c + (b - c + 1) - 1 = b
      BY <1>2
    <3> QED BY <1>3, <3>1
  <2>2. ASSUME NEW i \in 1 .. k PROVE \E b \in bins : ups[i] = Up(b)
    <3>1. c + i - 1 \in bins
      BY <1>2
    <3> QED BY <1>3, <3>1
  <2> HIDE DEF ups
  <2> QED BY <2>1, <2>2
<1>6. {Down(b) : b \in bins} = {} \cup {downs[i] : i \in 1 .. k}
  <2>1. ASSUME NEW b \in bins PROVE \E i \in 1 .. k : downs[i] = Down(b)
    <3>1. PICK i \in 1 .. k : i = k - (b - c)
      BY <1>2
    <3>2. k + 1 - i \in 1 .. k /\ c + (k + 1 - i) - 1 = b
      BY <1>2, <3>1
    <3> QED BY <1>3, <3>2
  <2>2. ASSUME NEW i \in 1 .. k PROVE \E b \in bins : downs[i] = Down(b)
    <3>1. k + 1 - i \in 1 .. k /\ c + (k + 1 - i) - 1 \in bins
      BY <1>2
    <3> QED BY <1>3, <3>1
  <2> HIDE DEF downs
  <2> QED BY <2>1, <2>2
<1>7. DOMAIN ups = 1 .. k /\ DOMAIN downs = 1 .. k /\ k \in Nat
  OBVIOUS
<1> HIDE DEF ups, downs
<1>8. PICK U, D : U = {Up(b) : b \in bins} /\ D = {Down(b) : b \in bins}
  OBVIOUS
<1>9. BestOf(n, U, up) /\ BestOf(n, D, down)
  BY <1>4, <1>5, <1>6, <1>7, <1>8, NoneBest, ScanBestOf
<1>10. Numbers(n, f, hist) = U \cup {x \in D : NonMissing(f, hist) # n.stats}
  BY <1>2, <1>8 DEF Numbers, Up, Down
<1>11. CASE NonMissing(f, hist) # n.stats
  <2>1. Numbers(n, f, hist) = U \cup D /\ e = UpdateEntry(up, down)
    BY <1>10, <1>11
  <2>2. BestOf(n, U \cup D, e)
    BY <1>9, <2>1, UpdateBestOf
  <2> QED BY <2>1, <2>2
<1>12. CASE NonMissing(f, hist) = n.stats
  <2>1. Numbers(n, f, hist) = U /\ e = up
    BY <1>10, <1>12
  <2> QED BY <1>9, <2>1
<1> QED BY <1>11, <1>12

(* So does a scan of the categories,                                       *)
LEMMA CategoriesBest ==
  ASSUME p \in Settings, NEW n, NEW f \in Features, NEW hist,
         NEW e, e = Scan(n, NoSplit, CategoryCandidates(n, f, hist))
  PROVE  BestOf(n, Categories(n, f, hist), e)
<1>1. PICK c \in Nat, k \in Nat \ {0} : c = CutPtr(f) /\ k = p.bins
  BY BinsOf, SettingIs
<1>2. PICK bins : bins = ToSet(FeatureBins(f)) /\ bins = c .. c + k - 1
  BY <1>1, BinsOf
<1>3. \A i \in 1 .. k : FeatureBins(f)[i] = c + i - 1
  BY <1>1, BinsOf
<1>4. CASE UseOneHot
  <2> DEFINE Alone(b, dl) == One(n, f, hist, b, dl)
             cands == [i \in 1 .. 2 * k |-> Alone(FeatureBins(f)[(i + 1) \div 2], i % 2 = 1)]
  <2>1. e = Scan(n, NoSplit, cands)
    BY <1>1, <1>4 DEF CategoryCandidates, OneHotCandidates, One
  <2> HIDE DEF Alone
  <2>2. ASSUME NEW i \in 1 .. 2 * k
        PROVE  \E b \in bins, dl \in BOOLEAN : cands[i] = Alone(b, dl)
    <3>1. (i + 1) \div 2 \in 1 .. k
      OBVIOUS
    <3>2. c + ((i + 1) \div 2) - 1 \in bins
      BY <1>2, <3>1
    <3>3. PICK dl \in BOOLEAN : dl = (i % 2 = 1)
      OBVIOUS
    <3> QED BY <1>3, <3>1, <3>2, <3>3
  <2>3. ASSUME NEW b \in bins, NEW dl \in BOOLEAN
        PROVE  \E i \in 1 .. 2 * k : cands[i] = Alone(b, dl)
    <3>1. PICK j \in 1 .. k : j = b - c + 1 /\ FeatureBins(f)[j] = b
      <4>1. b - c + 1 \in 1 .. k /\ c + (b - c + 1) - 1 = b
        BY <1>2
      <4> QED BY <1>3, <4>1
    <3>2. PICK i \in 1 .. 2 * k : i = IF dl THEN (2 * j) - 1 ELSE 2 * j
      OBVIOUS
    <3>3. (i + 1) \div 2 = j /\ (i % 2 = 1) = dl
      <4>1. CASE dl
        <5>1. i = (2 * j) - 1 /\ i + 1 = 2 * j
          BY <3>2, <4>1
        <5>2. (2 * j) \div 2 = j /\ ((2 * j) - 1) % 2 = 1
          OBVIOUS
        <5> QED BY <4>1, <5>1, <5>2
      <4>2. CASE ~dl
        <5>1. i = 2 * j
          BY <3>2, <4>2
        <5>2. ((2 * j) + 1) \div 2 = j /\ (2 * j) % 2 = 0
          OBVIOUS
        <5> QED BY <4>2, <5>1, <5>2
      <4> QED BY <4>1, <4>2
    <3> QED BY <3>1, <3>3
  <2>4. DOMAIN cands = 1 .. 2 * k /\ 2 * k \in Nat
    OBVIOUS
  <2> HIDE DEF cands
  <2>5. PICK C : C = {Alone(b, TRUE) : b \in bins} \cup {Alone(b, FALSE) : b \in bins}
    OBVIOUS
  <2>6. PICK m \in Nat : m = 2 * k
    BY <2>4
  <2>7. C = {} \cup {cands[i] : i \in 1 .. m}
    <3>1. \A i \in 1 .. m : cands[i] \in C
      BY <2>2, <2>5, <2>6
    <3>2. \A x \in C : \E i \in 1 .. m : cands[i] = x
      BY <2>3, <2>5, <2>6
    <3> QED BY <3>1, <3>2
  <2>8. BestOf(n, C, e)
    BY <2>1, <2>4, <2>6, <2>7, NoneBest, ScanBestOf
  <2> QED BY <1>2, <1>4, <2>5, <2>8 DEF Categories, Alone
<1>5. CASE ~UseOneHot
  <2> DEFINE Upward(s) == Heads(n, f, hist, s, TRUE)
             Downward(s) == Heads(n, f, hist, k - s, FALSE)
             up == [s \in 1 .. Most |-> Upward(s)]
             down == [s \in 1 .. Most |-> Downward(s)]
             all == {Upward(s) : s \in 1 .. Most} \cup {Downward(s) : s \in 1 .. Most}
  <2>1. CategoryCandidates(n, f, hist) = IF Most < 1 THEN <<>> ELSE up \o down
    BY <1>1, <1>5 DEF CategoryCandidates, PartitionCandidates, Heads, Most
  <2>2. Categories(n, f, hist) = all
    BY <1>1, <1>5 DEF Categories
  <2> HIDE DEF Upward, Downward
  <2>3. Most \in Int
    BY <1>1, SettingIs DEF Most, LesserOf
  <2>4. CASE Most < 1
    <3>1. 1 .. Most = {} /\ 1 .. 0 = {}
      BY <2>3, <2>4
    <3>2. all = {} \cup {<<>>[i] : i \in 1 .. 0}
      BY <3>1
    <3>3. e = Scan(n, NoSplit, <<>>) /\ DOMAIN <<>> = 1 .. 0 /\ 0 \in Nat
      BY <2>1, <2>4
    <3>4. PICK C, none : C = all /\ none = <<>>
      OBVIOUS
    <3>5. BestOf(n, C, e)
      <4>1. C = {} \cup {none[i] : i \in 1 .. 0} /\ e = Scan(n, NoSplit, none)
            /\ DOMAIN none = 1 .. 0
        BY <3>2, <3>3, <3>4
      <4> QED BY <3>3, <4>1, NoneBest, ScanBestOf
    <3> QED BY <2>2, <3>4, <3>5
  <2>5. CASE ~(Most < 1)
    <3>1. PICK m \in Nat \ {0} : m = Most
      BY <2>3, <2>5
    <3>2. PICK u, v : u = up /\ v = down
      OBVIOUS
    <3>3. /\ DOMAIN u = 1 .. m /\ DOMAIN v = 1 .. m
          /\ \A s \in 1 .. m : u[s] = Upward(s) /\ v[s] = Downward(s)
      BY <3>1, <3>2
    <3>4. PICK X : X = {u[s] : s \in 1 .. m} \cup {v[s] : s \in 1 .. m}
      OBVIOUS
    <3>5. u \in Seq(X) /\ v \in Seq(X) /\ Len(u) = m /\ Len(v) = m
      <4>1. u = [s \in 1 .. m |-> u[s]] /\ v = [s \in 1 .. m |-> v[s]]
        BY <3>1, <3>2
      <4>2. \A s \in 1 .. m : u[s] \in X /\ v[s] \in X
        BY <3>4
      <4>3. u \in [1 .. m -> X] /\ v \in [1 .. m -> X]
        BY <4>1, <4>2, Zenon
      <4> QED BY <4>3
    <3>6. PICK w : w = u \o v
      OBVIOUS
    <3>7. /\ w \in Seq(X) /\ Len(w) = m + m
          /\ \A i \in 1 .. m : w[i] = u[i] /\ w[m + i] = v[i]
      <4>1. /\ u \o v \in Seq(X) /\ Len(u \o v) = Len(u) + Len(v)
            /\ \A i \in 1 .. Len(u) : (u \o v)[i] = u[i]
            /\ \A i \in 1 .. Len(v) : (u \o v)[Len(u) + i] = v[i]
        <5>1. \A x, y \in Seq(X) :
                /\ x \o y \in Seq(X) /\ Len(x \o y) = Len(x) + Len(y)
                /\ \A i \in 1 .. Len(x) : (x \o y)[i] = x[i]
                /\ \A i \in 1 .. Len(y) : (x \o y)[Len(x) + i] = y[i]
          BY Concatenated
        <5> QED BY <3>5, <5>1
      <4> QED BY <3>5, <3>6, <4>1
    <3>8. DOMAIN w = 1 .. m + m /\ m + m \in Nat
      BY <3>7
    <3>9. X = {} \cup {w[i] : i \in 1 .. m + m}
      <4>1. \A i \in 1 .. m + m : w[i] \in X
        BY <3>7
      <4>2. ASSUME NEW s \in 1 .. m
            PROVE  u[s] \in {w[i] : i \in 1 .. m + m} /\ v[s] \in {w[i] : i \in 1 .. m + m}
        <5>1. s \in 1 .. m + m /\ m + s \in 1 .. m + m
          OBVIOUS
        <5> QED BY <3>7, <5>1
      <4> QED BY <3>4, <4>1, <4>2
    <3>10. e = Scan(n, NoSplit, w)
      BY <2>1, <2>5, <3>2, <3>6
    <3>11. BestOf(n, X, e)
      BY <3>8, <3>9, <3>10, NoneBest, ScanBestOf
    <3>12. X = all
      BY <3>1, <3>3, <3>4
    <3> QED BY <2>2, <3>11, <3>12
  <2> QED BY <2>4, <2>5
<1> QED BY <1>4, <1>5

(* and one of a vector leaf.                                               *)
LEMMA VectorsBest ==
  ASSUME p \in Settings, NEW n, NEW f \in Features, Query(n, f),
         NEW e, e = EvaluateOneMulti(n, f)
  PROVE  BestOf(n, Vectors(n, f), e)
<1>1. PICK c \in Nat, k \in Nat \ {0} : c = CutPtr(f) /\ k = p.bins
  BY BinsOf, SettingIs
<1>2. PICK bins : bins = ToSet(FeatureBins(f)) /\ bins = c .. c + k - 1
  BY <1>1, BinsOf
<1> DEFINE last == c + k - 1
           Up(b) == UpToAll(n, f, b)
           Down(b) == DownToAll(n, f, b)
           up == [i \in 1 .. k |-> Up(c + i - 1)]
           down == [i \in 1 .. k |-> Down(last + 1 - i)]
           forward == Scan(n, NoSplit, up)
           missing == SumTargets(SumsOver(n, c .. last)) # n.stats
<1>3. e = IF missing THEN Scan(n, forward, down) ELSE forward
  BY <1>1 DEF EvaluateOneMulti, SumsOver, RestOf, UpToAll, DownToAll
<1>4. bins = c .. last
  BY <1>2
<1> HIDE DEF Up, Down
<1>5. {Up(b) : b \in bins} = {} \cup {up[i] : i \in 1 .. k}
  <2>1. ASSUME NEW b \in bins PROVE \E i \in 1 .. k : up[i] = Up(b)
    <3>1. b - c + 1 \in 1 .. k /\ c + (b - c + 1) - 1 = b
      BY <1>2
    <3> QED BY <3>1
  <2>2. ASSUME NEW i \in 1 .. k PROVE \E b \in bins : up[i] = Up(b)
    <3>1. c + i - 1 \in bins
      BY <1>2
    <3> QED BY <3>1
  <2> HIDE DEF up
  <2> QED BY <2>1, <2>2
<1>6. {Down(b) : b \in bins} = {down[i] : i \in 1 .. k}
  <2>1. ASSUME NEW b \in bins PROVE \E i \in 1 .. k : down[i] = Down(b)
    <3>1. PICK i \in 1 .. k : i = k - (b - c)
      BY <1>2
    <3>2. last + 1 - i = b
      BY <1>2, <3>1
    <3> QED BY <3>2
  <2>2. ASSUME NEW i \in 1 .. k PROVE \E b \in bins : down[i] = Down(b)
    <3>1. last + 1 - i \in bins
      BY <1>2
    <3> QED BY <3>1
  <2> HIDE DEF down
  <2> QED BY <2>1, <2>2
<1>7. DOMAIN up = 1 .. k /\ DOMAIN down = 1 .. k /\ k \in Nat
  OBVIOUS
<1> HIDE DEF up, down, last
<1>8. PICK U, D : U = {Up(b) : b \in bins} /\ D = {Down(b) : b \in bins}
  OBVIOUS
<1>9. BestOf(n, U, forward)
  BY <1>5, <1>7, <1>8, NoneBest, ScanBestOf
<1>10. PICK a : a = forward
  OBVIOUS
<1>11. Vectors(n, f) = U \cup {x \in D : missing}
  BY <1>2, <1>4, <1>8 DEF Vectors, Up, Down
<1> HIDE DEF forward
<1>12. CASE missing
  <2>1. e = Scan(n, a, down) /\ Vectors(n, f) = U \cup D
    BY <1>3, <1>10, <1>11, <1>12
  <2>2. BestOf(n, U, a)
    BY <1>9, <1>10
  <2>3. PICK C : C = U \cup D /\ C = U \cup {down[i] : i \in 1 .. k}
    BY <1>6, <1>8
  <2>4. BestOf(n, C, e)
    BY <1>7, <2>1, <2>2, <2>3, ScanBestOf
  <2> QED BY <2>1, <2>3, <2>4
<1>13. CASE ~missing
  <2>1. e = forward /\ Vectors(n, f) = U
    BY <1>3, <1>11, <1>13
  <2> QED BY <1>9, <2>1
<1> QED BY <1>12, <1>13

(* So the split found on a feature is the best of its candidates.          *)
LEMMA EvaluateBest ==
  ASSUME p \in Settings, NEW n, NEW f \in Features, Query(n, f)
  PROVE  BestOf(n, ChoicesOf(n, f), Evaluate(n, f))
<1>1. CASE IsMulti
  BY <1>1, VectorsBest DEF ChoicesOf, Evaluate
<1>2. CASE ~IsMulti
  <2>1. PICK hist, up, down, cat : /\ hist = n.hists[1] /\ up = EnumerateForward(n, f, hist)
                                   /\ down = EnumerateBackward(n, f, hist)
                                   /\ cat = Scan(n, NoSplit, CategoryCandidates(n, f, hist))
    OBVIOUS
  <2>2. PICK e : e = Evaluate(n, f)
    OBVIOUS
  <2>3. e = IF f \in p.cat THEN cat
            ELSE IF NonMissing(f, hist) # n.stats THEN UpdateEntry(up, down) ELSE up
    BY <1>2, <2>1, <2>2 DEF EvaluateOne, Evaluate
  <2>4. CASE f \in p.cat
    <3>1. BestOf(n, Categories(n, f, hist), cat)
      BY <2>1, CategoriesBest
    <3> QED BY <1>2, <2>1, <2>2, <2>3, <2>4, <3>1 DEF ChoicesOf
  <2>5. CASE f \notin p.cat
    <3>1. BestOf(n, Numbers(n, f, hist), e)
      BY <2>1, <2>3, <2>5, NumbersBest
    <3> QED BY <1>2, <2>1, <2>2, <2>5, <3>1 DEF ChoicesOf
  <2> QED BY <2>4, <2>5
<1> QED BY <1>1, <1>2

RowsOk == rows \in [1 .. NumRows -> DOMAIN p.kinds]

(* A row's bin of a feature is one of some.                                *)
Holds(f, B, r) == BinOf(r, f) # 0 /\ CutPtr(f) + BinOf(r, f) - 1 \in B
RowsIn(S, f, B) == {r \in S : Holds(f, B, r)}

(* A row has one of a feature's bins or none.                              *)
LEMMA RowBin ==
  ASSUME p \in Settings, RowsOk, NEW r \in 1 .. NumRows, NEW f \in Features
  PROVE  /\ BinOf(r, f) \in 0 .. p.bins
         /\ BinOf(r, f) # 0 => Holds(f, ToSet(FeatureBins(f)), r)
<1>1. PICK c \in Nat, k \in Nat \ {0} : c = CutPtr(f) /\ k = p.bins
  BY BinsOf, SettingIs
<1>2. PICK i \in DOMAIN p.kinds : i = rows[r]
  BY DEF RowsOk
<1>3. p.kinds[i].bin \in [1 .. p.features -> 0 .. k]
  BY <1>1, <1>2, SettingIs
<1>4. f + 1 \in 1 .. p.features
  BY SettingIs, BinsOf DEF Features
<1>5. PICK b \in 0 .. k : b = BinOf(r, f)
  BY <1>2, <1>3, <1>4 DEF BinOf
<1>6. b # 0 => c + b - 1 \in c .. c + k - 1
  BY <1>5
<1>7. ToSet(FeatureBins(f)) = c .. c + k - 1
  BY <1>1, BinsOf
<1> QED BY <1>1, <1>5, <1>6, <1>7 DEF Holds

(* The bin of a cut, and of the cut before a bin.                          *)
LEMMA CutIs ==
  ASSUME p \in Settings, NEW f \in Features, NEW c \in Nat, c = CutPtr(f),
         NEW k \in Nat \ {0}, k = p.bins, NEW b \in c .. c + k - 1
  PROVE  /\ FindSplitCondition(f, b) = b
         /\ FindSplitCondition(f, BackwardSplitPoint(f, b)) = IF b = c THEN -1 ELSE b - 1
<1>1. ToSet(FeatureBins(f)) = c .. c + k - 1
  BY BinsOf
<1>2. FindSplitCondition(f, b) = b
  BY <1>1 DEF FindSplitCondition
<1>3. CASE b = c
  <2>1. BackwardSplitPoint(f, b) = -(f + 1) /\ f \in Nat
    BY <1>3, BinsOf DEF BackwardSplitPoint, MinValue
  <2>2. BackwardSplitPoint(f, b) \notin c .. c + k - 1
    BY <2>1
  <2> QED BY <1>1, <1>2, <1>3, <2>2 DEF FindSplitCondition
<1>4. CASE b # c
  <2>1. BackwardSplitPoint(f, b) = b - 1 /\ b - 1 \in c .. c + k - 1
    BY <1>4 DEF BackwardSplitPoint
  <2> QED BY <1>1, <1>2, <1>4, <2>1 DEF FindSplitCondition
<1> QED BY <1>3, <1>4

(* A split's test, of a row's bin.                                         *)
LEMMA TestOf ==
  ASSUME p \in Settings, RowsOk, NEW f \in Features, NEW e, e.f = f, NEW r \in 1 .. NumRows
  PROVE  \E v \in Nat, bin \in Int :
           /\ v # 0 => bin \in ToSet(FeatureBins(f))
           /\ GoesLeft(e, r) = IF v = 0 THEN e.default_left
                               ELSE IF e.is_cat THEN bin \notin e.bits
                               ELSE bin <= FindSplitCondition(f, e.value)
           /\ \A B : Holds(f, B, r) <=> v # 0 /\ bin \in B
<1>1. PICK c \in Nat, k \in Nat \ {0} : c = CutPtr(f) /\ k = p.bins
  BY BinsOf, SettingIs
<1>2. PICK v \in 0 .. k : v = BinOf(r, f)
  BY <1>1, RowBin
<1>3. PICK bin \in Int : bin = c + v - 1
  OBVIOUS
<1>4. v # 0 => bin \in c .. c + k - 1
  BY <1>3
<1>5. ToSet(FeatureBins(f)) = c .. c + k - 1
  BY <1>1, BinsOf
<1>6. GoesLeft(e, r) = IF v = 0 THEN e.default_left
                       ELSE IF e.is_cat THEN bin \notin e.bits
                       ELSE bin <= FindSplitCondition(f, e.value)
  BY <1>1, <1>2, <1>3 DEF GoesLeft
<1>7. \A B : Holds(f, B, r) <=> v # 0 /\ bin \in B
  BY <1>1, <1>2, <1>3 DEF Holds
<1>8. v \in Nat /\ (v # 0 => bin \in ToSet(FeatureBins(f)))
  BY <1>4, <1>5
<1> QED BY <1>6, <1>7, <1>8

(* The rows that the test sends left are those of the bins up to the cut,  *)
LEMMA TestUp ==
  ASSUME p \in Settings, RowsOk, NEW f \in Features, NEW c \in Nat, c = CutPtr(f),
         NEW k \in Nat \ {0}, k = p.bins, NEW b \in c .. c + k - 1, NEW e, e.f = f,
         ~e.is_cat, ~e.default_left, e.value = b
  PROVE  \A r \in 1 .. NumRows : GoesLeft(e, r) <=> Holds(f, c .. b, r)
<1> SUFFICES ASSUME NEW r \in 1 .. NumRows PROVE GoesLeft(e, r) <=> Holds(f, c .. b, r)
  OBVIOUS
<1>1. PICK v \in Nat, bin \in Int :
        /\ v # 0 => bin \in ToSet(FeatureBins(f))
        /\ GoesLeft(e, r) = IF v = 0 THEN e.default_left
                            ELSE IF e.is_cat THEN bin \notin e.bits
                            ELSE bin <= FindSplitCondition(f, e.value)
        /\ \A B : Holds(f, B, r) <=> v # 0 /\ bin \in B
  BY TestOf
<1>2. FindSplitCondition(f, e.value) = b
  BY CutIs
<1>3. v # 0 => (bin <= b <=> bin \in c .. b)
  BY <1>1, BinsOf
<1> QED BY <1>1, <1>2, <1>3

(* or all but those of the bins after it,                                  *)
LEMMA TestDown ==
  ASSUME p \in Settings, RowsOk, NEW f \in Features, NEW c \in Nat, c = CutPtr(f),
         NEW k \in Nat \ {0}, k = p.bins, NEW b \in c .. c + k - 1, NEW e, e.f = f,
         ~e.is_cat, e.default_left, e.value = BackwardSplitPoint(f, b)
  PROVE  \A r \in 1 .. NumRows : GoesLeft(e, r) <=> ~Holds(f, b .. c + k - 1, r)
<1> SUFFICES ASSUME NEW r \in 1 .. NumRows
             PROVE  GoesLeft(e, r) <=> ~Holds(f, b .. c + k - 1, r)
  OBVIOUS
<1>1. PICK v \in Nat, bin \in Int :
        /\ v # 0 => bin \in ToSet(FeatureBins(f))
        /\ GoesLeft(e, r) = IF v = 0 THEN e.default_left
                            ELSE IF e.is_cat THEN bin \notin e.bits
                            ELSE bin <= FindSplitCondition(f, e.value)
        /\ \A B : Holds(f, B, r) <=> v # 0 /\ bin \in B
  BY TestOf
<1>2. PICK cond \in Int : /\ cond = FindSplitCondition(f, e.value)
                          /\ (b = c /\ cond = -1) \/ cond = b - 1
  <2>1. (IF b = c THEN -1 ELSE b - 1) \in Int
    OBVIOUS
  <2> QED BY <2>1, CutIs
<1>3. v # 0 => (bin <= cond <=> bin \notin b .. c + k - 1)
  BY <1>1, <1>2, BinsOf
<1> QED BY <1>1, <1>2, <1>3

(* or, of categories, those of none that goes right.                       *)
LEMMA TestCategories ==
  ASSUME p \in Settings, RowsOk, NEW f \in Features, NEW e, e.f = f, e.is_cat,
         NEW r \in 1 .. NumRows
  PROVE  /\ e.default_left => (GoesLeft(e, r) <=> ~Holds(f, e.bits, r))
         /\ ~e.default_left => (GoesLeft(e, r) <=> Holds(f, ToSet(FeatureBins(f)) \ e.bits, r))
<1>1. PICK v \in Nat, bin \in Int :
        /\ v # 0 => bin \in ToSet(FeatureBins(f))
        /\ GoesLeft(e, r) = IF v = 0 THEN e.default_left
                            ELSE IF e.is_cat THEN bin \notin e.bits
                            ELSE bin <= FindSplitCondition(f, e.value)
        /\ \A B : Holds(f, B, r) <=> v # 0 /\ bin \in B
  BY TestOf
<1>2. PICK all : all = ToSet(FeatureBins(f))
  OBVIOUS
<1>3. Holds(f, all \ e.bits, r) <=> v # 0 /\ bin \in all \ e.bits
  BY <1>1
<1> QED BY <1>1, <1>2, <1>3

(* A split's sums are those of some bins and of the rest, and its test     *)
(* sends the rows of these bins to that side: to the left, to the right,   *)
(* or to the right with the rows that have none.                           *)
Parts(n, hist, f, e) ==
  \E B \in SUBSET ToSet(FeatureBins(f)) :
    \/ /\ e.left = Total(hist, B) /\ e.right = Subtract(n.stats, e.left)
       /\ \A r \in 1 .. NumRows : GoesLeft(e, r) <=> Holds(f, B, r)
    \/ /\ e.right = Total(hist, B) /\ e.left = Subtract(n.stats, e.right)
       /\ \A r \in 1 .. NumRows : GoesLeft(e, r) <=> ~Holds(f, B, r)
    \/ /\ e.right = Add(Total(hist, B), Subtract(n.stats, NonMissing(f, hist)))
       /\ e.left = Subtract(n.stats, e.right)
       /\ \A r \in 1 .. NumRows :
            GoesLeft(e, r) <=> Holds(f, ToSet(FeatureBins(f)) \ B, r)

(* The total of one bin is the bin's.                                      *)
LEMMA TotalOfOne ==
  ASSUME NEW hist \in Hists, NEW b \in Bins
  PROVE  Total(hist, {b}) = hist[b]
<1>1. Summable(hist, {b})
  BY FS_Singleton DEF Summable, Hists
<1>2. Total(hist, {b}) = Add(hist[b], Total(hist, {b} \ {b})) /\ Total(hist, {}) = NoStats
  BY <1>1, TotalOut
<1>3. Total(hist, {b} \ {b}) = NoStats
  <2>1. {b} \ {b} = {}
    OBVIOUS
  <2> QED BY <1>2, <2>1
<1>4. PICK s \in StatSet : s = hist[b]
  BY DEF Hists
<1>5. Add(s, NoStats) = s
  BY DEF Add, NoStats, Stats, StatSet
<1> QED BY <1>2, <1>3, <1>4, <1>5

(* What every candidate of a feature is, whether it is allowed or not.     *)
OfferedOne(n, hist, f, e) ==
  /\ e.f = f /\ e.default_left \in BOOLEAN /\ e.value \in Int /\ (e.is_cat <=> f \in p.cat)
  /\ e.left \in StatSet /\ e.right \in StatSet
  /\ e.chg = Minus(SplitGain(n, e.left, e.right), n.root_gain)
  /\ Parts(n, hist, f, e)

(* Up to a bin the rows of the bins go left,                               *)
LEMMA UpToIs ==
  ASSUME p \in Settings, RowsOk, NEW n, n.stats \in StatSet, NEW f \in Features, f \notin p.cat,
         NEW hist \in Hists, NEW b \in ToSet(FeatureBins(f)), NEW e, e = UpTo(n, f, hist, b)
  PROVE  /\ OfferedOne(n, hist, f, e)
         /\ ~e.is_cat /\ ~e.default_left /\ e.value = b
<1>1. PICK c \in Nat, k \in Nat \ {0} : c = CutPtr(f) /\ k = p.bins
  BY BinsOf, SettingIs
<1>2. /\ b \in c .. c + k - 1 /\ c .. b \in SUBSET Bins
      /\ c .. b \in SUBSET ToSet(FeatureBins(f))
  BY <1>1, BinsOf
<1>3. PICK left \in StatSet : left = Total(hist, c .. b)
  BY <1>2, SumsOfBins
<1>4. PICK right \in StatSet : right = Subtract(n.stats, left)
  BY StatsArithmetic
<1>5. e = Candidate(n, f, b, FALSE, left, right, {})
  BY <1>1, <1>3, <1>4 DEF UpTo
<1>6. /\ e.f = f /\ e.value = b /\ e.default_left = FALSE /\ e.left = left
      /\ e.right = right /\ e.is_cat = (f \in p.cat)
      /\ e.chg = Minus(SplitGain(n, left, right), n.root_gain)
  BY <1>5 DEF Candidate
<1>7. e.f = f /\ ~e.is_cat /\ ~e.default_left /\ e.value = b
  BY <1>6
<1>8. \A r \in 1 .. NumRows : GoesLeft(e, r) <=> Holds(f, c .. b, r)
  BY <1>1, <1>2, <1>7, TestUp
<1>9. Parts(n, hist, f, e)
  BY <1>2, <1>3, <1>4, <1>6, <1>8 DEF Parts
<1>10. b \in Int
  BY <1>2
<1> QED BY <1>6, <1>7, <1>9, <1>10 DEF OfferedOne

(* and from a bin on, right;                                               *)
LEMMA DownToIs ==
  ASSUME p \in Settings, RowsOk, NEW n, n.stats \in StatSet, NEW f \in Features, f \notin p.cat,
         NEW hist \in Hists, NEW b \in ToSet(FeatureBins(f)), NEW e, e = DownTo(n, f, hist, b)
  PROVE  /\ OfferedOne(n, hist, f, e)
         /\ ~e.is_cat /\ e.default_left /\ e.value = BackwardSplitPoint(f, b)
<1>1. PICK c \in Nat, k \in Nat \ {0} : c = CutPtr(f) /\ k = p.bins
  BY BinsOf, SettingIs
<1>2. /\ b \in c .. c + k - 1 /\ b .. c + k - 1 \in SUBSET Bins
      /\ b .. c + k - 1 \in SUBSET ToSet(FeatureBins(f))
  BY <1>1, BinsOf
<1>3. PICK right \in StatSet : right = Total(hist, b .. c + k - 1)
  BY <1>2, SumsOfBins
<1>4. PICK left \in StatSet : left = Subtract(n.stats, right)
  BY StatsArithmetic
<1>5. PICK value \in Int : value = BackwardSplitPoint(f, b)
  <2>1. b \in Int /\ f \in Int
    BY <1>2, BinsOf
  <2> QED BY <2>1 DEF BackwardSplitPoint, MinValue
<1>6. e = Candidate(n, f, value, TRUE, left, right, {})
  BY <1>1, <1>3, <1>4, <1>5 DEF DownTo
<1>7. /\ e.f = f /\ e.value = value /\ e.default_left = TRUE /\ e.left = left
      /\ e.right = right /\ e.is_cat = (f \in p.cat)
      /\ e.chg = Minus(SplitGain(n, left, right), n.root_gain)
  BY <1>6 DEF Candidate
<1>8. e.f = f /\ ~e.is_cat /\ e.default_left /\ e.value = BackwardSplitPoint(f, b)
  BY <1>5, <1>7
<1>9. \A r \in 1 .. NumRows : GoesLeft(e, r) <=> ~Holds(f, b .. c + k - 1, r)
  BY <1>1, <1>2, <1>8, TestDown
<1>10. Parts(n, hist, f, e)
  BY <1>2, <1>3, <1>4, <1>7, <1>9 DEF Parts
<1> QED BY <1>7, <1>8, <1>10 DEF OfferedOne

(* one category goes right, with the missing rows or without,              *)
LEMMA OneIs ==
  ASSUME p \in Settings, RowsOk, NEW n, n.stats \in StatSet, NEW f \in Features, f \in p.cat,
         NEW hist \in Hists, NEW b \in ToSet(FeatureBins(f)), NEW dl \in BOOLEAN,
         NEW e, e = One(n, f, hist, b, dl)
  PROVE  /\ OfferedOne(n, hist, f, e)
         /\ e.is_cat /\ e.default_left = dl /\ e.bits = {b}
<1>1. /\ ToSet(FeatureBins(f)) \in SUBSET Bins /\ b \in Bins /\ b \in Int
      /\ {b} \in SUBSET ToSet(FeatureBins(f))
  <2>1. ToSet(FeatureBins(f)) \in SUBSET Bins /\ b \in Bins
    BY BinsOf
  <2> QED BY <2>1 DEF Bins
<1>2. PICK missing \in StatSet : missing = Subtract(n.stats, NonMissing(f, hist))
  <2>1. NonMissing(f, hist) \in StatSet
    BY <1>1, SumsOfBins DEF NonMissing
  <2> QED BY <2>1, StatsArithmetic
<1>3. PICK cell \in StatSet : cell = hist[b] /\ cell = Total(hist, {b})
  BY <1>1, TotalOfOne DEF Hists
<1>4. PICK right \in StatSet : right = IF dl THEN cell ELSE Add(cell, missing)
  BY StatsArithmetic
<1>5. PICK left \in StatSet : left = Subtract(n.stats, right)
  BY StatsArithmetic
<1>6. e = Candidate(n, f, b, dl, left, right, {b})
  BY <1>2, <1>3, <1>4, <1>5 DEF One
<1>7. /\ e.f = f /\ e.value = b /\ e.default_left = dl /\ e.left = left /\ e.right = right
      /\ e.bits = {b} /\ e.is_cat = (f \in p.cat)
      /\ e.chg = Minus(SplitGain(n, left, right), n.root_gain)
  BY <1>6 DEF Candidate
<1>8. e.is_cat
  BY <1>7
<1>9. Parts(n, hist, f, e)
  <2>1. CASE dl
    <3>1. \A r \in 1 .. NumRows : GoesLeft(e, r) <=> ~Holds(f, {b}, r)
      <4>1. e.f = f /\ e.is_cat /\ e.default_left /\ e.bits = {b}
        BY <1>7, <1>8, <2>1
      <4>2. \A r \in 1 .. NumRows : GoesLeft(e, r) <=> ~Holds(f, e.bits, r)
        BY <4>1, TestCategories
      <4> QED BY <4>1, <4>2
    <3>2. e.right = Total(hist, {b}) /\ e.left = Subtract(n.stats, e.right)
      BY <1>3, <1>4, <1>5, <1>7, <2>1
    <3> QED BY <1>1, <3>1, <3>2 DEF Parts
  <2>2. CASE ~dl
    <3>1. \A r \in 1 .. NumRows : GoesLeft(e, r) <=> Holds(f, ToSet(FeatureBins(f)) \ {b}, r)
      <4>1. e.f = f /\ e.is_cat /\ ~e.default_left /\ e.bits = {b}
        BY <1>7, <1>8, <2>2
      <4>2. \A r \in 1 .. NumRows :
              GoesLeft(e, r) <=> Holds(f, ToSet(FeatureBins(f)) \ e.bits, r)
        BY <4>1, TestCategories
      <4> QED BY <4>1, <4>2
    <3>2. /\ e.right = Add(Total(hist, {b}), Subtract(n.stats, NonMissing(f, hist)))
          /\ e.left = Subtract(n.stats, e.right)
      BY <1>2, <1>3, <1>4, <1>5, <1>7, <2>2
    <3> QED BY <1>1, <3>1, <3>2 DEF Parts
  <2> QED BY <2>1, <2>2
<1> QED BY <1>1, <1>7, <1>8, <1>9 DEF OfferedOne

(* or the first few of them.                                               *)
LEMMA HeadsIs ==
  ASSUME p \in Settings, RowsOk, NEW n, n.stats \in StatSet, NEW f \in Features, f \in p.cat,
         NEW hist \in Hists, NEW m, NEW dl \in BOOLEAN, NEW e, e = Heads(n, f, hist, m, dl)
  PROVE  /\ OfferedOne(n, hist, f, e)
         /\ e.is_cat /\ e.default_left = dl /\ e.bits = SortedCategories(f, hist, m)
<1>1. PICK all, head : all = ToSet(FeatureBins(f)) /\ head = SortedCategories(f, hist, m)
  OBVIOUS
<1>2. all \in SUBSET Bins /\ head \in SUBSET all /\ all \ head \in SUBSET all
  BY <1>1, BinsOf DEF SortedCategories
<1>3. PICK B : B = (IF dl THEN head ELSE all \ head) /\ B \in SUBSET all
  BY <1>2
<1>4. PICK some \in StatSet : some = Total(hist, B)
  <2>1. B \in SUBSET Bins
    BY <1>2, <1>3
  <2> QED BY <2>1, SumsOfBins
<1>5. PICK rest \in StatSet : rest = Subtract(n.stats, some)
  BY StatsArithmetic
<1>6. PICK left \in StatSet, right \in StatSet :
        left = (IF dl THEN rest ELSE some) /\ right = (IF dl THEN some ELSE rest)
  OBVIOUS
<1>7. e = Candidate(n, f, 0, dl, left, right, head)
  BY <1>1, <1>3, <1>4, <1>5, <1>6 DEF Heads
<1>8. /\ e.f = f /\ e.value = 0 /\ e.default_left = dl /\ e.left = left /\ e.right = right
      /\ e.bits = head /\ e.is_cat = (f \in p.cat)
      /\ e.chg = Minus(SplitGain(n, left, right), n.root_gain)
  BY <1>7 DEF Candidate
<1>9. e.is_cat
  BY <1>8
<1>10. Parts(n, hist, f, e)
  <2>1. CASE dl
    <3>1. \A r \in 1 .. NumRows : GoesLeft(e, r) <=> ~Holds(f, B, r)
      <4>1. e.f = f /\ e.is_cat /\ e.default_left /\ e.bits = B
        BY <1>3, <1>8, <1>9, <2>1
      <4> QED BY <4>1, TestCategories
    <3>2. e.right = Total(hist, B) /\ e.left = Subtract(n.stats, e.right)
      BY <1>4, <1>5, <1>6, <1>8, <2>1
    <3> QED BY <1>1, <1>3, <3>1, <3>2 DEF Parts
  <2>2. CASE ~dl
    <3>1. \A r \in 1 .. NumRows : GoesLeft(e, r) <=> Holds(f, B, r)
      <4>1. e.f = f /\ e.is_cat /\ ~e.default_left /\ all \ e.bits = B
        BY <1>3, <1>8, <1>9, <2>2
      <4> QED BY <1>1, <4>1, TestCategories
    <3>2. e.left = Total(hist, B) /\ e.right = Subtract(n.stats, e.left)
      BY <1>4, <1>5, <1>6, <1>8, <2>2
    <3> QED BY <1>1, <1>3, <3>1, <3>2 DEF Parts
  <2> QED BY <2>1, <2>2
<1>11. 0 \in Int
  OBVIOUS
<1> QED BY <1>1, <1>8, <1>9, <1>10, <1>11 DEF OfferedOne

(* So all candidates of a scalar leaf are parts of its sums.               *)
LEMMA OnesOffered ==
  ASSUME p \in Settings, RowsOk, NEW n, n.stats \in StatSet, NEW hist, hist = n.hists[1],
         hist \in Hists, NEW f \in Features, ~IsMulti, NEW c \in ChoicesOf(n, f)
  PROVE  OfferedOne(n, hist, f, c)
<1>1. CASE f \notin p.cat
  <2>1. PICK b \in ToSet(FeatureBins(f)) : c = UpTo(n, f, hist, b) \/ c = DownTo(n, f, hist, b)
    BY <1>1 DEF ChoicesOf, Numbers
  <2> QED BY <1>1, <2>1, UpToIs, DownToIs
<1>2. CASE f \in p.cat
  <2>1. c \in Categories(n, f, hist)
    BY <1>2 DEF ChoicesOf
  <2>2. CASE UseOneHot
    <3>1. PICK b \in ToSet(FeatureBins(f)) :
            c = One(n, f, hist, b, TRUE) \/ c = One(n, f, hist, b, FALSE)
      BY <2>1, <2>2 DEF Categories
    <3>2. PICK dl \in BOOLEAN : c = One(n, f, hist, b, dl)
      BY <3>1
    <3> QED BY <1>2, <3>2, OneIs
  <2>3. CASE ~UseOneHot
    <3>1. \E m : c = Heads(n, f, hist, m, TRUE) \/ c = Heads(n, f, hist, m, FALSE)
      BY <2>1, <2>3 DEF Categories
    <3>2. PICK m : c = Heads(n, f, hist, m, TRUE) \/ c = Heads(n, f, hist, m, FALSE)
      BY <3>1
    <3>3. PICK dl \in BOOLEAN : c = Heads(n, f, hist, m, dl)
      BY <3>2
    <3> QED BY <1>2, <3>3, HeadsIs
  <2> QED BY <2>2, <2>3
<1> QED BY <1>1, <1>2

(* A split of a vector leaf parts the sums of every target.                *)
PartsAll(n, f, e) ==
  \E B \in SUBSET ToSet(FeatureBins(f)) : \E some, rest :
    /\ some = SumsOver(n, B) /\ rest = RestOf(n, some)
    /\ \/ /\ e.left = SumTargets(some) /\ e.right = SumTargets(rest)
          /\ MultiChildSums(n, e) = [left |-> some, right |-> rest]
          /\ \A r \in 1 .. NumRows : GoesLeft(e, r) <=> Holds(f, B, r)
       \/ /\ e.right = SumTargets(some) /\ e.left = SumTargets(rest)
          /\ MultiChildSums(n, e) = [left |-> rest, right |-> some]
          /\ \A r \in 1 .. NumRows : GoesLeft(e, r) <=> ~Holds(f, B, r)

(* What multi_child_sums returns, of named cut, bins and sums.              *)
PartedAt(n, e, cond, bins, some, rest) ==
  /\ cond = FindSplitCondition(e.f, e.value)
  /\ bins = ToSet(FeatureBins(e.f))
  /\ some = [t \in Targets |->
               Total(n.hists[t], {b \in bins : IF e.default_left THEN b > cond
                                              ELSE cond = -1 \/ b <= cond})]
  /\ rest = [t \in Targets |-> Subtract(n.sums[t], some[t])]
LEMMA ChildSumsIs ==
  ASSUME NEW n, NEW e, NEW cond, NEW bins, NEW some, NEW rest,
         PartedAt(n, e, cond, bins, some, rest)
  PROVE  /\ e.default_left => MultiChildSums(n, e) = [left |-> rest, right |-> some]
         /\ ~e.default_left => MultiChildSums(n, e) = [left |-> some, right |-> rest]
  BY DEF MultiChildSums, PartedAt

(* What a candidate of a vector leaf parts.                                *)
UpwardAt(n, f, b, low, some, rest, g, e) ==
  /\ some = SumsOver(n, low .. b) /\ rest = RestOf(n, some)
  /\ e = MultiCandidate(n, f, b, FALSE, some, rest, g)
DownwardAt(n, f, b, high, some, rest, g, e) ==
  /\ some = SumsOver(n, b .. high) /\ rest = RestOf(n, some)
  /\ e = MultiCandidate(n, f, BackwardSplitPoint(f, b), TRUE, rest, some, g)
LEMMA UpwardParts ==
  ASSUME p \in Settings, RowsOk, NEW n, NEW f \in Features, NEW c \in Nat, c = CutPtr(f),
         NEW k \in Nat \ {0}, k = p.bins, NEW b \in c .. c + k - 1, NEW some, NEW rest, NEW g,
         NEW e, UpwardAt(n, f, b, c, some, rest, g, e)
  PROVE  PartsAll(n, f, e) /\ MultiChildSums(n, e) = [left |-> some, right |-> rest]
<1>1. /\ e.f = f /\ ~e.is_cat /\ ~e.default_left /\ e.value = b
      /\ e.left = SumTargets(some) /\ e.right = SumTargets(rest)
  BY DEF MultiCandidate, UpwardAt
<1>2. \A r \in 1 .. NumRows : GoesLeft(e, r) <=> Holds(f, c .. b, r)
  <2>1. e.f = f /\ ~e.is_cat /\ ~e.default_left /\ e.value = b
    BY <1>1
  <2>2. \A x : x.f = f /\ ~x.is_cat /\ ~x.default_left /\ x.value = b =>
               \A r \in 1 .. NumRows : GoesLeft(x, r) <=> Holds(f, c .. b, r)
    BY TestUp
  <2> QED BY <2>1, <2>2
<1>3. FindSplitCondition(f, b) = b
  BY CutIs
<1>4. PICK bins : bins = ToSet(FeatureBins(f)) /\ bins = c .. c + k - 1
  BY BinsOf
<1>5. c .. b \in SUBSET bins /\ {x \in bins : b = -1 \/ x <= b} = c .. b
  BY <1>4
<1>6. /\ some = [t \in Targets |-> Total(n.hists[t], c .. b)]
      /\ rest = [t \in Targets |-> Subtract(n.sums[t], some[t])]
  BY DEF SumsOver, RestOf, UpwardAt
<1>7. \A x : x.f = f /\ x.value = b /\ ~x.default_left =>
             MultiChildSums(n, x) = [left |-> some, right |-> rest]
  <2> SUFFICES ASSUME NEW x, x.f = f, x.value = b, ~x.default_left
               PROVE  MultiChildSums(n, x) = [left |-> some, right |-> rest]
    OBVIOUS
  <2>1. {y \in bins : IF x.default_left THEN y > b ELSE b = -1 \/ y <= b} = c .. b
    BY <1>5
  <2>2. PartedAt(n, x, b, bins, some, rest)
    BY <1>3, <1>4, <1>6, <2>1 DEF PartedAt
  <2> QED BY <2>2, ChildSumsIs
<1>8. MultiChildSums(n, e) = [left |-> some, right |-> rest]
  BY <1>1, <1>7
<1>9. some = SumsOver(n, c .. b) /\ rest = RestOf(n, some)
  BY DEF UpwardAt
<1> QED BY <1>1, <1>2, <1>4, <1>5, <1>8, <1>9 DEF PartsAll

LEMMA DownwardParts ==
  ASSUME p \in Settings, RowsOk, NEW n, NEW f \in Features, NEW c \in Nat, c = CutPtr(f),
         NEW k \in Nat \ {0}, k = p.bins, NEW b \in c .. c + k - 1, NEW some, NEW rest, NEW g,
         NEW high, high = c + k - 1, NEW e, DownwardAt(n, f, b, high, some, rest, g, e)
  PROVE  PartsAll(n, f, e) /\ MultiChildSums(n, e) = [left |-> rest, right |-> some]
<1>1. /\ e.f = f /\ ~e.is_cat /\ e.default_left /\ e.value = BackwardSplitPoint(f, b)
      /\ e.right = SumTargets(some) /\ e.left = SumTargets(rest)
  BY DEF MultiCandidate, DownwardAt
<1>2. \A r \in 1 .. NumRows : GoesLeft(e, r) <=> ~Holds(f, b .. c + k - 1, r)
  <2>1. e.f = f /\ ~e.is_cat /\ e.default_left /\ e.value = BackwardSplitPoint(f, b)
    BY <1>1
  <2>2. \A x : x.f = f /\ ~x.is_cat /\ x.default_left /\ x.value = BackwardSplitPoint(f, b) =>
               \A r \in 1 .. NumRows : GoesLeft(x, r) <=> ~Holds(f, b .. c + k - 1, r)
    BY TestDown
  <2> QED BY <2>1, <2>2
<1>3. PICK cond \in Int : /\ cond = FindSplitCondition(f, BackwardSplitPoint(f, b))
                          /\ (b = c /\ cond = -1) \/ cond = b - 1
  <2>1. (IF b = c THEN -1 ELSE b - 1) \in Int
    OBVIOUS
  <2> QED BY <2>1, CutIs
<1>4. PICK bins : bins = ToSet(FeatureBins(f)) /\ bins = c .. c + k - 1
  BY BinsOf
<1>5. b .. c + k - 1 \in SUBSET bins /\ {x \in bins : x > cond} = b .. c + k - 1
  BY <1>3, <1>4
<1>6. /\ some = [t \in Targets |-> Total(n.hists[t], b .. c + k - 1)]
      /\ rest = [t \in Targets |-> Subtract(n.sums[t], some[t])]
  BY DEF SumsOver, RestOf, DownwardAt
<1>7. \A x : x.f = f /\ x.value = BackwardSplitPoint(f, b) /\ x.default_left =>
              MultiChildSums(n, x) = [left |-> rest, right |-> some]
  <2> SUFFICES ASSUME NEW x, x.f = f, x.value = BackwardSplitPoint(f, b), x.default_left
               PROVE  MultiChildSums(n, x) = [left |-> rest, right |-> some]
    OBVIOUS
  <2>1. {y \in bins : IF x.default_left THEN y > cond ELSE cond = -1 \/ y <= cond}
          = b .. c + k - 1
    BY <1>5
  <2>2. PartedAt(n, x, cond, bins, some, rest)
    BY <1>3, <1>4, <1>6, <2>1 DEF PartedAt
  <2> QED BY <2>2, ChildSumsIs
<1>8. MultiChildSums(n, e) = [left |-> rest, right |-> some]
  BY <1>1, <1>7
<1>9. PICK B \in SUBSET bins : B = b .. c + k - 1
  BY <1>5
<1>10. /\ some = SumsOver(n, B) /\ rest = RestOf(n, some)
       /\ e.right = SumTargets(some) /\ e.left = SumTargets(rest)
       /\ \A r \in 1 .. NumRows : GoesLeft(e, r) <=> ~Holds(f, B, r)
  BY <1>1, <1>2, <1>9 DEF DownwardAt
<1> QED BY <1>4, <1>8, <1>10 DEF PartsAll

(* What every candidate of a vector leaf is.                               *)
OfferedAll(n, f, e) ==
  /\ e.f = f /\ e.default_left \in BOOLEAN /\ ~e.is_cat
  /\ e.chg = Minus(Plus(MultiGain(n, MultiChildSums(n, e).left),
                        MultiGain(n, MultiChildSums(n, e).right)), MultiGain(n, n.sums))
  /\ PartsAll(n, f, e)
LEMMA AllOffered ==
  ASSUME p \in Settings, RowsOk, NEW n, NEW f \in Features, NEW b \in ToSet(FeatureBins(f)),
         NEW x, x = UpToAll(n, f, b), NEW y, y = DownToAll(n, f, b)
  PROVE  /\ OfferedAll(n, f, x) /\ ~x.default_left /\ x.value = b
         /\ OfferedAll(n, f, y) /\ y.default_left /\ y.value = BackwardSplitPoint(f, b)
<1>1. PICK c \in Nat, k \in Nat \ {0} : c = CutPtr(f) /\ k = p.bins
  BY BinsOf, SettingIs
<1>2. b \in c .. c + k - 1
  BY <1>1, BinsOf
<1>3. PICK g, l, m : g = MultiGain(n, n.sums) /\ l = SumsOver(n, c .. b) /\ m = RestOf(n, l)
  OBVIOUS
<1>4. PICK r, o : r = SumsOver(n, b .. c + k - 1) /\ o = RestOf(n, r)
  OBVIOUS
<1>5. /\ x = MultiCandidate(n, f, b, FALSE, l, m, g)
      /\ y = MultiCandidate(n, f, BackwardSplitPoint(f, b), TRUE, o, r, g)
  BY <1>1, <1>3, <1>4 DEF UpToAll, DownToAll
<1>6. /\ x.f = f /\ x.value = b /\ x.default_left = FALSE /\ x.is_cat = FALSE
      /\ x.chg = Minus(Plus(MultiGain(n, l), MultiGain(n, m)), g)
  BY <1>5 DEF MultiCandidate
<1>7. /\ y.f = f /\ y.value = BackwardSplitPoint(f, b) /\ y.default_left = TRUE
      /\ y.is_cat = FALSE /\ y.chg = Minus(Plus(MultiGain(n, o), MultiGain(n, r)), g)
  BY <1>5 DEF MultiCandidate
<1>8. PartsAll(n, f, x) /\ MultiChildSums(n, x) = [left |-> l, right |-> m]
  <2>1. UpwardAt(n, f, b, c, l, m, g, x)
    BY <1>3, <1>5 DEF UpwardAt
  <2> QED BY <1>1, <1>2, <2>1, UpwardParts
<1>9. PartsAll(n, f, y) /\ MultiChildSums(n, y) = [left |-> o, right |-> r]
  <2>1. PICK high : high = c + k - 1
    OBVIOUS
  <2>2. DownwardAt(n, f, b, high, r, o, g, y)
    BY <1>4, <1>5, <2>1 DEF DownwardAt
  <2> QED BY <1>1, <1>2, <2>1, <2>2, DownwardParts
<1>10. OfferedAll(n, f, x)
  <2>1. PICK sums : sums = MultiChildSums(n, x) /\ sums.left = l /\ sums.right = m
    BY <1>8
  <2> QED BY <1>3, <1>6, <1>8, <2>1 DEF OfferedAll
<1>11. OfferedAll(n, f, y)
  <2>1. PICK sums : sums = MultiChildSums(n, y) /\ sums.left = o /\ sums.right = r
    BY <1>9
  <2> QED BY <1>3, <1>7, <1>9, <2>1 DEF OfferedAll
<1> QED BY <1>6, <1>7, <1>10, <1>11

(* So a candidate of any leaf is an offer.                                 *)
Offered(n, f, e) == IF IsMulti THEN OfferedAll(n, f, e) ELSE OfferedOne(n, n.hists[1], f, e)
LEMMA ChoicesOffered ==
  ASSUME p \in Settings, RowsOk, NEW n, ~IsMulti => n.hists[1] \in Hists /\ n.stats \in StatSet,
         NEW f \in Features, NEW c \in ChoicesOf(n, f)
  PROVE  Offered(n, f, c)
<1>1. CASE IsMulti
  <2>1. PICK b \in ToSet(FeatureBins(f)) : c = UpToAll(n, f, b) \/ c = DownToAll(n, f, b)
    BY <1>1 DEF ChoicesOf, Vectors
  <2>2. PICK x, y : x = UpToAll(n, f, b) /\ y = DownToAll(n, f, b)
    OBVIOUS
  <2>3. OfferedAll(n, f, x) /\ OfferedAll(n, f, y)
    BY <2>2, AllOffered
  <2> QED BY <1>1, <2>1, <2>2, <2>3 DEF Offered
<1>2. CASE ~IsMulti
  BY <1>2, OnesOffered DEF Offered
<1> QED BY <1>1, <1>2

(* A split as it was found: where its sums are from, and which rows its    *)
(* test sends to either side.                                              *)
Told(n, e) ==
  \E f \in Features :
    /\ IsSplit(n, f, e)
    /\ IF IsMulti THEN PartsAll(n, f, e) ELSE Parts(n, n.hists[1], f, e)

(* An offer that is allowed is a split.                                    *)
LEMMA OfferIsSplit ==
  ASSUME NEW n, NEW f, Query(n, f), NEW e, Offered(n, f, e), IsFinite(n, e)
  PROVE  IsSplit(n, f, e)
BY DEF Offered, OfferedOne, OfferedAll, IsFinite, IsSplit

(* The split found for a node.                                             *)
LEMMA FoundIs ==
  ASSUME p \in Settings, RowsOk, NEW n, ~IsMulti => n.hists[1] \in Hists /\ n.stats \in StatSet
  PROVE  EvaluateSplits(n) = NoSplit \/ Told(n, EvaluateSplits(n))
<1>1. ASSUME NEW f \in Features PROVE Evaluate(n, f) = NoSplit \/ Told(n, Evaluate(n, f))
  <2>1. PICK e : e = Evaluate(n, f)
    OBVIOUS
  <2>2. CASE ~Query(n, f)
    BY <2>2 DEF Evaluate, EvaluateOne, EvaluateOneMulti
  <2>3. CASE Query(n, f)
    <3>1. e = NoSplit \/ (e \in ChoicesOf(n, f) /\ IsFinite(n, e))
      BY <2>1, <2>3, EvaluateBest DEF BestOf
    <3>2. ASSUME e \in ChoicesOf(n, f), IsFinite(n, e) PROVE Told(n, e)
      <4>1. Offered(n, f, e)
        BY <3>2, ChoicesOffered
      <4>2. IF IsMulti THEN PartsAll(n, f, e) ELSE Parts(n, n.hists[1], f, e)
        BY <4>1 DEF Offered, OfferedOne, OfferedAll
      <4> QED BY <2>3, <3>2, <4>1, <4>2, OfferIsSplit DEF Told
    <3> QED BY <2>1, <3>1, <3>2
  <2> QED BY <2>2, <2>3
<1> QED BY <1>1, EvaluateSplitsIs

-----------------------------------------------------------------------------
(* Sums of rows.                                                           *)

(* The gradients of one target.                                            *)
GradientsOf(t) == [r \in 1 .. NumRows |-> GradientOf(r, t)]
LEMMA GradientsAre ==
  ASSUME p \in Settings, RowsOk, NEW t \in Targets, NEW S \in SUBSET (1 .. NumRows)
  PROVE  Summable(GradientsOf(t), S) /\ SumOf(S, t) = Total(GradientsOf(t), S)
<1>1. PICK f, g : f = [r \in S |-> GradientOf(r, t)] /\ g = GradientsOf(t)
  OBVIOUS
<1>2. ASSUME NEW r \in 1 .. NumRows PROVE GradientOf(r, t) \in StatSet
  <2>1. PICK i \in DOMAIN p.kinds : i = rows[r]
    BY DEF RowsOk
  <2>2. p.kinds[i].gpair \in [1 .. p.targets -> Int \X Nat] /\ t \in 1 .. p.targets
    BY SettingIs DEF Targets
  <2>3. PICK x \in Int \X Nat : x = p.kinds[i].gpair[t]
    BY <2>2
  <2>4. x[1] \in Int /\ x[2] \in Int
    OBVIOUS
  <2> QED BY <2>1, <2>3, <2>4 DEF GradientOf, Stats, StatSet
<1>3. IsFiniteSet(S)
  <2>1. IsFiniteSet(1 .. NumRows)
    <3>1. NumRows \in Nat \ {0}
      BY SettingAssumption, Zenon
    <3> QED BY <3>1, FS_Interval
  <2> QED BY <2>1, FS_Subset
<1>4. Summable(f, S) /\ Summable(g, S) /\ \A r \in S : f[r] = g[r]
  BY <1>1, <1>2, <1>3 DEF Summable, GradientsOf
<1>5. Total(f, S) = Total(g, S)
  BY <1>4, TotalSame
<1> QED BY <1>1, <1>4, <1>5 DEF SumOf

(* The gradients of some rows add up to a sum, and so do their bins.       *)
LEMMA RowSums ==
  ASSUME p \in Settings, RowsOk, NEW t \in Targets, NEW S \in SUBSET (1 .. NumRows)
  PROVE  SumOf(S, t) \in StatSet /\ Hist(S, t) \in Hists
<1>1. ASSUME NEW T \in SUBSET S PROVE SumOf(T, t) \in StatSet
  BY GradientsAre, TotalOut
<1>2. ASSUME NEW b \in Bins
      PROVE  SumOf({r \in S : BinOf(r, b \div p.bins) = (b % p.bins) + 1}, t) \in StatSet
  BY <1>1
<1>3. Hist(S, t) \in Hists
  BY <1>2 DEF Hist, Hists, Bins
<1> QED BY <1>1, <1>3

(* The rows of two parts add up to the rows of both,                       *)
LEMMA RowsJoin ==
  ASSUME p \in Settings, RowsOk, NEW t \in Targets, NEW A \in SUBSET (1 .. NumRows),
         NEW B \in SUBSET (1 .. NumRows), A \cap B = {}
  PROVE  SumOf(A \cup B, t) = Add(SumOf(A, t), SumOf(B, t))
<1>1. PICK g : g = GradientsOf(t)
  OBVIOUS
<1>2. \A S \in SUBSET (1 .. NumRows) : Summable(g, S) /\ SumOf(S, t) = Total(g, S)
  BY <1>1, GradientsAre
<1>3. A \cup B \in SUBSET (1 .. NumRows)
  OBVIOUS
<1>4. Total(g, A \cup B) = Add(Total(g, A), Total(g, B))
  BY <1>2, <1>3, TotalJoin
<1> QED BY <1>2, <1>3, <1>4

(* and what is left of a sum is the sum of the other rows.                 *)
LEMMA RowsRest ==
  ASSUME p \in Settings, RowsOk, NEW t \in Targets, NEW S \in SUBSET (1 .. NumRows),
         NEW A \in SUBSET S
  PROVE  Subtract(SumOf(S, t), SumOf(A, t)) = SumOf(S \ A, t)
<1>1. PICK B : B = S \ A
  OBVIOUS
<1>2. /\ A \in SUBSET (1 .. NumRows) /\ B \in SUBSET (1 .. NumRows)
      /\ A \cap B = {} /\ A \cup B = S
  BY <1>1
<1>3. SumOf(S, t) = Add(SumOf(A, t), SumOf(B, t))
  BY <1>2, RowsJoin
<1>4. PICK a \in StatSet, b \in StatSet : a = SumOf(A, t) /\ b = SumOf(B, t)
  BY <1>2, RowSums
<1>5. Subtract(Add(a, b), a) = b
  BY DEF Subtract, Add, Stats, StatSet
<1> QED BY <1>1, <1>3, <1>4, <1>5

(* The bins of a histogram add up to the rows they hold.                   *)
LEMMA BinSums ==
  ASSUME p \in Settings, RowsOk, NEW t \in Targets, NEW S \in SUBSET (1 .. NumRows),
         NEW f \in Features, NEW B \in SUBSET ToSet(FeatureBins(f))
  PROVE  Total(Hist(S, t), B) = SumOf(RowsIn(S, f, B), t)
<1>1. PICK c \in Nat, k \in Nat \ {0} : /\ c = CutPtr(f) /\ k = p.bins
                                        /\ ToSet(FeatureBins(f)) = c .. c + k - 1
                                        /\ c .. c + k - 1 \subseteq Bins
  BY BinsOf, SettingIs
<1>2. PICK hist \in Hists : hist = Hist(S, t)
  BY RowSums
<1>3. IsFiniteSet(B) /\ B \in SUBSET (c .. c + k - 1) /\ B \in SUBSET Bins
  <2>1. B \in SUBSET (c .. c + k - 1) /\ c + k - 1 \in Int
    BY <1>1
  <2>2. IsFiniteSet(c .. c + k - 1)
    BY <2>1, FS_Interval
  <2> QED BY <1>1, <2>1, <2>2, FS_Subset
<1>4. \A T \in SUBSET B : Summable(hist, T)
  <2> SUFFICES ASSUME NEW T \in SUBSET B PROVE Summable(hist, T)
    OBVIOUS
  <2>1. IsFiniteSet(T)
    BY <1>3, FS_Subset
  <2> QED BY <1>3, <2>1 DEF Summable, Hists
<1>5. ASSUME NEW b \in B PROVE hist[b] = SumOf(RowsIn(S, f, {b}), t)
  <2>1. PICK j \in 0 .. k - 1 : b = f * k + j
    <3>1. c = f * k /\ f \in Nat
      BY <1>1, BinsOf DEF CutPtr
    <3>2. b \in Int /\ b - c \in 0 .. k - 1 /\ b = c + (b - c)
      BY <1>3
    <3> QED BY <3>1, <3>2
  <2>2. b \div k = f /\ b % k = j
    BY <2>1, BinsOf, DivOf
  <2>3. hist[b] = SumOf({r \in S : BinOf(r, f) = j + 1}, t)
    <3>1. b \in 0 .. p.features * p.bins - 1
      BY <1>3 DEF Bins
    <3> QED BY <1>1, <1>2, <2>2, <3>1 DEF Hist
  <2>4. ASSUME NEW r \in S PROVE BinOf(r, f) = j + 1 <=> Holds(f, {b}, r)
    <3>1. PICK v \in 0 .. k : v = BinOf(r, f)
      BY <1>1, RowBin
    <3>2. c = f * k /\ f * k \in Nat
      BY <1>1, BinsOf DEF CutPtr
    <3>3. v = j + 1 <=> v # 0 /\ c + v - 1 = b
      BY <2>1, <3>2
    <3> QED BY <1>1, <3>1, <3>3 DEF Holds
  <2>5. {r \in S : BinOf(r, f) = j + 1} = RowsIn(S, f, {b})
    BY <2>4 DEF RowsIn
  <2> QED BY <2>3, <2>5
<1> DEFINE C == {T \in SUBSET B : Total(hist, T) = SumOf(RowsIn(S, f, T), t)}
<1>6. {} \in C
  <2>1. Total(hist, {}) = NoStats
    BY <1>4, TotalOut
  <2>2. RowsIn(S, f, {}) = {}
    BY DEF RowsIn, Holds
  <2>3. SumOf({}, t) = NoStats
    BY GradientsAre, TotalOut
  <2> QED BY <2>1, <2>2, <2>3
<1>7. ASSUME NEW T \in SUBSET B, NEW x \in B, T \in C, x \notin T PROVE T \cup {x} \in C
  <2>1. PICK U : U = T \cup {x} /\ U \in SUBSET B
    OBVIOUS
  <2>2. Total(hist, U) = Add(hist[x], Total(hist, T))
    <3>1. Total(hist, U) = Add(hist[x], Total(hist, U \ {x}))
      BY <1>4, <2>1, TotalOut
    <3>2. U \ {x} = T
      BY <1>7, <2>1
    <3> QED BY <3>1, <3>2
  <2>3. PICK V, W : V = RowsIn(S, f, T) /\ W = RowsIn(S, f, {x})
    OBVIOUS
  <2>4. /\ V \in SUBSET (1 .. NumRows) /\ W \in SUBSET (1 .. NumRows)
        /\ V \cap W = {} /\ W \cup V = RowsIn(S, f, U)
    BY <1>7, <2>1, <2>3 DEF RowsIn, Holds
  <2>5. SumOf(RowsIn(S, f, U), t) = Add(SumOf(W, t), SumOf(V, t))
    <3>1. W \cap V = {}
      BY <2>4
    <3>2. SumOf(W \cup V, t) = Add(SumOf(W, t), SumOf(V, t))
      BY <2>4, <3>1, RowsJoin
    <3> QED BY <2>4, <3>2
  <2>6. SumOf(V, t) = Total(hist, T) /\ SumOf(W, t) = hist[x]
    BY <1>5, <1>7, <2>3
  <2> QED BY <2>1, <2>2, <2>5, <2>6
<1>8. B \in C
  <2> HIDE DEF C
  <2> QED BY <1>3, <1>6, <1>7, FiniteSetInduction
<1> QED BY <1>2, <1>8

(* A node knows the sums and histograms of its rows.                       *)
Sees(n) ==
  /\ n.rows \in SUBSET (1 .. NumRows)
  /\ \A t \in Targets : n.hists[t] = Hist(n.rows, t)
  /\ n.sums = ByTarget(n.rows) /\ n.stats = SumTargets(n.sums)

SideOf(n, e) == {r \in n.rows : GoesLeft(e, r)}
ChildSums(n, e) ==
  IF IsMulti THEN MultiChildSums(n, e) ELSE [left |-> <<e.left>>, right |-> <<e.right>>]

(* A split's sums are those of the rows that its test sends to each side.  *)
AddsUp(n, e) ==
  /\ e.left = SideSums(SideOf(n, e)) /\ e.right = SideSums(n.rows \ SideOf(n, e))
  /\ ChildSums(n, e) = [left |-> ByTarget(SideOf(n, e)),
                        right |-> ByTarget(n.rows \ SideOf(n, e))]

(* The sums of a scalar leaf.                                              *)
LEMMA OneTarget ==
  ASSUME p \in Settings, RowsOk, ~IsMulti, NEW S \in SUBSET (1 .. NumRows)
  PROVE  /\ Targets = {1} /\ ByTarget(S) = <<SumOf(S, 1)>>
         /\ SideSums(S) = SumOf(S, 1) /\ SumTargets(ByTarget(S)) = SumOf(S, 1)
<1>1. Targets = {1} /\ Targets = 1 .. 1
  BY SettingIs DEF Targets, IsMulti
<1>2. PICK s, f : s = SumOf(S, 1) /\ f = ByTarget(S)
  OBVIOUS
<1>3. f = [t \in {1} |-> s] /\ f = <<s>>
  BY <1>1, <1>2 DEF ByTarget
<1>4. s \in StatSet
  BY <1>1, <1>2, RowSums
<1>5. DOMAIN f = {1} /\ f[1] = s
  BY <1>3
<1>6. Summable(f, {1})
  BY <1>4, <1>5, FS_Singleton DEF Summable
<1>7. Total(f, {1}) = Add(s, Total(f, {1} \ {1})) /\ Total(f, {}) = NoStats
  BY <1>5, <1>6, TotalOut
<1>8. Total(f, {1} \ {1}) = NoStats
  <2>1. {1} \ {1} = {}
    OBVIOUS
  <2> QED BY <1>7, <2>1
<1>9. Add(s, NoStats) = s
  BY <1>4 DEF Add, NoStats, Stats, StatSet
<1>10. SumTargets(f) = s
  BY <1>5, <1>7, <1>8, <1>9 DEF SumTargets
<1>11. SideSums(S) = SumTargets(f)
  BY <1>2 DEF SideSums, ByTarget
<1> QED BY <1>1, <1>2, <1>3, <1>10, <1>11

(* So a scalar leaf's sums are sums.                                       *)
LEMMA SeesSums ==
  ASSUME p \in Settings, RowsOk, ~IsMulti, NEW n, Sees(n)
  PROVE  /\ n.hists[1] \in Hists /\ n.stats \in StatSet
         /\ n.hists[1] = Hist(n.rows, 1) /\ n.stats = SumOf(n.rows, 1)
<1>1. n.rows \in SUBSET (1 .. NumRows)
  BY DEF Sees
<1>2. 1 \in Targets /\ SumTargets(ByTarget(n.rows)) = SumOf(n.rows, 1)
  BY <1>1, OneTarget
<1>3. n.hists[1] = Hist(n.rows, 1) /\ n.stats = SumOf(n.rows, 1)
  BY <1>2 DEF Sees
<1> QED BY <1>1, <1>2, <1>3, RowSums

(* What was found of a node's histograms adds up to its rows: of a scalar  *)
(* leaf,                                                                   *)
LEMMA PartsAddUp ==
  ASSUME p \in Settings, RowsOk, ~IsMulti, NEW n, Sees(n), NEW f \in Features, NEW e,
         Parts(n, n.hists[1], f, e)
  PROVE  AddsUp(n, e)
<1>1. PICK S \in SUBSET (1 .. NumRows) : S = n.rows
  BY DEF Sees
<1>2. PICK hist, stats, all : /\ hist = Hist(S, 1) /\ stats = SumOf(S, 1)
                              /\ hist = n.hists[1] /\ stats = n.stats
                              /\ all = ToSet(FeatureBins(f))
  BY <1>1, SeesSums
<1>3. 1 \in Targets
  BY OneTarget
<1>4. \A B \in SUBSET all : Total(hist, B) = SumOf(RowsIn(S, f, B), 1)
  BY <1>2, <1>3, BinSums
<1>5. \A A \in SUBSET S : Subtract(stats, SumOf(A, 1)) = SumOf(S \ A, 1)
  BY <1>2, <1>3, RowsRest
<1>6. \A B : RowsIn(S, f, B) \in SUBSET S
  BY DEF RowsIn
<1>7. PICK L : L = SideOf(n, e) /\ L \in SUBSET S
  BY <1>1 DEF SideOf
<1>8. e.left = SumOf(L, 1) /\ e.right = SumOf(S \ L, 1)
  <2>1. PICK B \in SUBSET all :
          \/ /\ e.left = Total(hist, B) /\ e.right = Subtract(stats, e.left)
             /\ \A r \in 1 .. NumRows : GoesLeft(e, r) <=> Holds(f, B, r)
          \/ /\ e.right = Total(hist, B) /\ e.left = Subtract(stats, e.right)
             /\ \A r \in 1 .. NumRows : GoesLeft(e, r) <=> ~Holds(f, B, r)
          \/ /\ e.right = Add(Total(hist, B), Subtract(stats, NonMissing(f, hist)))
             /\ e.left = Subtract(stats, e.right)
             /\ \A r \in 1 .. NumRows : GoesLeft(e, r) <=> Holds(f, all \ B, r)
    BY <1>2 DEF Parts
  <2>2. PICK A : A = RowsIn(S, f, B) /\ A \in SUBSET S /\ Total(hist, B) = SumOf(A, 1)
    BY <1>4, <1>6
  <2>3. CASE /\ e.left = Total(hist, B) /\ e.right = Subtract(stats, e.left)
             /\ \A r \in 1 .. NumRows : GoesLeft(e, r) <=> Holds(f, B, r)
    <3>1. L = A
      BY <1>1, <1>7, <2>2, <2>3 DEF SideOf, RowsIn
    <3> QED BY <1>5, <2>2, <2>3, <3>1
  <2>4. CASE /\ e.right = Total(hist, B) /\ e.left = Subtract(stats, e.right)
             /\ \A r \in 1 .. NumRows : GoesLeft(e, r) <=> ~Holds(f, B, r)
    <3>1. L = S \ A /\ S \ L = A
      BY <1>1, <1>7, <2>2, <2>4 DEF SideOf, RowsIn
    <3> QED BY <1>5, <2>2, <2>4, <3>1
  <2>5. CASE /\ e.right = Add(Total(hist, B), Subtract(stats, NonMissing(f, hist)))
             /\ e.left = Subtract(stats, e.right)
             /\ \A r \in 1 .. NumRows : GoesLeft(e, r) <=> Holds(f, all \ B, r)
    <3>1. PICK M : M = S \ RowsIn(S, f, all)
      OBVIOUS
    <3>2. Subtract(stats, NonMissing(f, hist)) = SumOf(M, 1)
      <4>1. NonMissing(f, hist) = SumOf(RowsIn(S, f, all), 1)
        BY <1>2, <1>4 DEF NonMissing
      <4> QED BY <1>5, <1>6, <3>1, <4>1
    <3>3. A \cap M = {} /\ A \in SUBSET (1 .. NumRows) /\ M \in SUBSET (1 .. NumRows)
      BY <1>1, <2>2, <3>1 DEF RowsIn, Holds
    <3>4. e.right = SumOf(A \cup M, 1)
      BY <1>3, <2>2, <2>5, <3>2, <3>3, RowsJoin
    <3>5. A \cup M = S \ L
      <4>1. ASSUME NEW r \in S PROVE r \in L <=> r \notin A /\ r \notin M
        <5>1. r \in L <=> Holds(f, all \ B, r)
          BY <1>1, <1>7, <2>5 DEF SideOf
        <5>2. r \in A <=> Holds(f, B, r)
          BY <2>2 DEF RowsIn
        <5>3. r \in M <=> ~Holds(f, all, r)
          BY <3>1 DEF RowsIn
        <5>4. Holds(f, all \ B, r) <=> Holds(f, all, r) /\ ~Holds(f, B, r)
          BY DEF Holds
        <5> QED BY <5>1, <5>2, <5>3, <5>4
      <4>2. A \in SUBSET S /\ M \in SUBSET S
        BY <2>2, <3>1
      <4> QED BY <4>1, <4>2
    <3>6. S \ (S \ L) = L /\ S \ L \in SUBSET S
      BY <1>7
    <3> QED BY <1>5, <2>5, <3>4, <3>5, <3>6
  <2> QED BY <2>1, <2>3, <2>4, <2>5
<1>9. L \in SUBSET (1 .. NumRows) /\ S \ L \in SUBSET (1 .. NumRows)
  BY <1>7
<1>10. /\ SideSums(L) = SumOf(L, 1) /\ ByTarget(L) = <<SumOf(L, 1)>>
       /\ SideSums(S \ L) = SumOf(S \ L, 1) /\ ByTarget(S \ L) = <<SumOf(S \ L, 1)>>
  BY <1>9, OneTarget
<1> QED BY <1>1, <1>7, <1>8, <1>10 DEF AddsUp, ChildSums

(* of a vector leaf,                                                       *)
LEMMA AllAddUp ==
  ASSUME p \in Settings, RowsOk, IsMulti, NEW n, Sees(n), NEW f \in Features, NEW e,
         PartsAll(n, f, e)
  PROVE  AddsUp(n, e)
<1>1. PICK S \in SUBSET (1 .. NumRows) : S = n.rows
  BY DEF Sees
<1>B. PICK B \in SUBSET ToSet(FeatureBins(f)) : \E some, rest :
        /\ some = SumsOver(n, B) /\ rest = RestOf(n, some)
        /\ \/ /\ e.left = SumTargets(some) /\ e.right = SumTargets(rest)
              /\ MultiChildSums(n, e) = [left |-> some, right |-> rest]
              /\ \A r \in 1 .. NumRows : GoesLeft(e, r) <=> Holds(f, B, r)
           \/ /\ e.right = SumTargets(some) /\ e.left = SumTargets(rest)
              /\ MultiChildSums(n, e) = [left |-> rest, right |-> some]
              /\ \A r \in 1 .. NumRows : GoesLeft(e, r) <=> ~Holds(f, B, r)
  BY DEF PartsAll
<1>2. PICK some, rest :
        /\ some = SumsOver(n, B) /\ rest = RestOf(n, some)
        /\ \/ /\ e.left = SumTargets(some) /\ e.right = SumTargets(rest)
              /\ MultiChildSums(n, e) = [left |-> some, right |-> rest]
              /\ \A r \in 1 .. NumRows : GoesLeft(e, r) <=> Holds(f, B, r)
           \/ /\ e.right = SumTargets(some) /\ e.left = SumTargets(rest)
              /\ MultiChildSums(n, e) = [left |-> rest, right |-> some]
              /\ \A r \in 1 .. NumRows : GoesLeft(e, r) <=> ~Holds(f, B, r)
  BY <1>B
<1>3. PICK A : A = RowsIn(S, f, B) /\ A \in SUBSET S
  BY DEF RowsIn
<1>4. some = ByTarget(A)
  <2>1. ASSUME NEW t \in Targets PROVE Total(n.hists[t], B) = SumOf(A, t)
    <3>1. n.hists[t] = Hist(S, t)
      BY <1>1 DEF Sees
    <3> QED BY <1>3, <3>1, BinSums
  <2> QED BY <1>2, <2>1 DEF SumsOver, ByTarget
<1>5. rest = ByTarget(S \ A)
  <2>1. ASSUME NEW t \in Targets PROVE Subtract(n.sums[t], some[t]) = SumOf(S \ A, t)
    <3>1. n.sums[t] = SumOf(S, t) /\ some[t] = SumOf(A, t)
      BY <1>1, <1>4 DEF Sees, ByTarget
    <3> QED BY <1>3, <3>1, RowsRest
  <2> QED BY <1>2, <2>1 DEF RestOf, ByTarget
<1>6. \A T : SideSums(T) = SumTargets(ByTarget(T))
  BY DEF SideSums, ByTarget
<1>7. PICK L : L = SideOf(n, e)
  OBVIOUS
<1>8. CASE /\ e.left = SumTargets(some) /\ e.right = SumTargets(rest)
           /\ MultiChildSums(n, e) = [left |-> some, right |-> rest]
           /\ \A r \in 1 .. NumRows : GoesLeft(e, r) <=> Holds(f, B, r)
  <2>1. L = A
    BY <1>1, <1>3, <1>7, <1>8 DEF SideOf, RowsIn
  <2> QED BY <1>1, <1>4, <1>5, <1>6, <1>7, <1>8, <2>1 DEF AddsUp, ChildSums
<1>9. CASE /\ e.right = SumTargets(some) /\ e.left = SumTargets(rest)
           /\ MultiChildSums(n, e) = [left |-> rest, right |-> some]
           /\ \A r \in 1 .. NumRows : GoesLeft(e, r) <=> ~Holds(f, B, r)
  <2>1. L = S \ A /\ S \ L = A
    BY <1>1, <1>3, <1>7, <1>9 DEF SideOf, RowsIn
  <2> QED BY <1>1, <1>4, <1>5, <1>6, <1>7, <1>9, <2>1 DEF AddsUp, ChildSums
<1> QED BY <1>2, <1>8, <1>9

(* so of any.                                                              *)
LEMMA ToldAddsUp ==
  ASSUME p \in Settings, RowsOk, NEW n, Sees(n), NEW e, Told(n, e)
  PROVE  AddsUp(n, e)
BY PartsAddUp, AllAddUp DEF Told

-----------------------------------------------------------------------------
(* Partings of a node's rows.                                              *)

(* What a node needs for its gains to be fractions.                        *)
Weighable(n) == Sees(n) /\ Boxed(n) /\ n.root_gain \in Q

(* What the rows of a node gain, at its weight, is a fraction.             *)
LEMMA NodeGainIs ==
  ASSUME p \in Settings, RowsOk, NEW n, Boxed(n), NEW S \in SUBSET (1 .. NumRows)
  PROVE  /\ NodeGain(n, ByTarget(S)) \in Q
         /\ ~IsMulti => NodeGain(n, ByTarget(S)) = CalcGain(n, SideSums(S))
         /\ IsMulti => MultiGain(n, ByTarget(S)) \in Q
<1>1. PICK sums : sums = ByTarget(S)
  OBVIOUS
<1>2. \A t \in Targets : sums[t] = SumOf(S, t) /\ sums[t] \in StatSet
  BY <1>1, RowSums DEF ByTarget
<1>3. IsMulti => MultiGain(n, sums) \in Q
  BY <1>2, MultiGainIs
<1>4. CASE ~IsMulti
  <2>1. PICK s : s = SumOf(S, 1) /\ Targets = {1} /\ sums = <<s>> /\ SideSums(S) = s
    BY <1>1, <1>4, OneTarget
  <2>2. s \in StatSet
    BY <2>1, RowSums
  <2>3. sums[1] = s
    BY <2>1
  <2>4. CalcGain(n, s) \in Q
    BY <2>2, GainIs
  <2> QED BY <1>1, <1>4, <2>1, <2>3, <2>4 DEF NodeGain
<1> QED BY <1>1, <1>3, <1>4 DEF NodeGain

(* A parting's gain is a fraction.                                         *)
LEMMA PartingGainIs ==
  ASSUME p \in Settings, RowsOk, NEW n, Weighable(n), NEW L \in SUBSET n.rows
  PROVE  /\ NodeGain(n, ByTarget(L)) \in Q /\ NodeGain(n, ByTarget(n.rows \ L)) \in Q
         /\ GainBefore(n) \in Q /\ PartingGain(n, L) \in Q
         /\ Minus(PartingGain(n, L), GainBefore(n)) \in Q
         /\ ~IsMulti => NodeGain(n, ByTarget(L)) = CalcGain(n, SideSums(L))
<1>1. n.rows \in SUBSET (1 .. NumRows) /\ Boxed(n) /\ n.sums = ByTarget(n.rows)
  BY DEF Weighable, Sees
<1>2. ASSUME NEW S \in SUBSET (1 .. NumRows)
      PROVE  /\ NodeGain(n, ByTarget(S)) \in Q
             /\ ~IsMulti => NodeGain(n, ByTarget(S)) = CalcGain(n, SideSums(S))
             /\ IsMulti => MultiGain(n, ByTarget(S)) \in Q
  BY <1>1, NodeGainIs
<1>3. L \in SUBSET (1 .. NumRows) /\ n.rows \ L \in SUBSET (1 .. NumRows)
  BY <1>1
<1>4. GainBefore(n) \in Q
  BY <1>1, <1>2 DEF GainBefore, Weighable
<1>5. PICK x \in Q, y \in Q, z \in Q :
        /\ x = NodeGain(n, ByTarget(L)) /\ y = NodeGain(n, ByTarget(n.rows \ L))
        /\ z = GainBefore(n)
  BY <1>2, <1>3, <1>4
<1>6. Plus(x, y) \in Q /\ Minus(Plus(x, y), z) \in Q
  BY FractionArithmetic
<1>7. PartingGain(n, L) = Plus(x, y)
  BY <1>5 DEF PartingGain
<1> QED BY <1>2, <1>3, <1>5, <1>6, <1>7

(* A split that says what a parting gains, and whether it is allowed.      *)
Priced(n, f, e, L) ==
  /\ e.chg = Minus(PartingGain(n, L), GainBefore(n)) /\ e.chg \in Q
  /\ IsFinite(n, e) <=> PartingAllowed(n, f, L)

(* Every candidate says so of the rows that its test sends to the left.    *)
LEMMA OfferPriced ==
  ASSUME p \in Settings, RowsOk, NEW n, Weighable(n), NEW f \in Features, NEW e,
         Offered(n, f, e)
  PROVE  AddsUp(n, e) /\ Priced(n, f, e, SideOf(n, e))
<1>1. Sees(n) /\ n.sums = ByTarget(n.rows)
  BY DEF Weighable, Sees
<1>2. AddsUp(n, e)
  BY <1>1, PartsAddUp, AllAddUp DEF Offered, OfferedOne, OfferedAll
<1>3. PICK L : L = SideOf(n, e) /\ L \in SUBSET n.rows
  BY DEF SideOf
<1>4. /\ e.f = f /\ e.left = SideSums(L) /\ e.right = SideSums(n.rows \ L)
      /\ ChildSums(n, e) = [left |-> ByTarget(L), right |-> ByTarget(n.rows \ L)]
  BY <1>2, <1>3 DEF AddsUp, Offered, OfferedOne, OfferedAll
<1>5. IsFinite(n, e) <=> PartingAllowed(n, f, L)
  <2>1. PICK x : x = [f |-> f, left |-> SideSums(L), right |-> SideSums(n.rows \ L)]
    OBVIOUS
  <2>2. x.f = e.f /\ x.left = e.left /\ x.right = e.right
    BY <1>4, <2>1
  <2>3. IsFinite(n, x) <=> IsFinite(n, e)
    BY <2>2 DEF IsFinite
  <2>4. PartingAllowed(n, f, L) <=> IsFinite(n, x)
    BY <2>1 DEF PartingAllowed
  <2> QED BY <2>3, <2>4
<1>6. e.chg = Minus(PartingGain(n, L), GainBefore(n))
  <2>1. CASE IsMulti
    <3>1. PICK sums : sums = MultiChildSums(n, e) /\ sums.left = ByTarget(L)
                      /\ sums.right = ByTarget(n.rows \ L)
      BY <1>4, <2>1 DEF ChildSums
    <3>2. e.chg = Minus(Plus(MultiGain(n, sums.left), MultiGain(n, sums.right)),
                        MultiGain(n, n.sums))
      BY <2>1, <3>1 DEF Offered, OfferedAll
    <3> QED BY <2>1, <3>1, <3>2 DEF PartingGain, GainBefore, NodeGain
  <2>2. CASE ~IsMulti
    <3>1. e.chg = Minus(SplitGain(n, e.left, e.right), n.root_gain)
      BY <2>2 DEF Offered, OfferedOne
    <3>2. PICK M : M = n.rows \ L /\ M \in SUBSET n.rows
      OBVIOUS
    <3>3. /\ NodeGain(n, ByTarget(L)) = CalcGain(n, SideSums(L))
          /\ NodeGain(n, ByTarget(M)) = CalcGain(n, SideSums(M))
      BY <1>3, <2>2, <3>2, PartingGainIs
    <3>4. PartingGain(n, L) = SplitGain(n, e.left, e.right)
      BY <1>4, <3>2, <3>3 DEF PartingGain, SplitGain
    <3> QED BY <2>2, <3>1, <3>4 DEF GainBefore
  <2> QED BY <2>1, <2>2
<1>7. e.chg \in Q
  BY <1>3, <1>6, PartingGainIs
<1> QED BY <1>2, <1>3, <1>5, <1>6, <1>7 DEF Priced

(* Rows that add up to the same are as good.                               *)
LEMMA SamePrice ==
  ASSUME NEW n, NEW f, NEW e, NEW L, NEW M, Priced(n, f, e, L), ByTarget(L) = ByTarget(M),
         ByTarget(n.rows \ L) = ByTarget(n.rows \ M)
  PROVE  Priced(n, f, e, M)
<1>1. \A S : SideSums(S) = SumTargets(ByTarget(S))
  BY DEF SideSums, ByTarget
<1>2. SideSums(L) = SideSums(M) /\ SideSums(n.rows \ L) = SideSums(n.rows \ M)
  BY <1>1
<1>3. PartingGain(n, L) = PartingGain(n, M) /\ (PartingAllowed(n, f, L) <=> PartingAllowed(n, f, M))
  BY <1>2 DEF PartingGain, PartingAllowed
<1> QED BY <1>3 DEF Priced

(* Categories are in a strict order.                                       *)
StrictOrder(hist, S) ==
  /\ \A a \in S : ~CategoryBefore(hist, a, a)
  /\ \A a, b \in S : a # b => CategoryBefore(hist, a, b) \/ CategoryBefore(hist, b, a)
  /\ \A a, b, c \in S :
       CategoryBefore(hist, a, b) /\ CategoryBefore(hist, b, c) => CategoryBefore(hist, a, c)
LEMMA CategoriesOrdered ==
  ASSUME p \in Settings, NEW hist \in Hists, NEW S \in SUBSET Bins
  PROVE  StrictOrder(hist, S)
<1> DEFINE w(a) == UnboundedWeight(hist[a])
<1>1. \A a \in S : w(a) \in Q /\ a \in Int
  BY WeightIs DEF Hists, Bins
<1>2. ASSUME NEW a \in S, NEW b \in S
      PROVE  CategoryBefore(hist, a, b) <=> ~LE(w(b), w(a)) \/ (LE(w(a), w(b)) /\ a < b)
  <2>1. PICK u \in Q, v \in Q : u = w(a) /\ v = w(b)
    BY <1>1
  <2>2. (Below(u, v) <=> ~LE(v, u)) /\ (Below(v, u) <=> ~LE(u, v))
    BY ComparedAs
  <2> QED BY <2>1, <2>2 DEF CategoryBefore
<1> HIDE DEF w
<1>3. ASSUME NEW a \in S PROVE ~CategoryBefore(hist, a, a)
  <2>1. LE(w(a), w(a)) /\ ~(a < a)
    BY <1>1, Ordered
  <2> QED BY <1>2, <2>1
<1>4. ASSUME NEW a \in S, NEW b \in S, a # b
      PROVE  CategoryBefore(hist, a, b) \/ CategoryBefore(hist, b, a)
  <2>1. a < b \/ b < a
    BY <1>1, <1>4
  <2>2. LE(w(a), w(b)) \/ LE(w(b), w(a))
    BY <1>1, Ordered
  <2> QED BY <1>2, <2>1, <2>2
<1>5. ASSUME NEW a \in S, NEW b \in S, NEW c \in S, CategoryBefore(hist, a, b),
             CategoryBefore(hist, b, c)
      PROVE  CategoryBefore(hist, a, c)
  <2>1. PICK u \in Q, v \in Q, x \in Q : u = w(a) /\ v = w(b) /\ x = w(c)
    BY <1>1
  <2>2. /\ ~LE(v, u) \/ (LE(u, v) /\ a < b)
        /\ ~LE(x, v) \/ (LE(v, x) /\ b < c)
    BY <1>2, <1>5, <2>1
  <2>3. a < b /\ b < c => a < c
    BY <1>1
  <2>4. LE(u, v) /\ LE(v, x)
    BY <2>2, Ordered
  <2>5. LE(u, x)
    BY <2>4, Ordered
  <2>6. ~LE(v, u) \/ ~LE(x, v) => ~LE(x, u)
    BY <2>4, Ordered
  <2>7. ~LE(x, u) \/ (LE(u, x) /\ a < c)
    BY <2>2, <2>3, <2>5, <2>6
  <2> QED BY <1>2, <2>1, <2>7
<1> QED BY <1>3, <1>4, <1>5 DEF StrictOrder

(* Some categories that are before all others.                             *)
IsHead(hist, S, R) == R \in SUBSET S /\ \A a \in R, b \in S \ R : CategoryBefore(hist, a, b)
Earlier(hist, S, b) == {a \in S : CategoryBefore(hist, a, b)}

(* They are those that few others are before.                              *)
LEMMA HeadIs ==
  ASSUME NEW hist, NEW S, IsFiniteSet(S), StrictOrder(hist, S), NEW R, IsHead(hist, S, R)
  PROVE  R = {b \in S : Cardinality(Earlier(hist, S, b)) < Cardinality(R)}
<1>1. R \in SUBSET S /\ IsFiniteSet(R) /\ Cardinality(R) \in Nat
  BY FS_Subset, FS_CardinalityType DEF IsHead
<1>2. ASSUME NEW b \in R PROVE Cardinality(Earlier(hist, S, b)) < Cardinality(R)
  <2>1. PICK E : E = Earlier(hist, S, b)
    OBVIOUS
  <2>2. E \in SUBSET R
    <3>1. ASSUME NEW a \in S, CategoryBefore(hist, a, b), a \notin R PROVE FALSE
      <4>1. b \in S /\ a \in S /\ CategoryBefore(hist, b, a)
        BY <1>1, <3>1 DEF IsHead
      <4>2. CategoryBefore(hist, b, b)
        BY <3>1, <4>1 DEF StrictOrder
      <4> QED BY <4>1, <4>2 DEF StrictOrder
    <3> QED BY <2>1, <3>1 DEF Earlier
  <2>3. b \notin E
    BY <1>1, <2>1 DEF Earlier, StrictOrder
  <2>4. IsFiniteSet(E) /\ Cardinality(E) <= Cardinality(R) /\ (Cardinality(R) = Cardinality(E) => R = E)
    BY <1>1, <2>2, FS_Subset
  <2>5. Cardinality(E) \in Nat /\ Cardinality(E) # Cardinality(R)
    BY <2>3, <2>4, FS_CardinalityType
  <2> QED BY <1>1, <2>1, <2>4, <2>5
<1>3. ASSUME NEW b \in S \ R PROVE ~(Cardinality(Earlier(hist, S, b)) < Cardinality(R))
  <2>1. PICK E : E = Earlier(hist, S, b) /\ E \in SUBSET S
    BY DEF Earlier
  <2>2. R \in SUBSET E
    BY <1>1, <2>1 DEF IsHead, Earlier
  <2>3. IsFiniteSet(E) /\ Cardinality(R) <= Cardinality(E)
    <3>1. IsFiniteSet(E)
      BY <2>1, FS_Subset
    <3> QED BY <2>2, <3>1, FS_Subset
  <2>4. Cardinality(E) \in Nat
    BY <2>3, FS_CardinalityType
  <2> QED BY <1>1, <2>1, <2>3, <2>4
<1> QED BY <1>1, <1>2, <1>3

(* There are such categories in any number.                                *)
LEMMA HeadExists ==
  ASSUME NEW hist, NEW S, IsFiniteSet(S), StrictOrder(hist, S)
  PROVE  \A m \in 0 .. Cardinality(S) : \E R : IsHead(hist, S, R) /\ Cardinality(R) = m
<1>1. PICK k \in Nat : k = Cardinality(S)
  BY FS_CardinalityType
<1> DEFINE C == {m \in Nat : m <= k => \E R : IsHead(hist, S, R) /\ Cardinality(R) = m}
<1>2. 0 \in C
  <2>1. IsHead(hist, S, {}) /\ Cardinality({}) = 0
    BY FS_EmptySet DEF IsHead
  <2> QED BY <2>1
<1>3. ASSUME NEW m \in Nat, m \in C PROVE m + 1 \in C
  <2> SUFFICES ASSUME m + 1 <= k
               PROVE  \E R : IsHead(hist, S, R) /\ Cardinality(R) = m + 1
    OBVIOUS
  <2>1. PICK R : IsHead(hist, S, R) /\ Cardinality(R) = m
    BY <1>3
  <2>2. R \in SUBSET S /\ IsFiniteSet(R) /\ R # S
    BY <1>1, <2>1, FS_Subset DEF IsHead
  <2>3. PICK x \in S \ R : \A y \in S \ R : Cardinality(Earlier(hist, S, x)) <= Cardinality(Earlier(hist, S, y))
    <3> DEFINE T == {Cardinality(Earlier(hist, S, y)) : y \in S \ R}
    <3>1. ASSUME NEW y \in S PROVE Cardinality(Earlier(hist, S, y)) \in Nat
      <4>1. PICK E : E = Earlier(hist, S, y) /\ E \in SUBSET S
        BY DEF Earlier
      <4>2. IsFiniteSet(E)
        BY <4>1, FS_Subset
      <4> QED BY <4>1, <4>2, FS_CardinalityType
    <3>2. T \in SUBSET Nat /\ T # {}
      BY <2>2, <3>1
    <3>3. PICK c \in T : \A d \in T : c <= d
      <4> HIDE DEF T
      <4> QED BY <3>2, LeastOf
    <3> QED BY <3>3
  <2>4. ASSUME NEW y \in S \ R, y # x PROVE CategoryBefore(hist, x, y)
    <3>1. SUFFICES ASSUME CategoryBefore(hist, y, x) PROVE FALSE
      BY <2>4 DEF StrictOrder
    <3>2. PICK E, F : E = Earlier(hist, S, y) /\ F = Earlier(hist, S, x)
      OBVIOUS
    <3>3. E \in SUBSET F /\ y \in F /\ y \notin E /\ F \in SUBSET S
      BY <3>1, <3>2 DEF Earlier, StrictOrder
    <3>4. IsFiniteSet(F)
      BY <3>3, FS_Subset
    <3>5. /\ IsFiniteSet(E) /\ Cardinality(E) <= Cardinality(F)
          /\ Cardinality(F) = Cardinality(E) => F = E
      BY <3>3, <3>4, FS_Subset
    <3>6. Cardinality(E) \in Nat /\ Cardinality(F) \in Nat
      BY <3>4, <3>5, FS_CardinalityType
    <3>7. Cardinality(E) < Cardinality(F)
      BY <3>3, <3>5, <3>6
    <3>8. Cardinality(F) <= Cardinality(E)
      BY <2>3, <2>4, <3>2
    <3> QED BY <3>6, <3>7, <3>8
  <2>5. IsHead(hist, S, R \cup {x})
    BY <2>1, <2>4 DEF IsHead
  <2>6. Cardinality(R \cup {x}) = m + 1
    BY <2>1, <2>2, <2>3, FS_AddElement
  <2> QED BY <2>5, <2>6
<1>4. \A m \in Nat : m \in C
  <2> HIDE DEF C
  <2> QED BY <1>2, <1>3, NatSetInduction
<1> QED BY <1>1, <1>4

(* So the first m are m, and before the others; and what is before the     *)
(* others is the first few.                                                *)
LEMMA FirstIs ==
  ASSUME p \in Settings, NEW hist \in Hists, NEW f \in Features, NEW bins,
         bins = ToSet(FeatureBins(f))
  PROVE  /\ IsFiniteSet(bins) /\ Cardinality(bins) = p.bins
         /\ \A m \in 0 .. p.bins :
              /\ IsHead(hist, bins, SortedCategories(f, hist, m))
              /\ Cardinality(SortedCategories(f, hist, m)) = m
         /\ \A R : IsHead(hist, bins, R) => SortedCategories(f, hist, Cardinality(R)) = R
<1>1. PICK c \in Nat, k \in Nat \ {0} : c = CutPtr(f) /\ k = p.bins /\ bins = c .. c + k - 1
  BY BinsOf, SettingIs
<1>2. IsFiniteSet(bins) /\ Cardinality(bins) = k
  <2>1. c \in Int /\ c + k - 1 \in Int /\ ~(c > c + k - 1) /\ (c + k - 1) - c + 1 = k
    OBVIOUS
  <2> QED BY <1>1, <2>1, FS_Interval
<1>3. bins \in SUBSET Bins
  BY BinsOf
<1>4. StrictOrder(hist, bins)
  BY <1>3, CategoriesOrdered
<1>5. \A m : SortedCategories(f, hist, m) =
               {b \in bins : Cardinality(Earlier(hist, bins, b)) < m}
  BY DEF SortedCategories, Earlier
<1>6. \A R : IsHead(hist, bins, R) => SortedCategories(f, hist, Cardinality(R)) = R
  <2> SUFFICES ASSUME NEW R, IsHead(hist, bins, R)
               PROVE  SortedCategories(f, hist, Cardinality(R)) = R
    OBVIOUS
  <2>1. PICK m : m = Cardinality(R)
    OBVIOUS
  <2>2. R = {b \in bins : Cardinality(Earlier(hist, bins, b)) < m}
    BY <1>2, <1>4, <2>1, HeadIs
  <2> QED BY <1>5, <2>1, <2>2
<1>7. ASSUME NEW m \in 0 .. k
      PROVE  /\ IsHead(hist, bins, SortedCategories(f, hist, m))
             /\ Cardinality(SortedCategories(f, hist, m)) = m
  <2>1. PICK R : IsHead(hist, bins, R) /\ Cardinality(R) = m
    BY <1>2, <1>4, HeadExists
  <2> QED BY <1>6, <2>1
<1> QED BY <1>1, <1>2, <1>6, <1>7

(* A parting sends the rows of some bins right.                            *)
LEMMA PartingsAre ==
  ASSUME NEW n, NEW f, NEW L
  PROVE  L \in Partings(n, f) <=>
           \E dl \in BOOLEAN : /\ dl /\ IsMulti => MissingCount(n, f)
                               /\ \E R \in RightBins(n, f, dl) : L = SideAt(n, f, R, dl)
BY DEF Partings

(* What these bins are.                                                    *)
After(bins, cut) == {b \in bins : b > cut}
SomeHeads(hist, bins, dl) ==
  {R \in SUBSET bins :
     IsHead(hist, bins, R) /\ Cardinality(IF dl THEN R ELSE bins \ R) \in 1 .. Most}
LEMMA RightsAre ==
  ASSUME NEW n, NEW f, NEW bins, bins = ToSet(FeatureBins(f)), NEW dl
  PROVE  /\ f \notin p.cat => RightBins(n, f, dl) = {After(bins, cut) : cut \in bins \cup {-1}}
         /\ f \in p.cat /\ UseOneHot => RightBins(n, f, dl) = {{b} : b \in bins}
         /\ f \in p.cat /\ ~UseOneHot => RightBins(n, f, dl) = SomeHeads(n.hists[1], bins, dl)
<1>1. \A R \in SUBSET bins :
        (\A a \in R, b \in bins \ R : CategoryBefore(n.hists[1], a, b))
          <=> IsHead(n.hists[1], bins, R)
  BY DEF IsHead
<1>2. f \notin p.cat => RightBins(n, f, dl) = {After(bins, cut) : cut \in bins \cup {-1}}
  BY DEF RightBins, After
<1>3. f \in p.cat /\ UseOneHot => RightBins(n, f, dl) = {{b} : b \in bins}
  BY DEF RightBins
<1>4. f \in p.cat /\ ~UseOneHot => RightBins(n, f, dl) = SomeHeads(n.hists[1], bins, dl)
  BY <1>1 DEF RightBins, Most, SomeHeads
<1> QED BY <1>2, <1>3, <1>4

(* A number's partings: those of its cuts, with the missing rows on the    *)
(* right, and on the left.                                                 *)
Without(n, f, right) == SideAt(n, f, right, FALSE)
With(n, f, right) == SideAt(n, f, right, TRUE)
LEMMA NumberPartings ==
  ASSUME NEW n, NEW f, f \notin p.cat, NEW bins, bins = ToSet(FeatureBins(f)), NEW L
  PROVE  L \in Partings(n, f) <=>
           \E cut \in bins \cup {-1} :
             \/ L = Without(n, f, After(bins, cut))
             \/ (IsMulti => MissingCount(n, f)) /\ L = With(n, f, After(bins, cut))
<1>1. PICK A : A = {After(bins, cut) : cut \in bins \cup {-1}}
  OBVIOUS
<1>2. \A dl : RightBins(n, f, dl) = A
  BY <1>1, RightsAre
<1>3. L \in Partings(n, f) <=>
        \E dl \in BOOLEAN : /\ dl /\ IsMulti => MissingCount(n, f)
                            /\ \E R \in A : L = SideAt(n, f, R, dl)
  BY <1>2, PartingsAre
<1>4. PICK F : F = [dl \in BOOLEAN |-> {SideAt(n, f, R, dl) : R \in A}]
  OBVIOUS
<1>5. L \in Partings(n, f) <=>
        \E dl \in BOOLEAN : (dl /\ IsMulti => MissingCount(n, f)) /\ L \in F[dl]
  BY <1>3, <1>4
<1>6. L \in Partings(n, f) <=>
        L \in F[FALSE] \/ ((IsMulti => MissingCount(n, f)) /\ L \in F[TRUE])
  BY <1>5
<1>7. F[FALSE] = {Without(n, f, R) : R \in A} /\ F[TRUE] = {With(n, f, R) : R \in A}
  BY <1>4 DEF With, Without
<1> QED BY <1>1, <1>6, <1>7

(* A split's test sends left the rows of a side.                           *)
LEMMA TestSide ==
  ASSUME p \in Settings, RowsOk, NEW n, n.rows \in SUBSET (1 .. NumRows), NEW f \in Features,
         NEW bins, bins = ToSet(FeatureBins(f)), NEW e, e.f = f, NEW R,
         R = IF e.is_cat THEN e.bits ELSE After(bins, FindSplitCondition(f, e.value)),
         ~e.is_cat => FindSplitCondition(f, e.value) \in Int
  PROVE  SideOf(n, e) = SideAt(n, f, R, e.default_left)
<1>1. ASSUME NEW r \in n.rows
      PROVE  GoesLeft(e, r) <=> (IF BinOf(r, f) = 0 THEN e.default_left
                                 ELSE CutPtr(f) + BinOf(r, f) - 1 \notin R)
  <2>1. PICK v : v = BinOf(r, f) /\ (v # 0 => Holds(f, bins, r))
    BY RowBin
  <2>2. PICK bin : bin = CutPtr(f) + v - 1
    OBVIOUS
  <2>3. GoesLeft(e, r) = IF v = 0 THEN e.default_left
                         ELSE IF e.is_cat THEN bin \notin e.bits
                         ELSE bin <= FindSplitCondition(f, e.value)
    BY <2>1, <2>2 DEF GoesLeft
  <2>4. v # 0 => bin \in bins /\ bin \in Int
    <3>1. v # 0 => bin \in bins
      BY <2>1, <2>2 DEF Holds
    <3>2. \A b \in bins : b \in Int
      <4>1. bins \subseteq Bins
        BY BinsOf
      <4> QED BY <4>1 DEF Bins
    <3> QED BY <3>1, <3>2
  <2>5. ~e.is_cat /\ v # 0 => (bin <= FindSplitCondition(f, e.value) <=> bin \notin R)
    BY <2>4 DEF After
  <2> QED BY <2>1, <2>2, <2>3, <2>5
<1> QED BY <1>1 DEF SideOf, SideAt

(* No rows add up to nothing.                                              *)
LEMMA EmptySide ==
  ASSUME p \in Settings, RowsOk
  PROVE  SideSums({}) = NoStats
<1>1. PICK z : z = ByTarget({})
  OBVIOUS
<1>2. DOMAIN z = Targets /\ \A t \in Targets : z[t] = NoStats
  <2>1. ASSUME NEW t \in Targets PROVE SumOf({}, t) = NoStats
    <3>1. Summable(GradientsOf(t), {}) /\ SumOf({}, t) = Total(GradientsOf(t), {})
      BY GradientsAre
    <3> QED BY <3>1, TotalOut
  <2> QED BY <1>1, <2>1 DEF ByTarget
<1>3. IsFiniteSet(Targets)
  <2>1. PICK k \in Int : k = p.targets /\ 1 \in Int
    BY SettingIs
  <2>2. IsFiniteSet(1 .. k)
    BY <2>1, FS_Interval
  <2> QED BY <2>1, <2>2 DEF Targets
<1>4. \A T \in SUBSET Targets : Summable(z, T)
  <2>1. NoStats \in StatSet
    BY DEF NoStats, Stats, StatSet
  <2> QED BY <1>2, <1>3, <2>1, FS_Subset DEF Summable
<1> DEFINE C == {T \in SUBSET Targets : Total(z, T) = NoStats}
<1>5. {} \in C
  BY <1>4, TotalOut
<1>6. ASSUME NEW T \in SUBSET Targets, NEW x \in Targets, T \in C, x \notin T PROVE T \cup {x} \in C
  <2>1. PICK U \in SUBSET Targets : U = T \cup {x} /\ U \ {x} = T /\ x \in U
    <3>1. (T \cup {x}) \ {x} = T
      BY <1>6
    <3> QED BY <1>6, <3>1
  <2>2. Total(z, U) = Add(z[x], Total(z, U \ {x}))
    BY <1>4, <2>1, TotalOut
  <2>3. Add(NoStats, NoStats) = NoStats
    BY DEF Add, NoStats, Stats
  <2> QED BY <1>2, <1>6, <2>1, <2>2, <2>3
<1>7. Targets \in C
  <2> HIDE DEF C
  <2> QED BY <1>3, <1>5, <1>6, FiniteSetInduction
<1> QED BY <1>1, <1>2, <1>7 DEF SideSums, SumTargets, ByTarget

(* So a parting that is allowed has rows on both sides that count.         *)
LEMMA AllowedSides ==
  ASSUME NEW n, NEW f, NEW L, PartingAllowed(n, f, L)
  PROVE  SideSums(L) # NoStats /\ SideSums(n.rows \ L) # NoStats
<1>1. PICK x : x = [f |-> f, left |-> SideSums(L), right |-> SideSums(n.rows \ L)]
  OBVIOUS
<1>2. IsFinite(n, x)
  BY <1>1 DEF PartingAllowed
<1>3. x.left.hess > 0 /\ x.right.hess > 0
  BY <1>2 DEF IsFinite, IsAllowed, IsValidSplit
<1>4. NoStats.hess = 0 /\ ~(0 > 0)
  BY DEF NoStats, Stats
<1> QED BY <1>1, <1>3, <1>4

(* Of categories there are no vector leaves.                               *)
LEMMA NoVectorCategories == p \in Settings /\ IsMulti => p.cat = {}
BY SettingAssumption, Zenon DEF IsMulti

(* A number's scans: their candidates at a bin, and when the second runs.  *)
UpOf(n, f, b) == IF IsMulti THEN UpToAll(n, f, b) ELSE UpTo(n, f, n.hists[1], b)
DownOf(n, f, b) == IF IsMulti THEN DownToAll(n, f, b) ELSE DownTo(n, f, n.hists[1], b)
Backs(n, f) ==
  IF IsMulti THEN SumTargets(SumsOver(n, ToSet(FeatureBins(f)))) # n.stats
  ELSE NonMissing(f, n.hists[1]) # n.stats
LEMMA NumberChoices ==
  ASSUME p \in Settings, NEW n, NEW f \in Features, f \notin p.cat
  PROVE  \A c : c \in ChoicesOf(n, f) <=>
           \E b \in ToSet(FeatureBins(f)) : c = UpOf(n, f, b) \/ (Backs(n, f) /\ c = DownOf(n, f, b))
<1>1. CASE IsMulti
  BY <1>1 DEF ChoicesOf, Vectors, UpOf, DownOf, Backs
<1>2. CASE ~IsMulti
  BY <1>2 DEF ChoicesOf, Numbers, UpOf, DownOf, Backs
<1> QED BY <1>1, <1>2

(* The sides they part a node's rows into.                                 *)
CutBefore(f, bins, b, cut) ==
  /\ f \notin p.cat /\ bins = ToSet(FeatureBins(f)) /\ b \in bins /\ cut \in Int
  /\ (b = CutPtr(f) /\ cut = -1) \/ (b # CutPtr(f) /\ cut = b - 1)
LEMMA CutSides ==
  ASSUME p \in Settings, RowsOk, NEW n, Sees(n), NEW f \in Features, NEW bins, NEW b, NEW cut,
         CutBefore(f, bins, b, cut)
  PROVE  /\ SideOf(n, UpOf(n, f, b)) = Without(n, f, After(bins, b))
         /\ SideOf(n, DownOf(n, f, b)) = With(n, f, After(bins, cut))
<1>0. PICK c \in Nat : /\ c = CutPtr(f) /\ f \notin p.cat /\ bins = ToSet(FeatureBins(f))
                       /\ b \in bins /\ cut \in Int
                       /\ (b = c /\ cut = -1) \/ (b # c /\ cut = b - 1)
  BY BinsOf DEF CutBefore
<1>1. PICK x, y : x = UpOf(n, f, b) /\ y = DownOf(n, f, b)
  OBVIOUS
<1>2. /\ x.f = f /\ ~x.is_cat /\ ~x.default_left /\ x.value = b
      /\ x.default_left \in BOOLEAN /\ y.default_left \in BOOLEAN
      /\ y.f = f /\ ~y.is_cat /\ y.default_left /\ y.value = BackwardSplitPoint(f, b)
  <2>1. CASE IsMulti
    <3>1. x = UpToAll(n, f, b) /\ y = DownToAll(n, f, b)
      BY <1>1, <2>1 DEF UpOf, DownOf
    <3>2. /\ OfferedAll(n, f, x) /\ ~x.default_left /\ x.value = b
          /\ OfferedAll(n, f, y) /\ y.default_left /\ y.value = BackwardSplitPoint(f, b)
      BY <1>0, <3>1, AllOffered
    <3> QED BY <3>2 DEF OfferedAll
  <2>2. CASE ~IsMulti
    <3>1. PICK hist \in Hists : hist = n.hists[1] /\ n.stats \in StatSet
      BY <2>2, SeesSums
    <3>2. x = UpTo(n, f, hist, b) /\ y = DownTo(n, f, hist, b)
      BY <1>1, <2>2, <3>1 DEF UpOf, DownOf
    <3>3. OfferedOne(n, hist, f, x) /\ ~x.is_cat /\ ~x.default_left /\ x.value = b
      BY <1>0, <3>1, <3>2, UpToIs
    <3>4. /\ OfferedOne(n, hist, f, y) /\ ~y.is_cat /\ y.default_left
          /\ y.value = BackwardSplitPoint(f, b)
      BY <1>0, <3>1, <3>2, DownToIs
    <3> QED BY <3>3, <3>4 DEF OfferedOne
  <2> QED BY <2>1, <2>2
<1>3. PICK k \in Nat \ {0} : k = p.bins /\ b \in c .. c + k - 1
  BY <1>0, BinsOf, SettingIs
<1>4. /\ FindSplitCondition(f, b) = b /\ b \in Int
      /\ FindSplitCondition(f, BackwardSplitPoint(f, b)) = IF b = c THEN -1 ELSE b - 1
  BY <1>0, <1>3, CutIs
<1>5. n.rows \in SUBSET (1 .. NumRows)
  BY DEF Sees
<1>6. SideOf(n, x) = Without(n, f, After(bins, b))
  <2>1. PICK R : R = After(bins, b)
    OBVIOUS
  <2>2. R = IF x.is_cat THEN x.bits ELSE After(bins, FindSplitCondition(f, x.value))
    BY <1>2, <1>4, <2>1
  <2>3. FindSplitCondition(f, x.value) \in Int /\ x.f = f
    BY <1>2, <1>4
  <2>4. SideOf(n, x) = SideAt(n, f, R, x.default_left)
    BY <1>0, <1>5, <2>2, <2>3, TestSide
  <2>5. x.default_left = FALSE
    BY <1>2
  <2> QED BY <2>1, <2>4, <2>5 DEF Without
<1>7. SideOf(n, y) = With(n, f, After(bins, cut))
  <2>1. PICK R : R = After(bins, cut)
    OBVIOUS
  <2>2. FindSplitCondition(f, y.value) = cut
    BY <1>0, <1>2, <1>4
  <2>3. R = IF y.is_cat THEN y.bits ELSE After(bins, FindSplitCondition(f, y.value))
    BY <1>2, <2>1, <2>2
  <2>4. FindSplitCondition(f, y.value) \in Int /\ y.f = f
    <3>1. y.f = f
      BY <1>2
    <3> QED BY <1>0, <2>2, <3>1
  <2>5. SideOf(n, y) = SideAt(n, f, R, y.default_left)
    BY <1>0, <1>5, <2>3, <2>4, TestSide
  <2>6. y.default_left = TRUE
    BY <1>2
  <2> QED BY <2>1, <2>5, <2>6 DEF With
<1> QED BY <1>1, <1>6, <1>7

(* The rows without a bin, of a vector leaf, count in a node's sums as they*)
(* do in its histograms.                                                   *)
LEMMA MissingIs ==
  ASSUME p \in Settings, RowsOk, NEW n, Sees(n), NEW f \in Features, IsMulti
  PROVE  MissingCount(n, f) <=> Backs(n, f)
<1>1. PICK S \in SUBSET (1 .. NumRows) : S = n.rows
  BY DEF Sees
<1>2. PICK all : all = ToSet(FeatureBins(f))
  OBVIOUS
<1>3. PICK A : A = RowsIn(S, f, all)
  OBVIOUS
<1>4. {r \in S : BinOf(r, f) # 0} = A
  <2>1. ASSUME NEW r \in S PROVE BinOf(r, f) # 0 <=> Holds(f, all, r)
    BY <1>2, RowBin DEF Holds
  <2> QED BY <1>3, <2>1 DEF RowsIn
<1>5. SumsOver(n, all) = ByTarget(A)
  <2>1. ASSUME NEW t \in Targets PROVE Total(n.hists[t], all) = SumOf(A, t)
    <3>1. n.hists[t] = Hist(S, t)
      BY <1>1 DEF Sees
    <3> QED BY <1>2, <1>3, <3>1, BinSums
  <2> QED BY <2>1 DEF SumsOver, ByTarget
<1>6. SideSums(A) = SumTargets(ByTarget(A))
  BY DEF SideSums, ByTarget
<1>7. MissingCount(n, f) <=> SideSums(A) # n.stats
  BY <1>1, <1>4 DEF MissingCount
<1> QED BY <1>2, <1>5, <1>6, <1>7 DEF Backs

(* A category's candidates part the rows as their categories do.           *)
LEMMA CategorySides ==
  ASSUME p \in Settings, RowsOk, ~IsMulti, NEW n, Sees(n), NEW f \in Features, f \in p.cat,
         NEW hist, hist = n.hists[1], NEW dl \in BOOLEAN
  PROVE  /\ \A b \in ToSet(FeatureBins(f)) :
              SideOf(n, One(n, f, hist, b, dl)) = SideAt(n, f, {b}, dl)
         /\ \A m : SideOf(n, Heads(n, f, hist, m, dl)) =
                     SideAt(n, f, SortedCategories(f, hist, m), dl)
<1>1. hist \in Hists /\ n.stats \in StatSet /\ n.rows \in SUBSET (1 .. NumRows)
  BY SeesSums DEF Sees
<1>2. ASSUME NEW e, e.f = f, e.is_cat, e.default_left = dl
      PROVE  SideOf(n, e) = SideAt(n, f, e.bits, dl)
  <2>1. PICK bins, R : bins = ToSet(FeatureBins(f)) /\ R = e.bits
    OBVIOUS
  <2>2. R = IF e.is_cat THEN e.bits ELSE After(bins, FindSplitCondition(f, e.value))
    BY <1>2, <2>1
  <2>3. SideOf(n, e) = SideAt(n, f, R, e.default_left)
    BY <1>1, <1>2, <2>1, <2>2, TestSide
  <2> QED BY <1>2, <2>1, <2>3
<1>3. ASSUME NEW b \in ToSet(FeatureBins(f))
      PROVE  SideOf(n, One(n, f, hist, b, dl)) = SideAt(n, f, {b}, dl)
  <2>1. PICK e : e = One(n, f, hist, b, dl)
    OBVIOUS
  <2>2. OfferedOne(n, hist, f, e) /\ e.is_cat /\ e.default_left = dl /\ e.bits = {b}
    BY <1>1, <2>1, OneIs
  <2>3. e.f = f
    BY <2>2 DEF OfferedOne
  <2> QED BY <1>2, <2>1, <2>2, <2>3
<1>4. ASSUME NEW m
      PROVE  SideOf(n, Heads(n, f, hist, m, dl)) = SideAt(n, f, SortedCategories(f, hist, m), dl)
  <2>1. PICK e : e = Heads(n, f, hist, m, dl)
    OBVIOUS
  <2>2. /\ OfferedOne(n, hist, f, e) /\ e.is_cat /\ e.default_left = dl
        /\ e.bits = SortedCategories(f, hist, m)
    BY <1>1, <2>1, HeadsIs
  <2>3. e.f = f
    BY <2>2 DEF OfferedOne
  <2> QED BY <1>2, <2>1, <2>2, <2>3
<1> QED BY <1>3, <1>4

(* The scans part a node's rows in ways they may be parted,                *)
LEMMA ChoiceParts ==
  ASSUME p \in Settings, RowsOk, NEW n, Sees(n), NEW f \in Features, NEW c \in ChoicesOf(n, f)
  PROVE  SideOf(n, c) \in Partings(n, f)
<1>1. PICK bins : bins = ToSet(FeatureBins(f))
  OBVIOUS
<1>2. CASE f \notin p.cat
  <2>1. PICK first \in Nat : first = CutPtr(f)
    BY BinsOf
  <2>2. \A b \in bins : b \in Int /\ (b # first => b - 1 \in bins)
    <3>1. PICK k \in Nat \ {0} : k = p.bins /\ bins = first .. first + k - 1
      BY <1>1, <2>1, BinsOf, SettingIs
    <3> QED BY <3>1
  <2>3. PICK b \in bins : c = UpOf(n, f, b) \/ (Backs(n, f) /\ c = DownOf(n, f, b))
    BY <1>1, <1>2, NumberChoices
  <2>4. PICK cut \in Int : CutBefore(f, bins, b, cut) /\ cut \in bins \cup {-1}
    BY <1>1, <1>2, <2>1, <2>2 DEF CutBefore
  <2>5. CASE c = UpOf(n, f, b)
    <3>1. SideOf(n, UpOf(n, f, b)) = Without(n, f, After(bins, b))
      BY <2>4, CutSides
    <3> QED BY <1>1, <1>2, <2>5, <3>1, NumberPartings
  <2>6. CASE Backs(n, f) /\ c = DownOf(n, f, b)
    <3>1. SideOf(n, DownOf(n, f, b)) = With(n, f, After(bins, cut))
      BY <2>4, CutSides
    <3>2. IsMulti => MissingCount(n, f)
      BY <2>6, MissingIs
    <3> QED BY <1>1, <1>2, <2>4, <2>6, <3>1, <3>2, NumberPartings
  <2> QED BY <2>3, <2>5, <2>6
<1>3. CASE f \in p.cat
  <2>1. ~IsMulti
    BY <1>3, NoVectorCategories
  <2>2. PICK hist : hist = n.hists[1] /\ hist \in Hists
    BY <2>1, SeesSums
  <2>3. c \in Categories(n, f, hist)
    BY <1>3, <2>1, <2>2 DEF ChoicesOf
  <2>4. CASE UseOneHot
    <3>1. PICK b \in bins : c = One(n, f, hist, b, TRUE) \/ c = One(n, f, hist, b, FALSE)
      BY <1>1, <2>3, <2>4 DEF Categories
    <3>2. PICK dl \in BOOLEAN : c = One(n, f, hist, b, dl)
      BY <3>1
    <3>3. SideOf(n, c) = SideAt(n, f, {b}, dl)
      BY <1>1, <1>3, <2>1, <2>2, <3>2, CategorySides
    <3>4. {b} \in RightBins(n, f, dl)
      BY <1>1, <1>3, <2>4, RightsAre
    <3> QED BY <2>1, <3>3, <3>4, PartingsAre
  <2>5. CASE ~UseOneHot
    <3>1. PICK k \in Nat \ {0} : k = p.bins
      BY SettingIs
    <3>2. Most \in Int /\ Most <= k - 1
      BY <3>1, SettingIs DEF Most, LesserOf
    <3>3. \/ \E s \in 1 .. Most : c = Heads(n, f, hist, s, TRUE)
          \/ \E s \in 1 .. Most : c = Heads(n, f, hist, k - s, FALSE)
      BY <2>3, <2>5, <3>1 DEF Categories
    <3>4. PICK dl \in BOOLEAN, m \in 0 .. k :
            /\ c = Heads(n, f, hist, m, dl)
            /\ (IF dl THEN m ELSE k - m) \in 1 .. Most
      <4>1. ASSUME NEW s \in 1 .. Most, c = Heads(n, f, hist, s, TRUE)
            PROVE  \E dl \in BOOLEAN, m \in 0 .. k : /\ c = Heads(n, f, hist, m, dl)
                                                    /\ (IF dl THEN m ELSE k - m) \in 1 .. Most
        <5>1. s \in 0 .. k
          BY <3>2
        <5> QED BY <4>1, <5>1
      <4>2. ASSUME NEW s \in 1 .. Most, c = Heads(n, f, hist, k - s, FALSE)
            PROVE  \E dl \in BOOLEAN, m \in 0 .. k : /\ c = Heads(n, f, hist, m, dl)
                                                    /\ (IF dl THEN m ELSE k - m) \in 1 .. Most
        <5>1. PICK m \in 0 .. k : m = k - s /\ k - m = s
          BY <3>2
        <5> QED BY <4>2, <5>1
      <4> QED BY <3>3, <4>1, <4>2
    <3>5. PICK R : R = SortedCategories(f, hist, m)
      OBVIOUS
    <3>6. SideOf(n, c) = SideAt(n, f, R, dl)
      BY <1>3, <2>1, <2>2, <3>4, <3>5, CategorySides
    <3>7. IsHead(hist, bins, R) /\ Cardinality(R) = m /\ IsFiniteSet(bins) /\ Cardinality(bins) = k
      BY <1>1, <2>2, <3>1, <3>4, <3>5, FirstIs
    <3>8. R \in SUBSET bins /\ Cardinality(bins \ R) = k - m
      <4>1. R \in SUBSET bins /\ bins \cap R = R
        BY <3>7 DEF IsHead
      <4> QED BY <3>7, <4>1, FS_Difference
    <3>9. Cardinality(IF dl THEN R ELSE bins \ R) \in 1 .. Most
      BY <3>4, <3>7, <3>8
    <3>10. R \in RightBins(n, f, dl)
      <4>1. RightBins(n, f, dl) = SomeHeads(hist, bins, dl)
        BY <1>1, <1>3, <2>2, <2>5, RightsAre
      <4> QED BY <3>7, <3>8, <3>9, <4>1 DEF SomeHeads
    <3> QED BY <2>1, <3>6, <3>10, PartingsAre
  <2> QED BY <2>4, <2>5
<1> QED BY <1>2, <1>3

(* A candidate whose sides add up to those of a parting.                   *)
Meets(n, c, L) ==
  /\ ByTarget(SideOf(n, c)) = ByTarget(L)
  /\ ByTarget(n.rows \ SideOf(n, c)) = ByTarget(n.rows \ L)

(* Where the rows without a bin do not count, a cut with them on the left  *)
(* is as good as one without them.                                         *)
LEMMA MissingSkipped ==
  ASSUME p \in Settings, RowsOk, ~IsMulti, NEW n, Sees(n), NEW f \in Features, ~Backs(n, f),
         NEW right
  PROVE  /\ ByTarget(With(n, f, right)) = ByTarget(Without(n, f, right))
         /\ ByTarget(n.rows \ With(n, f, right)) = ByTarget(n.rows \ Without(n, f, right))
<1>1. PICK S \in SUBSET (1 .. NumRows) : S = n.rows
  BY DEF Sees
<1>2. PICK all, N : all = ToSet(FeatureBins(f)) /\ N = S \ RowsIn(S, f, all)
  OBVIOUS
<1>3. SumOf(N, 1) = NoStats
  <2>1. PICK s \in StatSet : s = SumOf(S, 1) /\ s = n.stats
    BY <1>1, SeesSums
  <2>2. PICK A \in SUBSET S : A = RowsIn(S, f, all)
    BY DEF RowsIn
  <2>3. SumOf(A, 1) = s
    <3>1. 1 \in Targets /\ n.hists[1] = Hist(S, 1)
      BY <1>1, SeesSums, OneTarget
    <3>2. NonMissing(f, n.hists[1]) = s
      BY <2>1 DEF Backs
    <3>3. Total(Hist(S, 1), all) = SumOf(RowsIn(S, f, all), 1)
      BY <1>2, <3>1, BinSums
    <3> QED BY <1>2, <2>2, <3>1, <3>2, <3>3 DEF NonMissing
  <2>4. Subtract(SumOf(S, 1), SumOf(A, 1)) = SumOf(S \ A, 1)
    BY OneTarget, RowsRest
  <2>5. Subtract(s, s) = NoStats
    BY DEF Subtract, NoStats, Stats, StatSet
  <2> QED BY <1>2, <2>1, <2>2, <2>3, <2>4, <2>5
<1>4. PICK L, M : L = With(n, f, right) /\ M = Without(n, f, right)
  OBVIOUS
<1>5. L = M \cup N /\ M \cap N = {} /\ M \in SUBSET S /\ N \in SUBSET S
  <2>1. ASSUME NEW r \in S PROVE r \in N <=> BinOf(r, f) = 0
    BY <1>2, RowBin DEF RowsIn, Holds
  <2>2. N \in SUBSET S
    BY <1>2
  <2> QED BY <1>1, <1>4, <2>1, <2>2 DEF With, Without, SideAt
<1>6. SumOf(L, 1) = SumOf(M, 1)
  <2>1. 1 \in Targets /\ M \in SUBSET (1 .. NumRows) /\ N \in SUBSET (1 .. NumRows)
    BY <1>5, OneTarget
  <2>2. SumOf(M \cup N, 1) = Add(SumOf(M, 1), SumOf(N, 1))
    BY <1>5, <2>1, RowsJoin
  <2>3. PICK m \in StatSet : m = SumOf(M, 1)
    BY <2>1, RowSums
  <2>4. Add(m, NoStats) = m
    BY DEF Add, NoStats, Stats, StatSet
  <2> QED BY <1>3, <1>5, <2>2, <2>3, <2>4
<1>7. \A A \in SUBSET S : ByTarget(A) = <<SumOf(A, 1)>>
  BY OneTarget
<1>8. \A A \in SUBSET S : Subtract(SumOf(S, 1), SumOf(A, 1)) = SumOf(S \ A, 1)
  BY OneTarget, RowsRest
<1>9. L \in SUBSET S /\ S \ L \in SUBSET S /\ S \ M \in SUBSET S
  BY <1>5
<1>10. SumOf(S \ L, 1) = SumOf(S \ M, 1)
  BY <1>5, <1>6, <1>8, <1>9
<1> QED BY <1>1, <1>4, <1>5, <1>6, <1>7, <1>9, <1>10

(* and there is no way to part a node's rows on a number that could be     *)
(* allowed and has no candidate that meets it.                             *)
LEMMA NumberChosen ==
  ASSUME p \in Settings, RowsOk, NEW n, Sees(n), NEW f \in Features, f \notin p.cat,
         NEW L \in Partings(n, f), PartingAllowed(n, f, L)
  PROVE  \E c \in ChoicesOf(n, f) : Meets(n, c, L)
<1>12. PICK bins : bins = ToSet(FeatureBins(f))
  OBVIOUS
<1>13. PICK first \in Nat, k \in Nat \ {0} : first = CutPtr(f) /\ k = p.bins
  BY BinsOf, SettingIs
<1>11. /\ first = CutPtr(f) /\ k = p.bins /\ bins = ToSet(FeatureBins(f))
       /\ bins = first .. (first + k) - 1
  BY <1>12, <1>13, BinsOf
<1>2. n.rows \in SUBSET (1 .. NumRows)
  BY DEF Sees
<1>3. PICK cut \in bins \cup {-1} :
        \/ L = Without(n, f, After(bins, cut))
        \/ (IsMulti => MissingCount(n, f)) /\ L = With(n, f, After(bins, cut))
  BY <1>12, NumberPartings
<1>4. cut \in Int
  BY <1>11
<1>5. \A r \in n.rows : BinOf(r, f) # 0 => CutPtr(f) + BinOf(r, f) - 1 \in bins
  BY <1>11, <1>2, RowBin DEF Holds
<1>6. SideSums(L) # NoStats /\ SideSums(n.rows \ L) # NoStats /\ SideSums({}) = NoStats
  BY AllowedSides, EmptySide
<1>7. ASSUME NEW b \in bins
      PROVE  /\ UpOf(n, f, b) \in ChoicesOf(n, f)
             /\ SideOf(n, UpOf(n, f, b)) = Without(n, f, After(bins, b))
  <2>1. PICK x : CutBefore(f, bins, b, x)
    <3>1. (b = first /\ -1 \in Int) \/ (b # first /\ b - 1 \in Int)
      BY <1>11
    <3> QED BY <1>11, <3>1 DEF CutBefore
  <2>2. SideOf(n, UpOf(n, f, b)) = Without(n, f, After(bins, b))
    BY <2>1, CutSides
  <2> QED BY <1>12, <2>2, NumberChoices
<1>8. After(bins, -1) = bins
  BY <1>11 DEF After
<1>9. CASE L = Without(n, f, After(bins, cut))
  <2>1. CASE cut \in bins
    BY <1>7, <1>9, <2>1 DEF Meets
  <2>2. CASE cut = -1
    <3>1. L = {}
      BY <1>5, <1>8, <1>9, <2>2 DEF Without, SideAt
    <3> QED BY <1>6, <3>1
  <2> QED BY <2>1, <2>2
<1>10. CASE (IsMulti => MissingCount(n, f)) /\ L = With(n, f, After(bins, cut))
  <2>1. CASE cut = (first + k) - 1
    <3>1. After(bins, cut) = {}
      BY <1>11, <2>1 DEF After
    <3>2. n.rows \ L = {}
      BY <1>10, <3>1 DEF With, SideAt
    <3> QED BY <1>6, <3>2
  <2>2. CASE cut # (first + k) - 1 /\ Backs(n, f)
    <3>1. PICK b \in bins : CutBefore(f, bins, b, cut)
      <4>1. CASE cut = -1
        <5>1. first \in bins
          BY <1>11
        <5> QED BY <1>11, <1>4, <4>1, <5>1 DEF CutBefore
      <4>2. CASE cut # -1
        <5>1. cut + 1 \in bins /\ cut + 1 # first /\ cut = (cut + 1) - 1
          BY <1>11, <2>2, <4>2
        <5> QED BY <1>11, <1>4, <5>1 DEF CutBefore
      <4> QED BY <4>1, <4>2
    <3>2. SideOf(n, DownOf(n, f, b)) = With(n, f, After(bins, cut))
      BY <3>1, CutSides
    <3>3. DownOf(n, f, b) \in ChoicesOf(n, f)
      BY <1>11, <2>2, NumberChoices
    <3> QED BY <1>10, <3>2, <3>3 DEF Meets
  <2>3. CASE ~Backs(n, f)
    <3>1. ~IsMulti
      BY <1>10, <2>3, MissingIs
    <3>2. PICK A : A = After(bins, cut)
      OBVIOUS
    <3>3. /\ ByTarget(L) = ByTarget(Without(n, f, A))
          /\ ByTarget(n.rows \ L) = ByTarget(n.rows \ Without(n, f, A))
      BY <1>10, <2>3, <3>1, <3>2, MissingSkipped
    <3>4. CASE cut \in bins
      BY <1>7, <3>2, <3>3, <3>4 DEF Meets
    <3>5. CASE cut = -1
      <4>1. Without(n, f, A) = {}
        BY <1>5, <1>8, <3>2, <3>5 DEF Without, SideAt
      <4>2. SideSums(L) = SideSums({})
        BY <3>3, <4>1 DEF SideSums, ByTarget
      <4> QED BY <1>6, <4>2
    <3> QED BY <3>4, <3>5
  <2> QED BY <2>1, <2>2, <2>3
<1> QED BY <1>3, <1>9, <1>10

(* Nor on a category.                                                      *)
LEMMA CategoryChosen ==
  ASSUME p \in Settings, RowsOk, NEW n, Sees(n), NEW f \in Features, f \in p.cat,
         NEW L \in Partings(n, f)
  PROVE  \E c \in ChoicesOf(n, f) : Meets(n, c, L)
<1>1. ~IsMulti
  BY NoVectorCategories
<1>2. PICK hist, bins : hist = n.hists[1] /\ hist \in Hists /\ bins = ToSet(FeatureBins(f))
  BY <1>1, SeesSums
<1>3. ChoicesOf(n, f) = Categories(n, f, hist)
  BY <1>1, <1>2 DEF ChoicesOf
<1>4. PICK dl \in BOOLEAN : \E R \in RightBins(n, f, dl) : L = SideAt(n, f, R, dl)
  BY PartingsAre
<1>5. PICK R \in RightBins(n, f, dl) : L = SideAt(n, f, R, dl)
  BY <1>4
<1>6. CASE UseOneHot
  <2>1. PICK b \in bins : R = {b}
    BY <1>2, <1>5, <1>6, RightsAre
  <2>2. SideOf(n, One(n, f, hist, b, dl)) = SideAt(n, f, {b}, dl)
    BY <1>1, <1>2, CategorySides
  <2>3. One(n, f, hist, b, dl) \in Categories(n, f, hist)
    <3>1. CASE dl
      <4>1. dl = TRUE
        BY <3>1
      <4> QED BY <1>2, <1>6, <4>1 DEF Categories
    <3>2. CASE ~dl
      <4>1. dl = FALSE
        BY <3>2
      <4> QED BY <1>2, <1>6, <4>1 DEF Categories
    <3> QED BY <3>1, <3>2
  <2> QED BY <1>3, <1>5, <2>1, <2>2, <2>3 DEF Meets
<1>7. CASE ~UseOneHot
  <2>1. PICK k \in Nat \ {0} : k = p.bins
    BY SettingIs
  <2>2. R \in SomeHeads(hist, bins, dl)
    BY <1>2, <1>5, <1>7, RightsAre
  <2>3. IsHead(hist, bins, R) /\ R \in SUBSET bins /\ bins \cap R = R
    BY <2>2 DEF SomeHeads
  <2>4. IsFiniteSet(bins) /\ Cardinality(bins) = k
    BY <1>2, <2>1, FirstIs
  <2>5. PICK m \in Nat : m = Cardinality(R) /\ Cardinality(bins \ R) = k - m
    BY <2>3, <2>4, FS_Subset, FS_Difference, FS_CardinalityType
  <2>6. SortedCategories(f, hist, m) = R
    BY <1>2, <2>3, <2>5, FirstIs
  <2>7. (IF dl THEN m ELSE k - m) \in 1 .. Most
    BY <2>2, <2>5 DEF SomeHeads
  <2>8. SideOf(n, Heads(n, f, hist, m, dl)) = SideAt(n, f, R, dl)
    BY <1>1, <1>2, <2>6, CategorySides
  <2>9. Heads(n, f, hist, m, dl) \in Categories(n, f, hist)
    <3>1. CASE dl
      <4>1. dl = TRUE /\ m \in 1 .. Most
        BY <2>7, <3>1
      <4> QED BY <1>7, <4>1 DEF Categories
    <3>2. CASE ~dl
      <4>1. PICK s \in 1 .. Most : s = k - m
        BY <2>7, <3>2
      <4>2. dl = FALSE /\ m = k - s
        BY <2>5, <3>2, <4>1
      <4> QED BY <1>7, <2>1, <4>2 DEF Categories
    <3> QED BY <3>1, <3>2
  <2> QED BY <1>3, <1>5, <2>8, <2>9 DEF Meets
<1> QED BY <1>6, <1>7

(* So a parting that is allowed has a candidate of its gain.               *)
LEMMA PartingChosen ==
  ASSUME p \in Settings, RowsOk, NEW n, Weighable(n), NEW f \in Features,
         NEW L \in Partings(n, f), PartingAllowed(n, f, L)
  PROVE  \E c \in ChoicesOf(n, f) : Priced(n, f, c, L)
<1>1. Sees(n)
  BY DEF Weighable
<1>2. PICK c \in ChoicesOf(n, f) : Meets(n, c, L)
  BY <1>1, NumberChosen, CategoryChosen
<1>3. Offered(n, f, c)
  BY <1>1, SeesSums, ChoicesOffered
<1>4. PICK M : M = SideOf(n, c) /\ Priced(n, f, c, M)
  BY <1>3, OfferPriced
<1> QED BY <1>2, <1>4, SamePrice DEF Meets

(* What a node's partings gain.                                            *)
LEMMA GainsAre ==
  ASSUME NEW n, NEW g
  PROVE  g \in GainsOf(n) <=>
           \E f \in Features : \E L \in Partings(n, f) :
             /\ Query(n, f) /\ PartingAllowed(n, f, L)
             /\ g = Minus(PartingGain(n, L), GainBefore(n))
<1> DEFINE Allowed(f) == {S \in Partings(n, f) : PartingAllowed(n, f, S)}
           Gain(L) == Minus(PartingGain(n, L), GainBefore(n))
           some == UNION {Allowed(f) : f \in {h \in Features : Query(n, h)}}
<1>1. GainsOf(n) = {Gain(L) : L \in some}
  BY DEF GainsOf
<1> HIDE DEF Gain
<1>2. \A L : L \in some <=> \E f \in Features : Query(n, f) /\ L \in Allowed(f)
  OBVIOUS
<1> HIDE DEF some
<1>3. g \in GainsOf(n) <=> \E L \in some : g = Gain(L)
  BY <1>1
<1> QED BY <1>2, <1>3 DEF Gain

(* A split that gains the most of all that a node may be parted by.        *)
GainsMost(n, e) ==
  /\ \A g \in GainsOf(n) : AtMost(g, e.chg)
  /\ Found(e) => e.chg \in GainsOf(n)

(* The one that a node's search finds does.                                *)
LEMMA NodeBest ==
  ASSUME p \in Settings, RowsOk, NEW n, Weighable(n), NEW e, e = EvaluateSplits(n)
  PROVE  GainsMost(n, e)
<1>1. Sees(n)
  BY DEF Weighable
<1>2. ASSUME NEW f \in Features, NEW c \in ChoicesOf(n, f)
      PROVE  c.chg \in Q /\ (Query(n, f) /\ IsFinite(n, c) => c.chg \in GainsOf(n))
  <2>1. Offered(n, f, c)
    BY <1>1, SeesSums, ChoicesOffered
  <2>2. PICK L : L = SideOf(n, c) /\ L \in Partings(n, f) /\ Priced(n, f, c, L)
    BY <1>1, <2>1, OfferPriced, ChoiceParts
  <2>3. PICK g : g = c.chg
    OBVIOUS
  <2>4. /\ g \in Q /\ g = Minus(PartingGain(n, L), GainBefore(n))
        /\ IsFinite(n, c) <=> PartingAllowed(n, f, L)
    BY <2>2, <2>3 DEF Priced
  <2> QED BY <2>2, <2>3, <2>4, GainsAre
<1>3. Zero \in Q /\ NoSplit.chg = Zero /\ LE(Zero, Zero)
  BY FractionArithmetic, Ordered DEF NoSplit
<1>4. ASSUME NEW f \in Features, NEW s, s = Evaluate(n, f)
      PROVE  /\ s.chg \in Q /\ (s # NoSplit => s.chg \in GainsOf(n))
             /\ Query(n, f) => \A c \in ChoicesOf(n, f) : IsFinite(n, c) => LE(c.chg, s.chg)
  <2>1. CASE ~Query(n, f)
    <3>1. s = NoSplit
      BY <1>4, <2>1 DEF Evaluate, EvaluateOne, EvaluateOneMulti
    <3> QED BY <1>3, <2>1, <3>1
  <2>2. CASE Query(n, f)
    <3>1. PICK C : C = ChoicesOf(n, f) /\ BestOf(n, C, s)
      BY <1>4, <2>2, EvaluateBest
    <3>2. \A c \in C : c.chg \in Q /\ (IsFinite(n, c) => c.chg \in GainsOf(n))
      BY <1>2, <2>2, <3>1
    <3> QED BY <3>1, <3>2 DEF BestOf
  <2> QED BY <2>1, <2>2
<1>5. e.chg \in Q /\ LE(Zero, e.chg) /\ \A f \in Features : LE(Evaluate(n, f).chg, e.chg)
  BY <1>4, EvaluateSplitsBest
<1>6. ASSUME NEW g \in GainsOf(n) PROVE AtMost(g, e.chg)
  <2>7. PICK f \in Features : \E L \in Partings(n, f) :
          /\ Query(n, f) /\ PartingAllowed(n, f, L)
          /\ g = Minus(PartingGain(n, L), GainBefore(n))
    BY GainsAre
  <2>1. PICK L \in Partings(n, f) :
          /\ Query(n, f) /\ PartingAllowed(n, f, L)
          /\ g = Minus(PartingGain(n, L), GainBefore(n))
    BY <2>7
  <2>2. PICK c \in ChoicesOf(n, f) : Priced(n, f, c, L)
    BY <2>1, PartingChosen
  <2>3. c.chg = g /\ g \in Q /\ IsFinite(n, c)
    BY <2>1, <2>2 DEF Priced
  <2>4. PICK s : s = Evaluate(n, f)
    OBVIOUS
  <2>5. s.chg \in Q /\ LE(g, s.chg) /\ LE(s.chg, e.chg)
    BY <1>4, <1>5, <2>1, <2>3, <2>4
  <2>6. LE(g, e.chg)
    BY <1>5, <2>3, <2>5, Ordered
  <2> QED BY <1>5, <2>3, <2>6, ComparedAs
<1>7. Found(e) => e.chg \in GainsOf(n)
  <2>1. Found(e) => e # NoSplit
    BY <1>3, ComparedAs DEF Found
  <2> QED BY <1>4, <2>1, EvaluateSplitsIs
<1> QED BY <1>6, <1>7 DEF GainsMost

-----------------------------------------------------------------------------
(* New nodes.                                                              *)

(* A node's fields are these.                                              *)
Node(S, hists, sums, stats, root_gain, lower, upper, weight, allowed, path, left, right, best) ==
  [rows |-> S, hists |-> hists, sums |-> sums, stats |-> stats, root_gain |-> root_gain,
   lower |-> lower, upper |-> upper, weight |-> weight, allowed |-> allowed, path |-> path,
   left |-> left, right |-> right, best |-> best]
IsNode(n) ==
  \E S, hists, sums, stats, root_gain, lower, upper, weight, allowed, path, left, right, best :
    n = Node(S, hists, sums, stats, root_gain, lower, upper, weight, allowed, path, left, right,
             best)

(* What a split and the nodes below it depend on.                          *)
SameSums(m, n) ==
  m.rows = n.rows /\ m.hists = n.hists /\ m.sums = n.sums /\ m.stats = n.stats
SameNode(m, n) ==
  /\ SameSums(m, n) /\ m.lower = n.lower /\ m.upper = n.upper /\ m.weight = n.weight
  /\ m.allowed = n.allowed /\ m.path = n.path /\ m.best = n.best
SameGain(m, n) ==
  /\ SameSums(m, n) /\ m.root_gain = n.root_gain
  /\ m.lower = n.lower /\ m.upper = n.upper /\ m.allowed = n.allowed
Summed(n) == Sees(n) /\ (n.best = NoSplit \/ AddsUp(n, n.best))
Searched(n) == Weighable(n) => GainsMost(n, n.best)
HasBest(n) == n.best = NoSplit \/ \E f \in Features : IsSplit(n, f, n.best)

(* Splits do not depend on the rest of a node.                             *)
LEMMA SameSplits ==
  ASSUME NEW m, NEW n, SameNode(m, n), HasBest(n)
  PROVE  HasBest(m)
<1>1. CASE n.best = NoSplit
  BY <1>1 DEF SameNode, HasBest
<1>2. ASSUME NEW f \in Features, IsSplit(n, f, n.best) PROVE IsSplit(m, f, m.best)
  <2>1. m.best = n.best /\ m.allowed = n.allowed /\ m.lower = n.lower /\ m.upper = n.upper
    BY DEF SameNode
  <2>2. Query(m, f) <=> Query(n, f)
    BY <2>1 DEF Query
  <2>3. \A s : CalcWeight(m, s) = CalcWeight(n, s)
    BY <2>1 DEF CalcWeight
  <2>4. \A l, r : IsAllowed(m, f, l, r) <=> IsAllowed(n, f, l, r)
    BY <2>3 DEF IsAllowed
  <2> QED BY <1>2, <2>1, <2>2, <2>4 DEF IsSplit
<1> QED BY <1>1, <1>2 DEF HasBest

(* Nor do sums.                                                            *)
LEMMA SameSummed ==
  ASSUME NEW m, NEW n, SameSums(m, n)
  PROVE  /\ Sees(n) => Sees(m)
         /\ \A e : AddsUp(n, e) => AddsUp(m, e)
         /\ m.best = n.best /\ Summed(n) => Summed(m)
<1>1. m.rows = n.rows /\ m.hists = n.hists /\ m.sums = n.sums /\ m.stats = n.stats
  BY DEF SameSums
<1>2. Sees(n) => Sees(m)
  BY <1>1 DEF Sees
<1>3. ASSUME NEW e, AddsUp(n, e) PROVE AddsUp(m, e)
  <2>1. ChildSums(m, e) = ChildSums(n, e)
    BY <1>1 DEF ChildSums, MultiChildSums
  <2>2. SideOf(m, e) = SideOf(n, e)
    BY <1>1 DEF SideOf
  <2> QED BY <1>1, <1>3, <2>1, <2>2 DEF AddsUp
<1> QED BY <1>2, <1>3 DEF Summed

(* Nor does what can be gained.                                            *)
LEMMA SameGains ==
  ASSUME NEW m, NEW n, SameGain(m, n)
  PROVE  /\ Weighable(n) => Weighable(m)
         /\ \A e : GainsMost(n, e) => GainsMost(m, e)
<1>1. /\ m.rows = n.rows /\ m.hists = n.hists /\ m.sums = n.sums /\ m.stats = n.stats
      /\ m.root_gain = n.root_gain /\ m.lower = n.lower /\ m.upper = n.upper
      /\ m.allowed = n.allowed
  BY DEF SameGain, SameSums
<1>2. Weighable(n) => Weighable(m)
  BY <1>1 DEF Weighable, Sees, Boxed
<1>3. \A s : CalcWeight(m, s) = CalcWeight(n, s) /\ CalcGain(m, s) = CalcGain(n, s)
  BY <1>1 DEF CalcWeight, CalcGain
<1>4. \A sums : MultiGain(m, sums) = MultiGain(n, sums)
  BY <1>3 DEF MultiGain
<1>5. \A sums : NodeGain(m, sums) = NodeGain(n, sums)
  BY <1>3, <1>4 DEF NodeGain
<1>6. GainBefore(m) = GainBefore(n) /\ \A L : PartingGain(m, L) = PartingGain(n, L)
  BY <1>1, <1>4, <1>5 DEF GainBefore, PartingGain
<1>7. \A c : IsFinite(m, c) <=> IsFinite(n, c)
  BY <1>3 DEF IsFinite, IsAllowed
<1>8. \A f, L : PartingAllowed(m, f, L) <=> PartingAllowed(n, f, L)
  BY <1>1, <1>7 DEF PartingAllowed
<1>9. \A f : Query(m, f) <=> Query(n, f)
  BY <1>1 DEF Query
<1>10. \A f : Partings(m, f) = Partings(n, f)
  <2>1. \A f : MissingCount(m, f) <=> MissingCount(n, f)
    BY <1>1 DEF MissingCount
  <2>2. \A f, R, dl : SideAt(m, f, R, dl) = SideAt(n, f, R, dl)
    BY <1>1 DEF SideAt
  <2>3. \A f, dl : RightBins(m, f, dl) = RightBins(n, f, dl)
    BY <1>1 DEF RightBins
  <2> QED BY <2>1, <2>2, <2>3 DEF Partings
<1>11. \A g : g \in GainsOf(m) <=> g \in GainsOf(n)
  BY <1>6, <1>8, <1>9, <1>10, GainsAre
<1> QED BY <1>2, <1>11 DEF GainsMost

(* A node that has been searched is as it was made, with its split.        *)
LEMMA EvaluatedIs ==
  ASSUME NEW n, IsNode(n)
  PROVE  /\ IsNode(Evaluated(n))
         /\ Evaluated(n).best = EvaluateSplits(n)
         /\ SameSums(Evaluated(n), n) /\ Evaluated(n).lower = n.lower
         /\ Evaluated(n).root_gain = n.root_gain
         /\ Evaluated(n).upper = n.upper /\ Evaluated(n).weight = n.weight
         /\ Evaluated(n).allowed = n.allowed /\ Evaluated(n).path = n.path
         /\ Evaluated(n).left = n.left /\ Evaluated(n).right = n.right
<1>1. PICK S, hists, sums, stats, root_gain, lower, upper, weight, allowed, path, left, right,
           best :
        n = Node(S, hists, sums, stats, root_gain, lower, upper, weight, allowed, path, left,
                 right, best)
  BY DEF IsNode
<1>2. PICK e : e = EvaluateSplits(n)
  OBVIOUS
<1>3. Evaluated(n) = Node(S, hists, sums, stats, root_gain, lower, upper, weight, allowed, path,
                          left, right, e)
  BY <1>1, <1>2 DEF Evaluated, Node
<1>4. IsNode(Evaluated(n))
  BY <1>3 DEF IsNode
<1>5. PICK m : m = Evaluated(n)
  OBVIOUS
<1>8. m = [rows |-> S, hists |-> hists, sums |-> sums, stats |-> stats, root_gain |-> root_gain,
           lower |-> lower, upper |-> upper, weight |-> weight, allowed |-> allowed,
           path |-> path, left |-> left, right |-> right, best |-> e]
  BY <1>3, <1>5 DEF Node
<1>6. /\ m.best = e /\ m.rows = S /\ m.hists = hists /\ m.sums = sums /\ m.stats = stats
      /\ m.root_gain = root_gain /\ m.lower = lower /\ m.upper = upper /\ m.weight = weight
      /\ m.allowed = allowed /\ m.path = path /\ m.left = left /\ m.right = right
  BY <1>8
<1>7. /\ n.rows = S /\ n.hists = hists /\ n.sums = sums /\ n.stats = stats
      /\ n.root_gain = root_gain /\ n.lower = lower /\ n.upper = upper /\ n.weight = weight
      /\ n.allowed = allowed /\ n.path = path /\ n.left = left /\ n.right = right
  BY <1>1 DEF Node
<1> QED BY <1>2, <1>4, <1>5, <1>6, <1>7 DEF SameSums

Relinked(m, n, a, b) == m = [n EXCEPT !.left = a, !.right = b]
Weighed(m, n, a, b) == m = [n EXCEPT !.root_gain = a, !.weight = b]

(* A node that knows its children is otherwise the same.                   *)
LEMMA Linked ==
  ASSUME NEW n, IsNode(n), NEW a, NEW b, NEW m, Relinked(m, n, a, b)
  PROVE  IsNode(m) /\ SameNode(m, n) /\ SameGain(m, n) /\ m.left = a /\ m.right = b
<1>1. PICK S, hists, sums, stats, root_gain, lower, upper, weight, allowed, path, left, right,
           best :
        n = Node(S, hists, sums, stats, root_gain, lower, upper, weight, allowed, path, left,
                 right, best)
  BY DEF IsNode
<1>2. m = Node(S, hists, sums, stats, root_gain, lower, upper, weight, allowed, path, a, b, best)
  BY <1>1 DEF Node, Relinked
<1>3. IsNode(m)
  BY <1>2 DEF IsNode
<1> QED BY <1>1, <1>2, <1>3 DEF Node, SameNode, SameSums, SameGain

(* A node with another gain and weight is otherwise the same.              *)
LEMMA Reweighed ==
  ASSUME NEW n, IsNode(n), NEW a, NEW b, NEW m, Weighed(m, n, a, b)
  PROVE  /\ IsNode(m) /\ SameSums(m, n) /\ m.lower = n.lower /\ m.upper = n.upper
         /\ m.root_gain = a /\ m.weight = b /\ m.allowed = n.allowed /\ m.path = n.path
         /\ m.left = n.left /\ m.right = n.right
<1>1. PICK S, hists, sums, stats, root_gain, lower, upper, weight, allowed, path, left, right,
           best :
        n = Node(S, hists, sums, stats, root_gain, lower, upper, weight, allowed, path, left,
                 right, best)
  BY DEF IsNode
<1>2. m = Node(S, hists, sums, stats, a, lower, upper, b, allowed, path, left, right, best)
  BY <1>1 DEF Node, Weighed
<1>3. IsNode(m)
  BY <1>2 DEF IsNode
<1> QED BY <1>1, <1>2, <1>3 DEF Node, SameSums

(* A searched leaf has a split that is allowed, and the best, or none.     *)
LEMMA LeafHasBest ==
  ASSUME p \in Settings, RowsOk, NEW n, IsNode(n), Sees(n)
  PROVE  HasBest(Evaluated(n)) /\ Summed(Evaluated(n)) /\ Searched(Evaluated(n))
<1>1. PICK m : m = [n EXCEPT !.best = EvaluateSplits(n)] /\ m = Evaluated(n)
  BY DEF Evaluated
<1>2. m.best = EvaluateSplits(n) /\ m.allowed = n.allowed /\ m.lower = n.lower
      /\ m.upper = n.upper /\ m.root_gain = n.root_gain /\ SameSums(m, n)
  BY <1>1, EvaluatedIs
<1>3. ASSUME NEW f, NEW e PROVE IsSplit(n, f, e) => IsSplit(m, f, e)
  <2>1. Query(m, f) <=> Query(n, f)
    BY <1>2 DEF Query
  <2>2. \A s : CalcWeight(m, s) = CalcWeight(n, s)
    BY <1>2 DEF CalcWeight
  <2>3. \A l, r : IsAllowed(m, f, l, r) <=> IsAllowed(n, f, l, r)
    BY <2>2 DEF IsAllowed
  <2> QED BY <2>1, <2>3 DEF IsSplit
<1>4. m.best = NoSplit \/ Told(n, m.best)
  BY <1>2, FoundIs, SeesSums
<1>5. HasBest(m)
  BY <1>3, <1>4 DEF HasBest, Told
<1>6. Summed(m)
  <2>1. Sees(m) /\ \A e : AddsUp(n, e) => AddsUp(m, e)
    BY <1>2, SameSummed
  <2>2. m.best = NoSplit \/ AddsUp(n, m.best)
    BY <1>4, ToldAddsUp
  <2> QED BY <2>1, <2>2 DEF Summed
<1>7. Searched(m)
  <2>1. SameGain(m, n) /\ SameGain(n, m)
    BY <1>2 DEF SameGain, SameSums
  <2>2. Weighable(m) => GainsMost(n, m.best)
    BY <1>2, <2>1, SameGains, NodeBest
  <2> QED BY <2>1, <2>2, SameGains DEF Searched
<1> QED BY <1>1, <1>5, <1>6, <1>7

(* A leaf over some rows, with their sums.                                 *)
LEMMA LeafIs ==
  ASSUME p \in Settings, RowsOk, NEW S \in SUBSET (1 .. NumRows), NEW sums, sums = ByTarget(S),
         NEW root_gain, NEW lower, NEW upper, NEW weight, NEW allowed, NEW path, NEW n,
         n = Leaf(S, sums, root_gain, lower, upper, weight, allowed, path)
  PROVE  /\ IsNode(n) /\ n.rows = S /\ n.lower = lower /\ n.upper = upper
         /\ n.weight = weight /\ n.allowed = allowed /\ n.path = path
         /\ n.left = 0 /\ n.right = 0 /\ n.root_gain = root_gain
         /\ Sees(n)
<1>1. PICK hists, stats : hists = [t \in Targets |-> Hist(S, t)] /\ stats = SumTargets(sums)
  OBVIOUS
<1>2. n = Node(S, hists, sums, stats, root_gain, lower, upper, weight, allowed, path, 0, 0, NoSplit)
  BY <1>1 DEF Leaf, Node
<1>3. IsNode(n)
  BY <1>2 DEF IsNode
<1>4. n.rows = S /\ n.hists = hists /\ n.sums = sums /\ n.stats = stats
  BY <1>2 DEF Node
<1>5. Sees(n)
  BY <1>1, <1>4 DEF Sees
<1> QED BY <1>2, <1>3, <1>5 DEF Node

-----------------------------------------------------------------------------
(* The invariant.                                                          *)

(* The tree is a sequence of nodes over rows of the root, each with its    *)
(* allowed split or none.                                                  *)
TreeInv ==
  /\ p \in Settings /\ RowsOk
  /\ \E X : tree \in Seq(X)
  /\ \A i \in DOMAIN tree : /\ IsNode(tree[i]) /\ HasBest(tree[i]) /\ Summed(tree[i])

Children(i) == {tree[i].left, tree[i].right}

(* Children come in pairs, after their parent; but the root every node is  *)
(* a child of one node.                                                    *)
LinksInv ==
  /\ \A i \in DOMAIN tree :
       \/ tree[i].left = 0 /\ tree[i].right = 0
       \/ /\ tree[i].left \in DOMAIN tree /\ tree[i].right \in DOMAIN tree
          /\ tree[i].left > i /\ tree[i].right > i /\ tree[i].best # NoSplit
  /\ \A c \in DOMAIN tree : c # 1 => \E i \in DOMAIN tree : i < c /\ c \in Children(i)
  /\ \A i, j \in DOMAIN tree : Children(i) \cap Children(j) \cap DOMAIN tree # {} => i = j

Split(i) == tree[i].left # 0

(* A path is the features split on above, and the features a node may      *)
(* split on follow from it.                                                *)
Within(path) ==
  \/ path = {}
  \/ \E f : path = {f}
  \/ \E g \in p.interaction : path \subseteq g
PathInv ==
  /\ \A i \in DOMAIN tree :
       /\ tree[i].allowed = IF tree[i].path = {} THEN Features
                            ELSE tree[i].path \cup UNION {g \in p.interaction :
                                                            tree[i].path \subseteq g}
       /\ p.interaction # {} => Within(tree[i].path)
       /\ i = 1 => tree[i].path = {}
  /\ \A i \in DOMAIN tree : \A c \in Children(i) \cap DOMAIN tree :
       tree[c].path = tree[i].path \cup {tree[i].best.f}

(* Weights are in their boxes, and the boxes of children are parts of      *)
(* their parent's, the one beside the other.                               *)
InBox(n) ==
  /\ Boxed(n) /\ n.weight \in Q
  /\ LE(n.lower, n.upper) /\ LE(n.lower, n.weight) /\ LE(n.weight, n.upper)
Inside(m, n) == LE(n.lower, m.lower) /\ LE(m.upper, n.upper)
Parted(l, r, f) ==
  /\ p.monotone[f + 1] > 0 => LE(l.upper, r.lower)
  /\ p.monotone[f + 1] < 0 => LE(r.upper, l.lower)
BoxInv ==
  ~IsMulti /\ HasConstraint =>
    /\ \A i \in DOMAIN tree : InBox(tree[i])
    /\ \A i \in DOMAIN tree : Split(i) =>
         /\ Inside(tree[tree[i].left], tree[i]) /\ Inside(tree[tree[i].right], tree[i])
         /\ Parted(tree[tree[i].left], tree[tree[i].right], tree[i].best.f)

SearchInv == TreeInv /\ LinksInv /\ PathInv /\ BoxInv

(* What is found by Found is a split.                                      *)
LEMMA FoundSplit ==
  ASSUME NEW n, HasBest(n), Found(n.best)
  PROVE  n.best # NoSplit /\ \E f \in Features : IsSplit(n, f, n.best)
<1>1. Zero \in Q /\ LE(Zero, Zero)
  BY DEF Zero, Q, LE
<1>2. ~Below(Zero, Zero)
  BY <1>1, ComparedAs
<1>3. ~Found(NoSplit)
  BY <1>2 DEF Found, NoSplit
<1> QED BY <1>3 DEF HasBest

(* The boxes of a split's children.                                        *)
LEMMA Boxes ==
  ASSUME p \in Settings, NEW n, InBox(n), NEW f \in Features,
         NEW wl \in Q, NEW wr \in Q, RightOrder(f, wl, wr), HasConstraint,
         LE(n.lower, wl), LE(wl, n.upper), LE(n.lower, wr), LE(wr, n.upper),
         NEW l, NEW r, NEW b, b = AddSplit(n, f, wl, wr),
         l.lower = b.left[1], l.upper = b.left[2], l.weight = wl,
         r.lower = b.right[1], r.upper = b.right[2], r.weight = wr
  PROVE  InBox(l) /\ InBox(r) /\ Inside(l, n) /\ Inside(r, n) /\ Parted(l, r, f)
<1>1. n.lower \in Q /\ n.upper \in Q /\ LE(n.lower, n.upper)
  BY DEF InBox, Boxed
<1>2. PICK c, mid : c = p.monotone[f + 1] /\ mid = Frac(Plus(wl, wr)[1], 2 * Plus(wl, wr)[2])
  OBVIOUS
<1>3. c \in {-1, 0, 1}
  <2>1. f + 1 \in 1 .. p.features
    BY SettingIs DEF Features
  <2> QED BY <1>2, <2>1, SettingIs
<1>4. b = [left |-> <<IF c < 0 THEN mid ELSE n.lower, IF c > 0 THEN mid ELSE n.upper>>,
           right |-> <<IF c > 0 THEN mid ELSE n.lower, IF c < 0 THEN mid ELSE n.upper>>]
  BY <1>2 DEF AddSplit
<1>5. /\ l.lower = (IF c < 0 THEN mid ELSE n.lower) /\ l.upper = (IF c > 0 THEN mid ELSE n.upper)
      /\ r.lower = (IF c > 0 THEN mid ELSE n.lower) /\ r.upper = (IF c < 0 THEN mid ELSE n.upper)
  BY <1>4
<1>6. /\ c > 0 => LE(wl, wr)
      /\ c < 0 => LE(wr, wl)
  BY <1>2, ComparedAs DEF RightOrder
<1>7. /\ LE(n.lower, n.lower) /\ LE(n.upper, n.upper)
  BY <1>1, Ordered
<1>8. CASE c = 0
  <2>1. l.lower = n.lower /\ l.upper = n.upper /\ r.lower = n.lower /\ r.upper = n.upper
    BY <1>5, <1>8
  <2> QED BY <1>1, <1>2, <1>7, <1>8, <2>1 DEF InBox, Boxed, Inside, Parted
<1>9. CASE c > 0
  <2>1. mid \in Q /\ LE(wl, mid) /\ LE(mid, wr)
    BY <1>2, <1>6, <1>9, Between
  <2>2. l.lower = n.lower /\ l.upper = mid /\ r.lower = mid /\ r.upper = n.upper
    BY <1>3, <1>5, <1>9
  <2>3. LE(n.lower, mid) /\ LE(mid, n.upper) /\ LE(mid, mid)
    BY <1>1, <2>1, Ordered
  <2>4. ~(p.monotone[f + 1] < 0)
    BY <1>2, <1>3, <1>9
  <2> QED BY <1>1, <1>7, <2>1, <2>2, <2>3, <2>4 DEF InBox, Boxed, Inside, Parted
<1>10. CASE c < 0
  <2>1. mid \in Q /\ LE(wr, mid) /\ LE(mid, wl)
    <3>1. Plus(wl, wr) = Plus(wr, wl)
      BY PlusEither
    <3> QED BY <1>2, <1>6, <1>10, <3>1, Between
  <2>2. l.lower = mid /\ l.upper = n.upper /\ r.lower = n.lower /\ r.upper = mid
    BY <1>3, <1>5, <1>10
  <2>3. LE(n.lower, mid) /\ LE(mid, n.upper) /\ LE(mid, mid)
    BY <1>1, <2>1, Ordered
  <2>4. ~(p.monotone[f + 1] > 0)
    BY <1>2, <1>3, <1>10
  <2> QED BY <1>1, <1>7, <2>1, <2>2, <2>3, <2>4 DEF InBox, Boxed, Inside, Parted
<1> QED BY <1>3, <1>8, <1>9, <1>10

-----------------------------------------------------------------------------
(* Steps.                                                                  *)

(* A tree split at one node: the node knows its children, which are last.  *)
SplitAt(nid, k, lc, rc) ==
  /\ nid \in 1 .. k /\ DOMAIN tree = 1 .. k /\ DOMAIN tree' = 1 .. k + 2
  /\ \E X : tree' \in Seq(X)
  /\ \A i \in 1 .. k : i # nid => tree'[i] = tree[i]
  /\ tree'[nid] = [tree[nid] EXCEPT !.left = k + 1, !.right = k + 2]
  /\ tree'[k + 1] = lc /\ tree'[k + 2] = rc

(* What the tree becomes.                                                  *)
LEMMA TreeBecomes ==
  ASSUME NEW X, tree \in Seq(X), NEW nid \in DOMAIN tree, NEW lc, NEW rc,
         tree' = [tree EXCEPT ![nid].left = Len(tree) + 1, ![nid].right = Len(tree) + 2]
                 \o Table([i \in 1 .. 2 |-> IF i = 1 THEN lc ELSE rc])
  PROVE  SplitAt(nid, Len(tree), lc, rc)
<1>1. PICK k \in Nat : k = Len(tree) /\ DOMAIN tree = 1 .. k
  OBVIOUS
<1>2. PICK n : n = [tree[nid] EXCEPT !.left = k + 1, !.right = k + 2]
  OBVIOUS
<1>3. PICK Y : Y = X \cup {n, lc, rc}
  OBVIOUS
<1>4. PICK u : u = [tree EXCEPT ![nid] = n]
  OBVIOUS
<1>5. [tree EXCEPT ![nid].left = Len(tree) + 1, ![nid].right = Len(tree) + 2] = u
  BY <1>1, <1>2, <1>4
<1>6. /\ u \in Seq(Y) /\ Len(u) = k /\ u[nid] = n
      /\ \A i \in 1 .. k : i # nid => u[i] = tree[i]
  <2>1. DOMAIN u = 1 .. k
    BY <1>1, <1>4
  <2>2. \A i \in 1 .. k : u[i] \in Y
    <3>1. \A i \in 1 .. k : tree[i] \in X
      BY <1>1
    <3> QED BY <1>1, <1>3, <1>4, <3>1
  <2>3. u \in [1 .. k -> Y]
    BY <1>1, <1>4, <2>1, <2>2
  <2>4. u \in Seq(Y) /\ Len(u) = k
    BY <2>3
  <2> QED BY <1>1, <1>4, <2>4
<1>7. PICK v : v = [i \in 1 .. 2 |-> IF i = 1 THEN lc ELSE rc]
  OBVIOUS
<1>8. v \in Seq(Y) /\ Len(v) = 2 /\ v[1] = lc /\ v[2] = rc
  <2>1. \A i \in 1 .. 2 : v[i] \in Y
    BY <1>3, <1>7
  <2> QED BY <1>7, <2>1
<1>9. Table(v) = v
  BY <1>8 DEF Table
<1>10. PICK w : w = u \o v /\ w = tree'
  BY <1>5, <1>7, <1>9
<1>11. /\ w \in Seq(Y) /\ Len(w) = Len(u) + Len(v)
       /\ \A i \in 1 .. Len(u) : w[i] = u[i]
       /\ \A i \in 1 .. Len(v) : w[Len(u) + i] = v[i]
  <2>1. u \in Seq(Y) /\ v \in Seq(Y)
    BY <1>6, <1>8
  <2>2. /\ u \o v \in Seq(Y) /\ Len(u \o v) = Len(u) + Len(v)
        /\ \A i \in 1 .. Len(u) : (u \o v)[i] = u[i]
        /\ \A i \in 1 .. Len(v) : (u \o v)[Len(u) + i] = v[i]
    BY <2>1, Concatenated
  <2> QED BY <1>10, <2>2
<1>12. DOMAIN w = 1 .. k + 2 /\ w \in Seq(Y)
  BY <1>6, <1>8, <1>11
<1>13. w[k + 1] = lc /\ w[k + 2] = rc
  BY <1>6, <1>8, <1>11
<1>14. \A i \in 1 .. k : w[i] = u[i]
  BY <1>6, <1>11
<1> QED BY <1>1, <1>2, <1>6, <1>10, <1>12, <1>13, <1>14 DEF SplitAt

(* A split of a node, on a feature it is allowed: the children.            *)
SplitStep(nid, f, lc, rc) ==
  /\ UNCHANGED <<p, rows>>
  /\ tree[nid].left = 0 /\ tree[nid].best # NoSplit /\ tree[nid].best.f = f
  /\ f \in Features /\ IsSplit(tree[nid], f, tree[nid].best)
  /\ \A c \in {lc, rc} :
       /\ IsNode(c) /\ HasBest(c) /\ Summed(c) /\ Searched(c)
       /\ c.left = 0 /\ c.right = 0 /\ c.root_gain = NodeGain(tree[nid], c.sums)
       /\ c.allowed = AllowedBelow(tree[nid], f) /\ c.path = tree[nid].path \cup {f}
  /\ \E b, wl, wr :
       /\ wl = CalcWeight(tree[nid], tree[nid].best.left)
       /\ wr = CalcWeight(tree[nid], tree[nid].best.right)
       /\ b = AddSplit(tree[nid], f, wl, wr)
       /\ lc.lower = b.left[1] /\ lc.upper = b.left[2] /\ lc.weight = wl
       /\ rc.lower = b.right[1] /\ rc.upper = b.right[2] /\ rc.weight = wr

(* What applying a split does.                                             *)
LEMMA ApplyEffect ==
  ASSUME TreeInv, NEW nid \in DOMAIN tree, ApplySplit(nid)
  PROVE  \E f, lc, rc : SplitAt(nid, Len(tree), lc, rc) /\ SplitStep(nid, f, lc, rc)
<1> DEFINE n == tree[nid]
           e == n.best
           f == e.f
           sums == IF IsMulti THEN MultiChildSums(n, e)
                   ELSE [left |-> <<e.left>>, right |-> <<e.right>>]
           wl == CalcWeight(n, e.left)
           wr == CalcWeight(n, e.right)
           boxes == AddSplit(n, e.f, wl, wr)
           lefts == {r \in n.rows : GoesLeft(e, r)}
           l == Leaf(lefts, sums.left, NodeGain(n, sums.left), boxes.left[1], boxes.left[2], wl,
                     AllowedBelow(n, e.f), n.path \cup {e.f})
           r == Leaf(n.rows \ lefts, sums.right, NodeGain(n, sums.right), boxes.right[1],
                     boxes.right[2], wr, AllowedBelow(n, e.f), n.path \cup {e.f})
<1>1. /\ n.left = 0 /\ Found(e) /\ UNCHANGED <<p, rows>>
      /\ tree' = [tree EXCEPT ![nid].left = Len(tree) + 1, ![nid].right = Len(tree) + 2]
                 \o Table([i \in 1 .. 2 |-> Evaluated(<<l, r>>[i])])
  BY DEF ApplySplit
<1>2. p \in Settings /\ RowsOk /\ n.rows \in SUBSET (1 .. NumRows) /\ HasBest(n) /\ Summed(n)
  BY DEF TreeInv, Summed, Sees
<1>3. e # NoSplit /\ f \in Features /\ IsSplit(n, f, e)
  <2>1. e # NoSplit /\ \E g \in Features : IsSplit(n, g, e)
    BY <1>1, <1>2, FoundSplit
  <2> QED BY <2>1 DEF IsSplit
<1>4. sums = ChildSums(n, e) /\ lefts = SideOf(n, e)
  BY DEF ChildSums, SideOf
<1>5. PICK sl, sr : sl = sums.left /\ sr = sums.right
  OBVIOUS
<1>6. sl = ByTarget(lefts) /\ sr = ByTarget(n.rows \ lefts)
  <2>1. ChildSums(n, e) = [left |-> ByTarget(SideOf(n, e)),
                           right |-> ByTarget(n.rows \ SideOf(n, e))]
    BY <1>2, <1>3 DEF Summed, AddsUp
  <2> HIDE DEF sums, lefts
  <2> QED BY <1>4, <1>5, <2>1
<1>7. PICK lc, rc : lc = Evaluated(l) /\ rc = Evaluated(r)
  OBVIOUS
<1>8. lefts \in SUBSET (1 .. NumRows) /\ n.rows \ lefts \in SUBSET (1 .. NumRows)
  BY <1>2
<1>9. PICK b : b = boxes
  OBVIOUS
<1>10. PICK S, T, gl, gr, u, v, A, P :
         /\ S = lefts /\ T = n.rows \ lefts /\ gl = NodeGain(n, sl) /\ gr = NodeGain(n, sr)
         /\ u = wl /\ v = wr /\ A = AllowedBelow(n, e.f) /\ P = n.path \cup {e.f}
  OBVIOUS
<1>11. /\ l = Leaf(S, sl, gl, b.left[1], b.left[2], u, A, P)
       /\ r = Leaf(T, sr, gr, b.right[1], b.right[2], v, A, P)
  BY <1>5, <1>9, <1>10
<1>12. S \in SUBSET (1 .. NumRows) /\ T \in SUBSET (1 .. NumRows)
  <2> HIDE DEF lefts
  <2> QED BY <1>8, <1>10
<1>13. /\ IsNode(l) /\ l.rows = S /\ l.lower = b.left[1] /\ l.upper = b.left[2]
       /\ l.weight = u /\ l.allowed = A /\ l.path = P /\ l.left = 0 /\ l.right = 0
       /\ l.root_gain = gl /\ Sees(l)
  <2> HIDE DEF l, lefts
  <2>1. sl = ByTarget(S)
    BY <1>6, <1>10
  <2> QED BY <1>2, <1>12, <1>11, <2>1, LeafIs
<1>14. /\ IsNode(r) /\ r.rows = T /\ r.lower = b.right[1] /\ r.upper = b.right[2]
       /\ r.weight = v /\ r.allowed = A /\ r.path = P /\ r.left = 0 /\ r.right = 0
       /\ r.root_gain = gr /\ Sees(r)
  <2> HIDE DEF r, lefts
  <2>1. sr = ByTarget(T)
    BY <1>6, <1>10
  <2> QED BY <1>2, <1>12, <1>11, <2>1, LeafIs
<1>15. [i \in 1 .. 2 |-> Evaluated(<<l, r>>[i])] = [i \in 1 .. 2 |-> IF i = 1 THEN lc ELSE rc]
  <2> HIDE DEF l, r
  <2> QED BY <1>7
<1> HIDE DEF l, r
<1>16. SplitAt(nid, Len(tree), lc, rc)
  <2>1. PICK X : tree \in Seq(X)
    BY DEF TreeInv
  <2> QED BY <1>1, <1>15, <2>1, TreeBecomes
<1>17. /\ IsNode(lc) /\ HasBest(lc) /\ Summed(lc) /\ lc.left = 0 /\ lc.right = 0
       /\ lc.allowed = A /\ lc.path = P
       /\ lc.lower = b.left[1] /\ lc.upper = b.left[2] /\ lc.weight = u
  BY <1>2, <1>7, <1>13, EvaluatedIs, LeafHasBest
<1>18. /\ IsNode(rc) /\ HasBest(rc) /\ Summed(rc) /\ rc.left = 0 /\ rc.right = 0
       /\ rc.allowed = A /\ rc.path = P
       /\ rc.lower = b.right[1] /\ rc.upper = b.right[2] /\ rc.weight = v
  BY <1>2, <1>7, <1>14, EvaluatedIs, LeafHasBest
<1>20. /\ Searched(lc) /\ lc.root_gain = NodeGain(n, lc.sums)
       /\ Searched(rc) /\ rc.root_gain = NodeGain(n, rc.sums)
  <2> HIDE DEF lefts
  <2>1. lc.sums = sl /\ lc.root_gain = gl
    BY <1>6, <1>7, <1>10, <1>13, EvaluatedIs DEF SameSums, Sees
  <2>2. rc.sums = sr /\ rc.root_gain = gr
    BY <1>6, <1>7, <1>10, <1>14, EvaluatedIs DEF SameSums, Sees
  <2>3. Searched(lc) /\ Searched(rc)
    BY <1>2, <1>7, <1>13, <1>14, LeafHasBest
  <2> QED BY <1>10, <2>1, <2>2, <2>3
<1>19. SplitStep(nid, f, lc, rc)
  <2> HIDE DEF lefts
  <2> QED BY <1>1, <1>3, <1>9, <1>10, <1>17, <1>18, <1>20 DEF SplitStep
<1> QED BY <1>16, <1>19

(* The parts of the invariant that only the parameters decide.             *)
LEMMA SameParameters ==
  ASSUME p' = p
  PROVE  /\ \A n : HasBest(n)' <=> HasBest(n)
         /\ \A n : InBox(n)' <=> InBox(n)
         /\ Features' = Features /\ (IsMulti' <=> IsMulti) /\ (HasConstraint' <=> HasConstraint)
         /\ \A S : Within(S)' <=> Within(S)
<1>1. \A n : HasBest(n)' <=> HasBest(n)
  BY DEF HasBest, Features, IsSplit, Query, IsMulti, IsAllowed, IsValidSplit, RightOrder,
         CalcWeight, HasConstraint, UnboundedWeight, ThresholdL1
<1>2. \A n : InBox(n)' <=> InBox(n)
  BY DEF InBox, Boxed
<1>3. \A S : Within(S)' <=> Within(S)
  BY DEF Within
<1>4. Features' = Features /\ (IsMulti' <=> IsMulti) /\ (HasConstraint' <=> HasConstraint)
  BY DEF Features, IsMulti, HasConstraint
<1> QED BY <1>1, <1>2, <1>3, <1>4

(* And that the rows decide as well: sums,                                 *)
LEMMA SameData ==
  ASSUME p' = p, rows' = rows
  PROVE  /\ Targets' = Targets /\ (IsMulti' <=> IsMulti)
         /\ \A r, f : BinOf(r, f)' = BinOf(r, f)
         /\ \A f : CutPtr(f)' = CutPtr(f) /\ FeatureBins(f)' = FeatureBins(f)
         /\ \A S : /\ \A t : Hist(S, t)' = Hist(S, t)
                   /\ ByTarget(S)' = ByTarget(S) /\ SideSums(S)' = SideSums(S)
         /\ \A n : Sees(n)' <=> Sees(n)
<1>1. /\ Targets' = Targets /\ (IsMulti' <=> IsMulti)
      /\ \A r, f : BinOf(r, f)' = BinOf(r, f)
      /\ \A r, t : GradientOf(r, t)' = GradientOf(r, t)
  BY DEF Targets, IsMulti, BinOf, GradientOf
<1>2. \A S, t : SumOf(S, t)' = SumOf(S, t)
  BY <1>1 DEF SumOf
<1>3. \A S : /\ \A t : Hist(S, t)' = Hist(S, t)
             /\ ByTarget(S)' = ByTarget(S) /\ SideSums(S)' = SideSums(S)
  BY <1>1, <1>2 DEF Hist, ByTarget, SideSums
<1>4. \A f : CutPtr(f)' = CutPtr(f) /\ FeatureBins(f)' = FeatureBins(f)
  BY DEF FeatureBins, CutPtr
<1>5. \A n : Sees(n)' <=> Sees(n)
  BY <1>1, <1>3 DEF Sees
<1> QED BY <1>1, <1>3, <1>4, <1>5

(* where a split's are from,                                               *)
LEMMA SameRows ==
  ASSUME p' = p, rows' = rows
  PROVE  \A n : Summed(n)' <=> Summed(n)
<1>1. /\ Targets' = Targets /\ (IsMulti' <=> IsMulti)
      /\ \A r, f : BinOf(r, f)' = BinOf(r, f)
  BY SameData
<1>3. \A S : ByTarget(S)' = ByTarget(S) /\ SideSums(S)' = SideSums(S)
  BY SameData
<1>4. \A f, v : /\ FindSplitCondition(f, v)' = FindSplitCondition(f, v)
                /\ CutPtr(f)' = CutPtr(f) /\ FeatureBins(f)' = FeatureBins(f)
  BY SameData DEF FindSplitCondition
<1>5. \A e, r : GoesLeft(e, r)' <=> GoesLeft(e, r)
  BY <1>1, <1>4 DEF GoesLeft
<1>6. \A n, e : MultiChildSums(n, e)' = MultiChildSums(n, e)
  <2> SUFFICES ASSUME NEW n, NEW e PROVE MultiChildSums(n, e)' = MultiChildSums(n, e)
    OBVIOUS
  <2>1. PICK cond : cond = FindSplitCondition(e.f, e.value)
    OBVIOUS
  <2>2. PICK bins : bins = ToSet(FeatureBins(e.f))
    OBVIOUS
  <2>3. PICK T : T = Targets
    OBVIOUS
  <2>4. /\ FindSplitCondition(e.f, e.value)' = cond /\ ToSet(FeatureBins(e.f))' = bins
        /\ Targets' = T
    BY <1>1, <1>4, <2>1, <2>2, <2>3 DEF ToSet
  <2> DEFINE some == [t \in T |-> Total(n.hists[t], {b \in bins : IF e.default_left THEN b > cond
                                                                 ELSE cond = -1 \/ b <= cond})]
             rest == [t \in T |-> Subtract(n.sums[t], some[t])]
             both == IF e.default_left THEN [left |-> rest, right |-> some]
                     ELSE [left |-> some, right |-> rest]
  <2>5. MultiChildSums(n, e) = both
    BY <2>1, <2>2, <2>3 DEF MultiChildSums
  <2>6. MultiChildSums(n, e)' = both
    BY <2>4 DEF MultiChildSums
  <2> QED BY <2>5, <2>6
<1>7. \A n : Sees(n)' <=> Sees(n)
  BY SameData
<1>8. \A n, e : SideOf(n, e)' = SideOf(n, e)
  BY <1>5 DEF SideOf
<1>9. \A n, e : AddsUp(n, e)' <=> AddsUp(n, e)
  BY <1>1, <1>3, <1>6, <1>8 DEF AddsUp, ChildSums
<1> QED BY <1>7, <1>9 DEF Summed

(* and what can be gained.                                                 *)
LEMMA SamePartings ==
  ASSUME p' = p, rows' = rows
  PROVE  \A n : /\ Weighable(n)' <=> Weighable(n)
                /\ \A e : GainsMost(n, e)' <=> GainsMost(n, e)
<1>1. /\ Features' = Features /\ Targets' = Targets /\ (IsMulti' <=> IsMulti)
      /\ (HasConstraint' <=> HasConstraint) /\ (UseOneHot' <=> UseOneHot)
      /\ \A n, f : Query(n, f)' <=> Query(n, f)
  BY SameData DEF Features, HasConstraint, UseOneHot, Query
<1>2. \A s : /\ UnboundedWeight(s)' = UnboundedWeight(s)
             /\ ClosedFormGain(s)' = ClosedFormGain(s)
             /\ \A w : GainGivenWeight(s, w)' = GainGivenWeight(s, w)
  BY DEF UnboundedWeight, ThresholdL1, ClosedFormGain, GainGivenWeight
<1>3. \A n, s : CalcWeight(n, s)' = CalcWeight(n, s) /\ CalcGain(n, s)' = CalcGain(n, s)
  BY <1>1, <1>2 DEF CalcWeight, CalcGain, GainAt
<1>4. \A n, sums : MultiGain(n, sums)' = MultiGain(n, sums)
  BY <1>1, <1>3 DEF MultiGain
<1>5. \A n, sums : NodeGain(n, sums)' = NodeGain(n, sums)
  BY <1>1, <1>3, <1>4 DEF NodeGain
<1>6. /\ \A n : GainBefore(n)' = GainBefore(n)
      /\ \A n, L : PartingGain(n, L)' = PartingGain(n, L)
  BY <1>1, <1>4, <1>5, SameData DEF GainBefore, PartingGain
<1>7. \A n, c : IsFinite(n, c)' <=> IsFinite(n, c)
  BY <1>1, <1>3 DEF IsFinite, IsAllowed, IsValidSplit, RightOrder
<1>8. \A n, f, L : PartingAllowed(n, f, L)' <=> PartingAllowed(n, f, L)
  BY <1>7, SameData DEF PartingAllowed
<1>9. \A n, f : Partings(n, f)' = Partings(n, f)
  <2>1. \A n, f : MissingCount(n, f)' <=> MissingCount(n, f)
    BY SameData DEF MissingCount
  <2>2. \A n, f, R, dl : SideAt(n, f, R, dl)' = SideAt(n, f, R, dl)
    BY SameData DEF SideAt
  <2>3. \A hist, a, b : CategoryBefore(hist, a, b)' <=> CategoryBefore(hist, a, b)
    BY <1>2 DEF CategoryBefore
  <2>4. ASSUME NEW n, NEW f, NEW dl PROVE RightBins(n, f, dl)' = RightBins(n, f, dl)
    <3>1. PICK hist, bins : hist = n.hists[1] /\ bins = ToSet(FeatureBins(f))
      OBVIOUS
    <3>2. FeatureBins(f)' = FeatureBins(f)
      BY SameData
    <3>3. PICK most : most = LesserOf(p.max_cat_threshold, p.bins) - 1
      OBVIOUS
    <3> DEFINE InOrder(R) == \A a \in R, b \in bins \ R : CategoryBefore(hist, a, b)
               Sized(R) == Cardinality(IF dl THEN R ELSE bins \ R) \in 1 .. most
    <3>4. PICK A : A = {R \in SUBSET bins : InOrder(R) /\ Sized(R)}
      OBVIOUS
    <3>5. A = {R \in SUBSET bins : InOrder(R)' /\ Sized(R)}
      BY <2>3, <3>4
    <3>6. PICK B, C : B = {{b \in bins : b > c} : c \in bins \cup {-1}} /\ C = {{b} : b \in bins}
      OBVIOUS
    <3>7. RightBins(n, f, dl) = IF f \notin p.cat THEN B ELSE IF UseOneHot THEN C ELSE A
      BY <3>1, <3>3, <3>4, <3>6 DEF RightBins
    <3>8. RightBins(n, f, dl)' = IF f \notin p.cat THEN B ELSE IF UseOneHot THEN C ELSE A
      BY <1>1, <3>1, <3>2, <3>3, <3>5, <3>6 DEF RightBins
    <3> QED BY <3>7, <3>8
  <2> QED BY <1>1, <2>1, <2>2, <2>4 DEF Partings
<1>10. \A n : GainsOf(n)' = GainsOf(n)
  BY <1>1, <1>6, <1>8, <1>9 DEF GainsOf
<1>11. \A n, e : GainsMost(n, e)' <=> GainsMost(n, e)
  BY <1>10 DEF GainsMost
<1>12. \A n : Weighable(n)' <=> Weighable(n)
  BY SameData DEF Weighable, Boxed
<1> QED BY <1>11, <1>12

(* The parts of the invariant, kept by a split.                            *)
LEMMA SplitTree ==
  ASSUME TreeInv, NEW k \in Nat, NEW nid, NEW f, NEW lc, NEW rc, SplitAt(nid, k, lc, rc),
         SplitStep(nid, f, lc, rc)
  PROVE  TreeInv'
<1>1. /\ nid \in 1 .. k /\ DOMAIN tree = 1 .. k /\ DOMAIN tree' = 1 .. k + 2
      /\ \E X : tree' \in Seq(X)
      /\ \A i \in 1 .. k : i # nid => tree'[i] = tree[i]
      /\ tree'[nid] = [tree[nid] EXCEPT !.left = k + 1, !.right = k + 2]
      /\ tree'[k + 1] = lc /\ tree'[k + 2] = rc
  BY DEF SplitAt
<1>2. p' = p /\ rows' = rows
  BY DEF SplitStep
<1>3. p' \in Settings /\ RowsOk'
  BY <1>2 DEF TreeInv, RowsOk
<1>4. \A n : HasBest(n)' <=> HasBest(n)
  BY <1>2, SameParameters
<1>7. \A n : Summed(n)' <=> Summed(n)
  BY <1>2, SameRows
<1>5. ASSUME NEW i \in DOMAIN tree'
      PROVE  IsNode(tree'[i]) /\ HasBest(tree'[i]) /\ Summed(tree'[i])
  <2>1. CASE i \in 1 .. k /\ i # nid
    BY <1>1, <2>1 DEF TreeInv
  <2>2. CASE i = nid
    <3>1. PICK m, n : n = tree[nid] /\ m = tree'[nid]
      OBVIOUS
    <3>2. IsNode(n) /\ HasBest(n) /\ Summed(n)
      BY <1>1, <3>1 DEF TreeInv
    <3>3. Relinked(m, n, k + 1, k + 2)
      BY <1>1, <3>1 DEF Relinked
    <3>4. IsNode(m) /\ SameNode(m, n)
      BY <3>2, <3>3, Linked
    <3>5. HasBest(m) /\ Summed(m)
      BY <3>2, <3>4, SameSplits, SameSummed DEF SameNode
    <3> QED BY <2>2, <3>1, <3>2, <3>4, <3>5
  <2>3. CASE i = k + 1 \/ i = k + 2
    BY <1>1, <2>3 DEF SplitStep
  <2> QED BY <1>1, <2>1, <2>2, <2>3
<1>6. ASSUME NEW i \in DOMAIN tree' PROVE HasBest(tree[i])' /\ Summed(tree[i])'
  <2>1. PICK m : m = tree'[i]
    OBVIOUS
  <2> QED BY <1>4, <1>5, <1>7, <2>1
<1> QED BY <1>1, <1>3, <1>5, <1>6 DEF TreeInv

(* What a split leaves and makes, in the terms of the invariant.           *)
Stay(nid, k, f) ==
  /\ k \in Nat /\ nid \in 1 .. k /\ DOMAIN tree = 1 .. k /\ DOMAIN tree' = 1 .. k + 2
  /\ p' = p
  /\ \A i \in 1 .. k : SameNode(tree'[i], tree[i])
  /\ \A i \in 1 .. k : i # nid => tree'[i].left = tree[i].left /\ tree'[i].right = tree[i].right
  /\ tree[nid].left = 0 /\ tree[nid].best # NoSplit /\ tree[nid].best.f = f
  /\ tree'[nid].left = k + 1 /\ tree'[nid].right = k + 2
  /\ tree'[k + 1].left = 0 /\ tree'[k + 1].right = 0
  /\ tree'[k + 2].left = 0 /\ tree'[k + 2].right = 0

(* A split is such a step.                                                 *)
LEMMA SplitStays ==
  ASSUME TreeInv, NEW k \in Nat, NEW nid, NEW f, NEW lc, NEW rc, SplitAt(nid, k, lc, rc),
         SplitStep(nid, f, lc, rc)
  PROVE  Stay(nid, k, f)
<1>1. /\ nid \in 1 .. k /\ DOMAIN tree = 1 .. k /\ DOMAIN tree' = 1 .. k + 2
      /\ \A i \in 1 .. k : i # nid => tree'[i] = tree[i]
      /\ tree'[nid] = [tree[nid] EXCEPT !.left = k + 1, !.right = k + 2]
      /\ tree'[k + 1] = lc /\ tree'[k + 2] = rc
  BY DEF SplitAt
<1>2. PICK m, n : n = tree[nid] /\ m = tree'[nid]
  OBVIOUS
<1>3. IsNode(n)
  BY <1>1, <1>2 DEF TreeInv
<1>4. SameNode(m, n) /\ m.left = k + 1 /\ m.right = k + 2
  <2>1. Relinked(m, n, k + 1, k + 2)
    BY <1>1, <1>2 DEF Relinked
  <2> QED BY <1>3, <2>1, Linked
<1>5. \A i \in 1 .. k : SameNode(tree'[i], tree[i])
  <2>1. \A o : SameNode(o, o)
    BY DEF SameNode, SameSums
  <2> QED BY <1>1, <1>2, <1>4, <2>1
<1> QED BY <1>1, <1>2, <1>4, <1>5 DEF Stay, SplitStep

(* Children are numbered after their parents.                              *)
LEMMA SplitLinks ==
  ASSUME LinksInv, NEW k, NEW nid, NEW f, Stay(nid, k, f)
  PROVE  /\ LinksInv'
         /\ \A i \in 1 .. k : i # nid =>
              (Children(i) \cap DOMAIN tree)' = Children(i) \cap DOMAIN tree
         /\ (Children(nid) \cap DOMAIN tree)' = {k + 1, k + 2}
         /\ Children(nid) \cap DOMAIN tree = {}
         /\ \A i \in {k + 1, k + 2} : (Children(i) \cap DOMAIN tree)' = {}
<1>1. /\ k \in Nat /\ nid \in 1 .. k /\ DOMAIN tree = 1 .. k /\ DOMAIN tree' = 1 .. k + 2
      /\ \A i \in 1 .. k : tree'[i].best = tree[i].best
      /\ \A i \in 1 .. k : i # nid => tree'[i].left = tree[i].left /\ tree'[i].right = tree[i].right
      /\ tree[nid].left = 0 /\ tree[nid].best # NoSplit
      /\ tree'[nid].left = k + 1 /\ tree'[nid].right = k + 2
      /\ tree'[k + 1].left = 0 /\ tree'[k + 1].right = 0
      /\ tree'[k + 2].left = 0 /\ tree'[k + 2].right = 0
  BY DEF Stay, SameNode
<1>2. \A i \in 1 .. k :
        \/ tree[i].left = 0 /\ tree[i].right = 0
        \/ /\ tree[i].left \in 1 .. k /\ tree[i].right \in 1 .. k
           /\ tree[i].left > i /\ tree[i].right > i /\ tree[i].best # NoSplit
  BY <1>1 DEF LinksInv
<1>3. NoSplit' = NoSplit
  BY DEF NoSplit
<1>4. PICK K, L : /\ K = [i \in 1 .. k |-> Children(i) \cap DOMAIN tree]
                  /\ L = [i \in 1 .. k + 2 |-> (Children(i) \cap DOMAIN tree)']
  OBVIOUS
<1>5. /\ \A i \in 1 .. k : K[i] = {tree[i].left, tree[i].right} \cap 1 .. k
      /\ \A i \in 1 .. k + 2 : L[i] = {tree'[i].left, tree'[i].right} \cap 1 .. k + 2
  BY <1>1, <1>4 DEF Children
<1>6. 0 \notin 1 .. k /\ 0 \notin 1 .. k + 2 /\ 1 .. k + 2 = (1 .. k) \cup {k + 1, k + 2}
  BY <1>1
<1>7. ASSUME NEW i \in 1 .. k, i # nid PROVE L[i] = K[i] /\ L[i] \subseteq 1 .. k
  <2>1. tree'[i].left = tree[i].left /\ tree'[i].right = tree[i].right
    BY <1>1, <1>7
  <2>2. PICK a, b : a = tree[i].left /\ b = tree[i].right
    OBVIOUS
  <2>3. (a = 0 /\ b = 0) \/ (a \in 1 .. k /\ b \in 1 .. k)
    BY <1>2, <2>2
  <2>4. i \in 1 .. k + 2
    BY <1>6
  <2>5. L[i] = {a, b} \cap 1 .. k + 2 /\ K[i] = {a, b} \cap 1 .. k
    BY <1>5, <2>1, <2>2, <2>4
  <2> QED BY <1>6, <2>3, <2>5
<1>8. L[nid] = {k + 1, k + 2} /\ K[nid] = {}
  <2>1. tree[nid].right = 0
    BY <1>1, <1>2
  <2> QED BY <1>1, <1>5, <1>6, <2>1
<1>9. L[k + 1] = {} /\ L[k + 2] = {}
  BY <1>1, <1>5, <1>6
<1>10. \A i, j \in 1 .. k : K[i] \cap K[j] # {} => i = j
  <2>1. \A i, j \in 1 .. k : (Children(i) \cap DOMAIN tree) \cap (Children(j) \cap DOMAIN tree) =
                             Children(i) \cap Children(j) \cap DOMAIN tree
    OBVIOUS
  <2>2. \A i, j \in 1 .. k : Children(i) \cap Children(j) \cap DOMAIN tree # {} => i = j
    BY <1>1 DEF LinksInv
  <2> QED BY <1>4, <2>1, <2>2
<1>11. ASSUME NEW i \in 1 .. k + 2, NEW j \in 1 .. k + 2, NEW x, x \in L[i], x \in L[j]
       PROVE  i = j
  <2>1. i \in 1 .. k /\ j \in 1 .. k
    BY <1>6, <1>9, <1>11
  <2>2. k + 1 \notin 1 .. k /\ k + 2 \notin 1 .. k
    BY <1>1
  <2> QED BY <1>7, <1>8, <1>10, <1>11, <2>1, <2>2
<1>12. \A i, j \in DOMAIN tree' : (Children(i) \cap Children(j) \cap DOMAIN tree)' # {} => i = j
  <2> SUFFICES ASSUME NEW i \in 1 .. k + 2, NEW j \in 1 .. k + 2, NEW x,
                      x \in (Children(i) \cap Children(j) \cap DOMAIN tree)'
               PROVE  i = j
    BY <1>1
  <2>1. x \in L[i] /\ x \in L[j]
    BY <1>4
  <2> QED BY <1>11, <2>1
<1>13. \A i \in DOMAIN tree' :
         \/ tree'[i].left = 0 /\ tree'[i].right = 0
         \/ /\ tree'[i].left \in DOMAIN tree' /\ tree'[i].right \in DOMAIN tree'
            /\ tree'[i].left > i /\ tree'[i].right > i /\ tree'[i].best # NoSplit
  <2>1. ASSUME NEW i \in 1 .. k, i # nid
        PROVE  \/ tree'[i].left = 0 /\ tree'[i].right = 0
               \/ /\ tree'[i].left \in 1 .. k + 2 /\ tree'[i].right \in 1 .. k + 2
                  /\ tree'[i].left > i /\ tree'[i].right > i /\ tree'[i].best # NoSplit
    BY <1>1, <1>2, <1>6, <2>1
  <2>2. /\ k + 1 \in 1 .. k + 2 /\ k + 2 \in 1 .. k + 2 /\ k + 1 > nid /\ k + 2 > nid
        /\ tree'[nid].best # NoSplit
    BY <1>1
  <2> QED BY <1>1, <1>6, <2>1, <2>2
<1>14. \A c \in DOMAIN tree' : c # 1 => \E i \in DOMAIN tree' : i < c /\ c \in Children(i)'
  <2> SUFFICES ASSUME NEW c \in 1 .. k + 2, c # 1
               PROVE  \E i \in 1 .. k + 2 : i < c /\ c \in Children(i)'
    BY <1>1
  <2>1. CASE c \in 1 .. k
    <3>1. PICK i \in 1 .. k : i < c /\ c \in Children(i)
      BY <1>1, <2>1 DEF LinksInv
    <3>2. c \in K[i]
      BY <1>1, <1>4, <2>1, <3>1
    <3>3. i # nid
      BY <1>8, <3>2
    <3>4. c \in L[i]
      BY <1>7, <3>2, <3>3
    <3>5. i \in 1 .. k + 2 /\ L[i] = (Children(i) \cap DOMAIN tree)'
      BY <1>4, <1>6
    <3> QED BY <3>1, <3>4, <3>5
  <2>2. CASE c \in {k + 1, k + 2}
    <3>1. nid < c /\ nid \in 1 .. k + 2
      BY <1>1, <2>2
    <3>2. c \in L[nid] /\ L[nid] = (Children(nid) \cap DOMAIN tree)'
      BY <1>4, <1>8, <2>2, <3>1
    <3> QED BY <3>1, <3>2
  <2> QED BY <1>6, <2>1, <2>2
<1>15. LinksInv'
  BY <1>3, <1>12, <1>13, <1>14 DEF LinksInv
<1>16. /\ \A i \in 1 .. k : K[i] = Children(i) \cap DOMAIN tree
       /\ \A i \in 1 .. k + 2 : L[i] = (Children(i) \cap DOMAIN tree)'
  BY <1>4
<1>17. {k + 1, k + 2} \subseteq 1 .. k + 2 /\ 1 .. k \subseteq 1 .. k + 2
  BY <1>6
<1> QED BY <1>1, <1>7, <1>8, <1>9, <1>15, <1>16, <1>17

(* Paths stay within a group.                                              *)
LEMMA SplitPaths ==
  ASSUME TreeInv, LinksInv, PathInv, NEW k \in Nat, NEW nid, NEW f, NEW lc, NEW rc,
         SplitAt(nid, k, lc, rc), SplitStep(nid, f, lc, rc)
  PROVE  PathInv'
<1>1. Stay(nid, k, f)
  BY SplitStays
<1>2. /\ nid \in 1 .. k /\ DOMAIN tree = 1 .. k /\ DOMAIN tree' = 1 .. k + 2 /\ p' = p
      /\ \A i \in 1 .. k : /\ tree'[i].allowed = tree[i].allowed /\ tree'[i].path = tree[i].path
                           /\ tree'[i].best = tree[i].best
      /\ tree[nid].best.f = f
  BY <1>1 DEF Stay, SameNode
<1>3. /\ \A i \in 1 .. k : i # nid => (Children(i) \cap DOMAIN tree)' = Children(i) \cap DOMAIN tree
      /\ (Children(nid) \cap DOMAIN tree)' = {k + 1, k + 2}
      /\ \A i \in {k + 1, k + 2} : (Children(i) \cap DOMAIN tree)' = {}
  BY <1>1, SplitLinks
<1>4. PICK n, P, A : n = tree[nid] /\ P = n.path \cup {f} /\ A = AllowedBelow(n, f)
  OBVIOUS
<1>5. \A i \in {k + 1, k + 2} : tree'[i].path = P /\ tree'[i].allowed = A
  BY <1>4 DEF SplitAt, SplitStep
<1>6. A = P \cup UNION {g \in p.interaction : P \subseteq g}
  BY <1>4 DEF AllowedBelow
<1>7. p.interaction # {} => Within(P)
  <2> SUFFICES ASSUME p.interaction # {} PROVE Within(P)
    OBVIOUS
  <2>1. f \in n.allowed
    BY <1>4 DEF SplitStep, IsSplit, Query
  <2>2. /\ n.path = {} => P = {f}
        /\ n.path # {} => n.allowed = n.path \cup UNION {g \in p.interaction : n.path \subseteq g}
        /\ Within(n.path)
    BY <1>2, <1>4 DEF PathInv
  <2>3. CASE n.path = {}
    BY <2>2, <2>3 DEF Within
  <2>4. CASE n.path # {} /\ f \in n.path
    <3>1. P = n.path
      BY <1>4, <2>4
    <3> QED BY <2>2, <3>1
  <2>5. CASE n.path # {} /\ f \notin n.path
    <3>1. PICK g \in p.interaction : n.path \subseteq g /\ f \in g
      BY <2>1, <2>2, <2>5
    <3> QED BY <1>4, <3>1 DEF Within
  <2> QED BY <2>3, <2>4, <2>5
<1>8. \A S : Within(S)' <=> Within(S)
  BY <1>2 DEF Within
<1>9. Features' = Features
  BY <1>2 DEF Features
<1>10. 1 .. k + 2 = (1 .. k) \cup {k + 1, k + 2} /\ 1 \notin {k + 1, k + 2}
  BY <1>2
<1>11. ASSUME NEW i \in 1 .. k + 2
       PROVE  /\ tree'[i].allowed = IF tree'[i].path = {} THEN Features
                                    ELSE tree'[i].path \cup UNION {g \in p.interaction :
                                                                     tree'[i].path \subseteq g}
              /\ p.interaction # {} => Within(tree'[i].path)
              /\ i = 1 => tree'[i].path = {}
  <2>1. CASE i \in 1 .. k
    <3>1. PICK t, S, B : t = tree[i] /\ S = t.path /\ B = t.allowed
      OBVIOUS
    <3>2. tree'[i].path = S /\ tree'[i].allowed = B
      BY <1>2, <2>1, <3>1
    <3>3. /\ B = IF S = {} THEN Features
                ELSE S \cup UNION {g \in p.interaction : S \subseteq g}
          /\ p.interaction # {} => Within(S)
          /\ i = 1 => S = {}
      <4>1. i \in DOMAIN tree
        BY <1>2, <2>1
      <4> QED BY <3>1, <4>1, Zenon DEF PathInv
    <3> QED BY <3>2, <3>3
  <2>2. CASE i \in {k + 1, k + 2}
    <3>1. P # {} /\ tree'[i].path = P /\ tree'[i].allowed = A /\ i # 1
      BY <1>4, <1>5, <1>10, <2>2
    <3> QED BY <1>6, <1>7, <3>1
  <2> QED BY <1>10, <2>1, <2>2
<1>12. ASSUME NEW i \in 1 .. k + 2, NEW c \in (Children(i) \cap DOMAIN tree)'
       PROVE  tree'[c].path = tree'[i].path \cup {tree'[i].best.f}
  <2>1. CASE i \in 1 .. k /\ i # nid
    <3>1. c \in Children(i) \cap DOMAIN tree
      BY <1>3, <2>1
    <3>2. tree[c].path = tree[i].path \cup {tree[i].best.f} /\ c \in 1 .. k
      BY <1>2, <2>1, <3>1 DEF PathInv
    <3> QED BY <1>2, <2>1, <3>2
  <2>2. CASE i = nid
    <3>1. c \in {k + 1, k + 2}
      BY <1>3, <2>2
    <3>2. tree'[c].path = P /\ tree'[i].path = n.path /\ tree'[i].best.f = f
      BY <1>2, <1>4, <1>5, <2>2, <3>1
    <3> QED BY <1>4, <3>2
  <2>3. CASE i \in {k + 1, k + 2}
    BY <1>3, <2>3
  <2> QED BY <1>10, <2>1, <2>2, <2>3
<1>13. ASSUME NEW i \in 1 .. k + 2
       PROVE  (/\ tree[i].allowed = IF tree[i].path = {} THEN Features
                                    ELSE tree[i].path \cup UNION {g \in p.interaction :
                                                                    tree[i].path \subseteq g}
               /\ p.interaction # {} => Within(tree[i].path)
               /\ i = 1 => tree[i].path = {})'
  <2>1. PICK S : S = tree'[i].path
    OBVIOUS
  <2> QED BY <1>2, <1>8, <1>9, <1>11, <2>1
<1> QED BY <1>2, <1>12, <1>13 DEF PathInv

(* Boxes are parted.                                                       *)
LEMMA SplitBoxes ==
  ASSUME TreeInv, LinksInv, BoxInv, NEW k \in Nat, NEW nid, NEW f, NEW lc, NEW rc,
         SplitAt(nid, k, lc, rc), SplitStep(nid, f, lc, rc)
  PROVE  BoxInv'
<1>1. Stay(nid, k, f)
  BY SplitStays
<1>2. /\ nid \in 1 .. k /\ DOMAIN tree = 1 .. k /\ DOMAIN tree' = 1 .. k + 2 /\ p' = p
      /\ \A i \in 1 .. k : SameNode(tree'[i], tree[i])
      /\ \A i \in 1 .. k : i # nid => tree'[i].left = tree[i].left /\ tree'[i].right = tree[i].right
      /\ tree[nid].best.f = f
      /\ tree'[nid].left = k + 1 /\ tree'[nid].right = k + 2
      /\ tree'[k + 1].left = 0 /\ tree'[k + 2].left = 0
      /\ tree'[k + 1] = lc /\ tree'[k + 2] = rc
  BY <1>1 DEF Stay, SplitAt
<1>3. (IsMulti' <=> IsMulti) /\ (HasConstraint' <=> HasConstraint)
  BY <1>2 DEF IsMulti, HasConstraint
<1> SUFFICES ASSUME ~IsMulti, HasConstraint
             PROVE  (/\ \A i \in DOMAIN tree : InBox(tree[i])
                     /\ \A i \in DOMAIN tree : Split(i) =>
                          /\ Inside(tree[tree[i].left], tree[i])
                          /\ Inside(tree[tree[i].right], tree[i])
                          /\ Parted(tree[tree[i].left], tree[tree[i].right], tree[i].best.f))'
  BY <1>3 DEF BoxInv
<1>4. /\ \A i \in 1 .. k : InBox(tree[i])
      /\ \A i \in 1 .. k : Split(i) =>
           /\ Inside(tree[tree[i].left], tree[i]) /\ Inside(tree[tree[i].right], tree[i])
           /\ Parted(tree[tree[i].left], tree[tree[i].right], tree[i].best.f)
  BY <1>2 DEF BoxInv
<1>5. PICK n : n = tree[nid]
  OBVIOUS
<1>6. PICK b, wl, wr :
        /\ wl = CalcWeight(n, n.best.left)
        /\ wr = CalcWeight(n, n.best.right)
        /\ b = AddSplit(n, f, wl, wr)
        /\ lc.lower = b.left[1] /\ lc.upper = b.left[2] /\ lc.weight = wl
        /\ rc.lower = b.right[1] /\ rc.upper = b.right[2] /\ rc.weight = wr
  <2>1. PICK b, wl, wr :
          /\ wl = CalcWeight(tree[nid], tree[nid].best.left)
          /\ wr = CalcWeight(tree[nid], tree[nid].best.right)
          /\ b = AddSplit(tree[nid], f, wl, wr)
          /\ lc.lower = b.left[1] /\ lc.upper = b.left[2] /\ lc.weight = wl
          /\ rc.lower = b.right[1] /\ rc.upper = b.right[2] /\ rc.weight = wr
    BY DEF SplitStep
  <2> QED BY <1>5, <2>1
<1>7. /\ f \in Features /\ n.best.left \in StatSet /\ n.best.right \in StatSet
      /\ RightOrder(f, wl, wr)
  BY <1>5, <1>6 DEF SplitStep, IsSplit, IsAllowed
<1>8. p \in Settings /\ InBox(n) /\ Boxed(n) /\ LE(n.lower, n.upper)
  BY <1>2, <1>4, <1>5 DEF TreeInv, InBox
<1>9. /\ wl \in Q /\ wr \in Q /\ LE(n.lower, wl) /\ LE(wl, n.upper) /\ LE(n.lower, wr)
      /\ LE(wr, n.upper)
  BY <1>6, <1>7, <1>8, WeightIs
<1>10. InBox(lc) /\ InBox(rc) /\ Inside(lc, n) /\ Inside(rc, n) /\ Parted(lc, rc, f)
  BY <1>6, <1>7, <1>8, <1>9, Boxes
<1>11. /\ \A m, o : SameNode(m, o) => (InBox(m) <=> InBox(o))
       /\ \A m, o, u, v : SameNode(m, o) /\ SameNode(u, v) => (Inside(m, u) <=> Inside(o, v))
       /\ \A m, o, u, v, g :
            SameNode(m, o) /\ SameNode(u, v) => (Parted(m, u, g) <=> Parted(o, v, g))
  BY DEF SameNode, InBox, Boxed, Inside, Parted
<1>12. /\ \A m : InBox(m)' <=> InBox(m)
       /\ \A m, o, g : Parted(m, o, g)' <=> Parted(m, o, g)
  BY <1>2 DEF InBox, Boxed, Parted
<1>13. 1 .. k + 2 = (1 .. k) \cup {k + 1, k + 2}
  BY <1>2
<1>14. ASSUME NEW i \in 1 .. k + 2 PROVE InBox(tree'[i])
  BY <1>2, <1>4, <1>10, <1>11, <1>13
<1>15. ASSUME NEW i \in 1 .. k + 2, tree'[i].left # 0
       PROVE  /\ Inside(tree'[tree'[i].left], tree'[i]) /\ Inside(tree'[tree'[i].right], tree'[i])
              /\ Parted(tree'[tree'[i].left], tree'[tree'[i].right], tree'[i].best.f)
  <2>1. CASE i \in 1 .. k /\ i # nid
    <3>1. PICK l, r : l = tree[i].left /\ r = tree[i].right
      OBVIOUS
    <3>2. tree'[i].left = l /\ tree'[i].right = r /\ tree'[i].best = tree[i].best /\ l # 0
      BY <1>2, <1>15, <2>1, <3>1 DEF SameNode
    <3>3. l \in 1 .. k /\ r \in 1 .. k
      BY <1>2, <2>1, <3>1, <3>2 DEF LinksInv
    <3>4. /\ Inside(tree[l], tree[i]) /\ Inside(tree[r], tree[i])
          /\ Parted(tree[l], tree[r], tree[i].best.f)
      BY <1>4, <2>1, <3>1, <3>2 DEF Split
    <3>5. SameNode(tree'[i], tree[i]) /\ SameNode(tree'[l], tree[l]) /\ SameNode(tree'[r], tree[r])
      BY <1>2, <2>1, <3>3
    <3> QED BY <1>11, <3>2, <3>4, <3>5
  <2>2. CASE i = nid
    <3>1. SameNode(tree'[nid], n) /\ \A m : SameNode(m, m)
      BY <1>2, <1>5 DEF SameNode, SameSums
    <3>2. tree'[nid].best.f = f
      BY <1>2 DEF SameNode
    <3>3. Inside(lc, tree'[nid]) /\ Inside(rc, tree'[nid])
      BY <1>10, <1>11, <3>1
    <3> QED BY <1>2, <1>10, <2>2, <3>2, <3>3
  <2>3. CASE i \in {k + 1, k + 2}
    BY <1>2, <1>15, <2>3
  <2> QED BY <1>13, <2>1, <2>2, <2>3
<1>16. \A i \in DOMAIN tree' : InBox(tree[i])'
  <2> SUFFICES ASSUME NEW i \in 1 .. k + 2 PROVE InBox(tree[i])'
    BY <1>2
  <2>1. PICK m : m = tree'[i]
    OBVIOUS
  <2>2. InBox(m)
    BY <1>14, <2>1
  <2>3. InBox(m)'
    BY <1>12, <2>2
  <2> QED BY <2>1, <2>3
<1>17. ASSUME NEW i \in DOMAIN tree', Split(i)'
       PROVE  (/\ Inside(tree[tree[i].left], tree[i])
               /\ Inside(tree[tree[i].right], tree[i])
               /\ Parted(tree[tree[i].left], tree[tree[i].right], tree[i].best.f))'
  <2>1. PICK m, l, r, g : /\ m = tree'[i] /\ l = tree'[tree'[i].left]
                          /\ r = tree'[tree'[i].right] /\ g = tree'[i].best.f
    OBVIOUS
  <2>2. Inside(l, m) /\ Inside(r, m) /\ Parted(l, r, g)
    BY <1>2, <1>15, <1>17, <2>1 DEF Split
  <2>3. Inside(l, m)' /\ Inside(r, m)' /\ Parted(l, r, g)'
    BY <1>12, <2>2 DEF Inside
  <2> QED BY <2>1, <2>3
<1> QED BY <1>16, <1>17

(* The bound stands for the largest number.                                *)
LEMMA Bounds ==
  /\ <<-NoBound, 1>> \in Q /\ <<NoBound, 1>> \in Q /\ Zero \in Q
  /\ LE(<<-NoBound, 1>>, <<NoBound, 1>>)
BY DEF NoBound, Q, LE, Zero

(* The root: one node with every row, in no box and below no split.        *)
LEMMA RootIs ==
  ASSUME TreeInv, InitRoot
  PROVE  \E n : /\ tree' = <<n>> /\ UNCHANGED <<p, rows>>
                /\ IsNode(n) /\ HasBest(n) /\ Summed(n) /\ Weighable(n) /\ Searched(n)
                /\ n.left = 0 /\ n.right = 0 /\ n.allowed = Features /\ n.path = {}
                /\ HasConstraint /\ ~IsMulti => InBox(n)
<1> DEFINE all == DOMAIN rows
           sums == [t \in Targets |-> SumOf(all, t)]
           box == Leaf(all, sums, Zero, <<-NoBound, 1>>, <<NoBound, 1>>, Zero, Features, {})
           root == [box EXCEPT !.root_gain = NodeGain(box, sums),
                               !.weight = CalcWeight(box, box.stats)]
<1>1. tree' = <<Evaluated(root)>> /\ UNCHANGED <<p, rows>>
  BY DEF InitRoot
<1>2. p \in Settings /\ RowsOk
  BY DEF TreeInv
<1>3. PICK S, s, low, high : /\ S = all /\ s = sums /\ low = <<-NoBound, 1>>
                             /\ high = <<NoBound, 1>>
  OBVIOUS
<1>4. S \in SUBSET (1 .. NumRows)
  BY <1>2, <1>3 DEF RowsOk
<1>6. s = ByTarget(S)
  BY <1>3 DEF ByTarget
<1>7. PICK b : b = box
  OBVIOUS
<1>8. b = Leaf(S, s, Zero, low, high, Zero, Features, {})
  BY <1>3, <1>7
<1>9. /\ IsNode(b) /\ b.rows = S /\ b.lower = low /\ b.upper = high
      /\ b.allowed = Features /\ b.path = {} /\ b.left = 0 /\ b.right = 0
      /\ Sees(b)
  <2> HIDE DEF box
  <2> QED BY <1>2, <1>4, <1>6, <1>8, LeafIs
<1>10. PICK g, w, r : g = NodeGain(b, s) /\ w = CalcWeight(b, b.stats) /\ Weighed(r, b, g, w)
  BY DEF Weighed
<1>11. r = root
  BY <1>3, <1>7, <1>10 DEF Weighed
<1>12. /\ IsNode(r) /\ SameSums(r, b) /\ r.lower = low /\ r.upper = high /\ r.weight = w
       /\ r.root_gain = g
       /\ r.allowed = Features /\ r.path = {} /\ r.left = 0 /\ r.right = 0
  <2> HIDE DEF box, root
  <2> QED BY <1>9, <1>10, Reweighed
<1> HIDE DEF root, box
<1>13. PICK n : n = Evaluated(r)
  OBVIOUS
<1>14. tree' = <<n>>
  BY <1>1, <1>11, <1>13
<1>15. /\ IsNode(n) /\ n.lower = low /\ n.upper = high /\ n.weight = w
       /\ n.allowed = Features /\ n.path = {} /\ n.left = 0 /\ n.right = 0
  BY <1>12, <1>13, EvaluatedIs
<1>16. HasBest(n) /\ Summed(n) /\ Searched(n) /\ Weighable(n)
  <2>1. Sees(r)
    BY <1>9, <1>12, SameSummed
  <2>2. Boxed(b) /\ Boxed(r)
    BY <1>3, <1>9, <1>12, Bounds DEF Boxed
  <2>3. g \in Q
    BY <1>2, <1>4, <1>6, <1>10, <2>2, NodeGainIs
  <2>4. SameGain(n, r)
    BY <1>12, <1>13, <1>15, EvaluatedIs DEF SameGain
  <2>5. Weighable(r)
    BY <1>12, <2>1, <2>2, <2>3 DEF Weighable
  <2> QED BY <1>2, <1>12, <1>13, <2>1, <2>4, <2>5, LeafHasBest, SameGains
<1>17. HasConstraint /\ ~IsMulti => InBox(n)
  <2> SUFFICES ASSUME HasConstraint, ~IsMulti PROVE InBox(n)
    OBVIOUS
  <2>1. low \in Q /\ high \in Q /\ LE(low, high)
    BY <1>3, Bounds
  <2>2. b.stats \in StatSet /\ Boxed(b)
    BY <1>2, <1>9, <2>1, SeesSums DEF Boxed
  <2>3. w \in Q /\ LE(low, w) /\ LE(w, high)
    BY <1>2, <1>9, <1>10, <2>1, <2>2, WeightIs
  <2> QED BY <1>15, <2>1, <2>3 DEF InBox, Boxed
<1> QED BY <1>1, <1>14, <1>15, <1>16, <1>17

(* The tree of the root alone.                                             *)
LEMMA RootStep ==
  ASSUME TreeInv, tree = <<>>, InitRoot
  PROVE  SearchInv'
<1>1. PICK n : /\ tree' = <<n>> /\ p' = p /\ rows' = rows
               /\ IsNode(n) /\ HasBest(n) /\ Summed(n) /\ Weighable(n) /\ Searched(n)
               /\ n.left = 0 /\ n.right = 0 /\ n.allowed = Features /\ n.path = {}
               /\ HasConstraint /\ ~IsMulti => InBox(n)
  BY RootIs
<1>2. DOMAIN tree' = {1} /\ tree'[1] = n
  BY <1>1
<1>3. /\ \A m : HasBest(m)' <=> HasBest(m)
      /\ \A m : InBox(m)' <=> InBox(m)
      /\ Features' = Features /\ (IsMulti' <=> IsMulti) /\ (HasConstraint' <=> HasConstraint)
      /\ \A S : Within(S)' <=> Within(S)
  BY <1>1, SameParameters
<1>4. TreeInv'
  <2>1. p' \in Settings /\ RowsOk'
    BY <1>1 DEF TreeInv, RowsOk
  <2>2. tree' \in Seq({n})
    BY <1>1
  <2>3. HasBest(n)' /\ Summed(n)' /\ \A i \in DOMAIN tree' : tree'[i] = n
    BY <1>1, <1>2, <1>3, SameRows
  <2>4. \A i \in DOMAIN tree' : HasBest(tree[i])' /\ Summed(tree[i])'
    BY <2>3
  <2> QED BY <1>1, <2>1, <2>2, <2>3, <2>4 DEF TreeInv
<1>5. LinksInv'
  BY <1>1, <1>2 DEF LinksInv, Children
<1>6. PathInv'
  <2>1. Within({})
    BY DEF Within
  <2>2. (Children(1) \cap DOMAIN tree)' = {}
    BY <1>1, <1>2 DEF Children
  <2> QED BY <1>1, <1>2, <1>3, <2>1, <2>2 DEF PathInv
<1>7. BoxInv'
  <2> SUFFICES ASSUME ~IsMulti, HasConstraint
               PROVE  /\ \A i \in DOMAIN tree' : InBox(tree[i])'
                      /\ \A i \in DOMAIN tree' : ~Split(i)'
    BY <1>3 DEF BoxInv
  <2>1. InBox(n)'
    BY <1>1, <1>3
  <2> QED BY <1>1, <1>2, <2>1 DEF Split
<1> QED BY <1>4, <1>5, <1>6, <1>7 DEF SearchInv

(* A step that changes nothing.                                            *)
LEMMA SearchSame ==
  ASSUME SearchInv, UNCHANGED vars
  PROVE  SearchInv'
<1>1. p' = p /\ rows' = rows /\ tree' = tree
  BY DEF vars
<1>2. TreeInv'
  <2>1. \A i \in DOMAIN tree' : HasBest(tree[i])' /\ Summed(tree[i])'
    <3>1. \A n : (HasBest(n) => HasBest(n)') /\ (Summed(n) => Summed(n)')
      BY <1>1, SameParameters, SameRows
    <3>2. \A i \in DOMAIN tree' : HasBest(tree'[i]) /\ Summed(tree'[i])
      BY <1>1 DEF SearchInv, TreeInv
    <3> QED BY <1>1, <3>1, <3>2
  <2> QED BY <1>1, <2>1 DEF SearchInv, TreeInv, RowsOk
<1>3. LinksInv'
  BY <1>1 DEF SearchInv, LinksInv, Children
<1>4. PathInv'
  <2>1. PathInv
    BY DEF SearchInv
  <2>2. Features' = Features /\ \A S : Within(S)' <=> Within(S)
    BY <1>1, SameParameters
  <2>3. \A i : Children(i)' = Children(i)
    BY <1>1 DEF Children
  <2> QED BY <1>1, <2>1, <2>2, <2>3 DEF PathInv
<1>5. BoxInv'
  BY <1>1 DEF SearchInv, BoxInv, IsMulti, HasConstraint, InBox, Boxed, Split, Inside, Parted
<1> QED BY <1>2, <1>3, <1>4, <1>5 DEF SearchInv

(* The invariant holds initially.                                          *)
LEMMA InitSearch == Init => SearchInv
<1> SUFFICES ASSUME Init PROVE SearchInv
  OBVIOUS
<1>1. p \in Settings /\ rows \in [1 .. NumRows -> DOMAIN p.kinds] /\ tree = <<>>
  BY DEF Init
<1>2. tree \in Seq({}) /\ DOMAIN tree = {}
  BY <1>1
<1> QED BY <1>1, <1>2 DEF SearchInv, TreeInv, RowsOk, LinksInv, PathInv, BoxInv

(* Every step keeps it.                                                    *)
LEMMA NextSearch == SearchInv /\ [Next]_vars => SearchInv'
<1> SUFFICES ASSUME SearchInv, [Next]_vars PROVE SearchInv'
  OBVIOUS
<1>1. TreeInv /\ LinksInv /\ PathInv /\ BoxInv
  BY DEF SearchInv
<1>2. CASE InitRoot
  <2>1. tree = <<>>
    BY <1>2 DEF InitRoot
  <2> QED BY <1>1, <1>2, <2>1, RootStep
<1>3. ASSUME NEW nid \in DOMAIN tree, ApplySplit(nid) PROVE SearchInv'
  <2>1. PICK k : k = Len(tree)
    OBVIOUS
  <2>2. PICK f, lc, rc : SplitAt(nid, k, lc, rc) /\ SplitStep(nid, f, lc, rc)
    BY <1>1, <1>3, <2>1, ApplyEffect
  <2>3. k \in Nat
    BY <1>1, <2>1 DEF TreeInv
  <2>4. TreeInv'
    BY <1>1, <2>2, <2>3, SplitTree
  <2>5. LinksInv'
    BY <1>1, <2>2, <2>3, SplitStays, SplitLinks
  <2>6. PathInv'
    BY <1>1, <2>2, <2>3, SplitPaths
  <2>7. BoxInv'
    BY <1>1, <2>2, <2>3, SplitBoxes
  <2> QED BY <2>4, <2>5, <2>6, <2>7 DEF SearchInv
<1>4. CASE UNCHANGED vars
  BY <1>4, SearchSame
<1> QED BY <1>2, <1>3, <1>4 DEF Next

(* The invariant of a growing tree: its nodes are searched, linked, on     *)
(* paths within a group and in boxes that part.                            *)
THEOREM SearchInvariant == Spec => []SearchInv
<1> QED BY InitSearch, NextSearch, PTL DEF Spec

-----------------------------------------------------------------------------
(* Sums.                                                                   *)

(* The rows that a split's test sends to each side add up to the sums that *)
(* it records, and a node's sums are those of its rows.                    *)
THEOREM SumsFollowRows == Spec => []SidesAddUp
<1>1. SearchInv => SidesAddUp
  <2> SUFFICES ASSUME SearchInv, NEW i \in DOMAIN tree, NEW n, n = tree[i]
               PROVE  LET L == {r \in n.rows : GoesLeft(n.best, r)}
                      IN /\ n.sums = ByTarget(n.rows)
                         /\ Found(n.best) => /\ n.best.left = SideSums(L)
                                             /\ n.best.right = SideSums(n.rows \ L)
    BY DEF SidesAddUp, Newest
  <2>1. HasBest(n) /\ Summed(n)
    BY DEF SearchInv, TreeInv
  <2>2. n.sums = ByTarget(n.rows)
    BY <2>1 DEF Summed, Sees
  <2>3. Found(n.best) => AddsUp(n, n.best)
    BY <2>1, FoundSplit DEF Summed
  <2> QED BY <2>2, <2>3 DEF AddsUp, SideOf
<1> QED BY <1>1, SearchInvariant, PTL

-----------------------------------------------------------------------------
(* Gains.                                                                  *)

(* Every node's gains can be compared, and its split gains the most.       *)
Gainful(n) == Weighable(n) /\ GainsMost(n, n.best)
GainInv == \A i \in DOMAIN tree : Gainful(tree[i])

(* Rows add up to sums of gradients.                                       *)
LEMMA SidesTyped ==
  ASSUME p \in Settings, RowsOk, NEW S \in SUBSET (1 .. NumRows)
  PROVE  SideSums(S) \in StatSet
<1>1. PICK z : z = ByTarget(S)
  OBVIOUS
<1>2. DOMAIN z = Targets /\ \A t \in Targets : z[t] \in StatSet
  BY <1>1, RowSums DEF ByTarget
<1>3. IsFiniteSet(Targets)
  <2>1. PICK k \in Int : k = p.targets /\ 1 \in Int
    BY SettingIs
  <2>2. IsFiniteSet(1 .. k)
    BY <2>1, FS_Interval
  <2> QED BY <2>1, <2>2 DEF Targets
<1>4. Total(z, Targets) \in StatSet
  BY <1>2, <1>3, TotalOut DEF Summable
<1> QED BY <1>1, <1>2, <1>4 DEF SideSums, SumTargets, ByTarget

(* The boxes of children are bounded by fractions.                         *)
LEMMA BoxesTyped ==
  ASSUME NEW n, Boxed(n), NEW f, NEW wl \in Q, NEW wr \in Q, NEW b, b = AddSplit(n, f, wl, wr)
  PROVE  b.left[1] \in Q /\ b.left[2] \in Q /\ b.right[1] \in Q /\ b.right[2] \in Q
<1>1. PICK s \in Q : s = Plus(wl, wr)
  BY FractionArithmetic
<1>2. s[1] \in Int /\ 2 * s[2] \in Nat \ {0}
  BY DEF Q
<1>3. PICK mid \in Q : mid = Frac(s[1], 2 * s[2])
  BY <1>2, FracIs
<1>4. PICK c : c = IF HasConstraint THEN p.monotone[f + 1] ELSE 0
  OBVIOUS
<1>5. b = [left |-> <<IF c < 0 THEN mid ELSE n.lower, IF c > 0 THEN mid ELSE n.upper>>,
           right |-> <<IF c > 0 THEN mid ELSE n.lower, IF c < 0 THEN mid ELSE n.upper>>]
  BY <1>1, <1>3, <1>4 DEF AddSplit
<1> QED BY <1>5 DEF Boxed

(* A split makes nodes that are searched at their own gain.                *)
LEMMA SplitGains ==
  ASSUME TreeInv, GainInv, NEW k \in Nat, NEW nid, NEW f, NEW lc, NEW rc,
         SplitAt(nid, k, lc, rc), SplitStep(nid, f, lc, rc)
  PROVE  GainInv'
<1>1. /\ nid \in 1 .. k /\ DOMAIN tree = 1 .. k /\ DOMAIN tree' = 1 .. k + 2
      /\ \A i \in 1 .. k : i # nid => tree'[i] = tree[i]
      /\ tree'[nid] = [tree[nid] EXCEPT !.left = k + 1, !.right = k + 2]
      /\ tree'[k + 1] = lc /\ tree'[k + 2] = rc
  BY DEF SplitAt
<1>2. p' = p /\ rows' = rows /\ p \in Settings /\ RowsOk
  BY DEF SplitStep, TreeInv
<1>3. PICK n : n = tree[nid]
  OBVIOUS
<1>4. IsNode(n) /\ Summed(n) /\ n.best # NoSplit /\ Weighable(n) /\ GainsMost(n, n.best)
  BY <1>1, <1>3 DEF TreeInv, GainInv, Gainful, SplitStep
<1>5. PICK wl \in Q, wr \in Q : wl = CalcWeight(n, n.best.left) /\ wr = CalcWeight(n, n.best.right)
  <2>1. PICK L : L = SideOf(n, n.best)
    OBVIOUS
  <2>2. L \in SUBSET (1 .. NumRows) /\ n.rows \ L \in SUBSET (1 .. NumRows)
    BY <1>4, <2>1 DEF Weighable, Sees, SideOf
  <2>3. n.best.left = SideSums(L) /\ n.best.right = SideSums(n.rows \ L)
    BY <1>4, <2>1 DEF Summed, AddsUp
  <2>4. n.best.left \in StatSet /\ n.best.right \in StatSet
    BY <1>2, <2>2, <2>3, SidesTyped
  <2> QED BY <1>2, <1>4, <2>4, WeightIs DEF Weighable
<1>6. PICK b : /\ b = AddSplit(n, f, wl, wr)
               /\ lc.lower = b.left[1] /\ lc.upper = b.left[2]
               /\ rc.lower = b.right[1] /\ rc.upper = b.right[2]
  BY <1>3, <1>5 DEF SplitStep
<1>7. Boxed(lc) /\ Boxed(rc)
  BY <1>4, <1>5, <1>6, BoxesTyped DEF Boxed, Weighable
<1>8. ASSUME NEW c \in {lc, rc} PROVE Gainful(c)
  <2>1. Summed(c) /\ Searched(c) /\ c.root_gain = NodeGain(n, c.sums) /\ Sees(c)
    BY <1>3 DEF SplitStep, Summed
  <2>2. c.sums = ByTarget(c.rows) /\ c.rows \in SUBSET (1 .. NumRows)
    BY <2>1 DEF Sees
  <2>3. c.root_gain \in Q
    BY <1>2, <1>4, <2>1, <2>2, NodeGainIs DEF Weighable
  <2>4. Weighable(c)
    BY <1>7, <2>1, <2>3 DEF Weighable
  <2> QED BY <2>1, <2>4 DEF Searched, Gainful
<1>9. PICK m : m = tree'[nid]
  OBVIOUS
<1>10. Gainful(m)
  <2>1. Relinked(m, n, k + 1, k + 2)
    BY <1>1, <1>3, <1>9 DEF Relinked
  <2>2. SameGain(m, n) /\ m.best = n.best
    BY <1>4, <2>1, Linked DEF SameNode
  <2> QED BY <1>4, <2>2, SameGains DEF Gainful
<1>11. ASSUME NEW i \in DOMAIN tree' PROVE Gainful(tree[i])'
  <2>1. PICK q : q = tree'[i]
    OBVIOUS
  <2>2. Gainful(q)
    <3>1. CASE i \in 1 .. k /\ i # nid
      BY <1>1, <2>1, <3>1 DEF GainInv
    <3>2. CASE i = nid
      BY <1>9, <1>10, <2>1, <3>2
    <3>3. CASE i = k + 1 \/ i = k + 2
      BY <1>1, <1>8, <2>1, <3>3
    <3> QED BY <1>1, <3>1, <3>2, <3>3
  <2>3. Weighable(q)' /\ GainsMost(q, q.best)'
    BY <1>2, <2>2, SamePartings DEF Gainful
  <2> QED BY <2>1, <2>3 DEF Gainful
<1> QED BY <1>11 DEF GainInv

(* Every step keeps it.                                                    *)
LEMMA NextGains == SearchInv /\ GainInv /\ [Next]_vars => GainInv'
<1> SUFFICES ASSUME SearchInv, GainInv, [Next]_vars PROVE GainInv'
  OBVIOUS
<1>1. TreeInv
  BY DEF SearchInv
<1>2. CASE InitRoot
  <2>1. PICK n : /\ tree' = <<n>> /\ UNCHANGED <<p, rows>>
                 /\ IsNode(n) /\ HasBest(n) /\ Summed(n) /\ Weighable(n) /\ Searched(n)
                 /\ n.left = 0 /\ n.right = 0 /\ n.allowed = Features /\ n.path = {}
                 /\ HasConstraint /\ ~IsMulti => InBox(n)
    BY <1>1, <1>2, RootIs
  <2>2. Weighable(n)' /\ GainsMost(n, n.best)'
    BY <2>1, SamePartings DEF Searched
  <2>3. DOMAIN tree' = {1} /\ tree'[1] = n
    BY <2>1
  <2>4. \A i \in DOMAIN tree' : Gainful(tree[i])'
    BY <2>2, <2>3 DEF Gainful
  <2> QED BY <2>4 DEF GainInv
<1>3. ASSUME NEW nid \in DOMAIN tree, ApplySplit(nid) PROVE GainInv'
  <2>1. PICK k : k = Len(tree)
    OBVIOUS
  <2>2. PICK f, lc, rc : SplitAt(nid, k, lc, rc) /\ SplitStep(nid, f, lc, rc)
    BY <1>1, <1>3, <2>1, ApplyEffect
  <2>3. k \in Nat
    BY <1>1, <2>1 DEF TreeInv
  <2> QED BY <1>1, <2>2, <2>3, SplitGains
<1>4. CASE UNCHANGED vars
  <2>1. p' = p /\ rows' = rows /\ tree' = tree
    BY <1>4 DEF vars
  <2>2. ASSUME NEW i \in DOMAIN tree' PROVE Gainful(tree[i])'
    <3>1. PICK q : q = tree[i] /\ q = tree'[i]
      BY <2>1
    <3>2. Weighable(q)' /\ GainsMost(q, q.best)'
      BY <2>1, <3>1, SamePartings DEF GainInv, Gainful
    <3> QED BY <3>1, <3>2 DEF Gainful
  <2> QED BY <2>2 DEF GainInv
<1> QED BY <1>2, <1>3, <1>4 DEF Next

(* The split found for a node gains the most of all partings of its rows   *)
(* that the parameters and constraints allow, and where none is found none *)
(* gains, for every number of rows, features, bins, categories, targets.   *)
THEOREM SearchIsBest == Spec => []BestSplit
<1>1. Init => GainInv
  BY DEF Init, GainInv
<1>2. GainInv /\ SidesAddUp => BestSplit
  <2> SUFFICES ASSUME GainInv, NEW i \in DOMAIN tree, NEW n, n = tree[i]
               PROVE  /\ \A g \in GainsOf(n) : AtMost(g, n.best.chg)
                      /\ Found(n.best) => n.best.chg \in GainsOf(n)
    BY DEF BestSplit, Newest
  <2> QED BY DEF GainInv, Gainful, GainsMost
<1> QED BY <1>1, <1>2, NextGains, SearchInvariant, SumsFollowRows, PTL DEF Spec

-----------------------------------------------------------------------------
(* Paths.                                                                  *)

Parents(m) == {i \in DOMAIN tree : i < m /\ m \in {tree[i].left, tree[i].right}}
Gathers(A, m) == A[m] = UNION {A[q] \cup {tree[q].best.f} : q \in Parents(m)}

(* The path a node keeps is what its parents add up to.                    *)
LEMMA StoredPath ==
  ASSUME SearchInv, NEW m \in DOMAIN tree
  PROVE  tree[m].path = UNION {tree[q].path \cup {tree[q].best.f} : q \in Parents(m)}
<1>1. PICK k \in Nat : DOMAIN tree = 1 .. k
  BY DEF SearchInv, TreeInv
<1>2. CASE m = 1
  <2>1. Parents(m) = {}
    BY <1>1, <1>2 DEF Parents
  <2>2. tree[m].path = {}
    BY <1>2 DEF SearchInv, PathInv
  <2> QED BY <2>1, <2>2
<1>3. CASE m # 1
  <2>1. PICK i \in DOMAIN tree : i < m /\ m \in Children(i)
    BY <1>3 DEF SearchInv, LinksInv
  <2>2. \A j \in DOMAIN tree : m \in Children(j) => j = i
    BY <2>1 DEF SearchInv, LinksInv
  <2>3. Parents(m) = {i}
    BY <2>1, <2>2 DEF Parents, Children
  <2>4. tree[m].path = tree[i].path \cup {tree[i].best.f}
    BY <2>1 DEF SearchInv, PathInv
  <2> QED BY <2>3, <2>4
<1> QED BY <1>2, <1>3

(* The features above a node, gathered from its parents up, are its path.  *)
LEMMA AboveIs ==
  ASSUME SearchInv, NEW A, \A m \in DOMAIN tree : Gathers(A, m)
  PROVE  \A m \in DOMAIN tree : A[m] = tree[m].path
<1> DEFINE T == {m \in DOMAIN tree : A[m] # tree[m].path}
<1>1. PICK k \in Nat : DOMAIN tree = 1 .. k
  BY DEF SearchInv, TreeInv
<1> SUFFICES ASSUME T # {} PROVE FALSE
  OBVIOUS
<1>2. PICK m \in T : \A j \in T : m <= j
  <2>1. T \in SUBSET Nat
    BY <1>1
  <2> HIDE DEF T
  <2> QED BY <2>1, LeastOf
<1>3. ASSUME NEW q \in Parents(m) PROVE A[q] = tree[q].path /\ q \in DOMAIN tree
  <2>1. q \in DOMAIN tree /\ q < m
    BY DEF Parents
  <2>2. q \notin T
    BY <1>1, <1>2, <2>1
  <2> QED BY <2>1, <2>2
<1>4. A[m] = tree[m].path
  <2>1. {A[q] \cup {tree[q].best.f} : q \in Parents(m)} =
        {tree[q].path \cup {tree[q].best.f} : q \in Parents(m)}
    BY <1>3
  <2>2. m \in DOMAIN tree /\ Gathers(A, m)
    BY <1>2
  <2> QED BY <2>1, <2>2, StoredPath DEF Gathers
<1> QED BY <1>2, <1>4

(* The features split on along any path are one feature, or all in one of  *)
(* the interaction groups.                                                 *)
THEOREM PathsKeepGroups == Spec => []PathsWithinGroup
<1>1. SearchInv => PathsWithinGroup
  <2> SUFFICES ASSUME SearchInv, p.interaction # {}, NEW nid \in DOMAIN tree
               PROVE  LET Above[m \in DOMAIN tree] ==
                            UNION {Above[q] \cup {tree[q].best.f} : q \in Parents(m)}
                          path == Above[nid]
                      IN Cardinality(path) <= 1 \/ \E g \in p.interaction : path \subseteq g
    BY DEF PathsWithinGroup, Parents
  <2> DEFINE E(F) == [m \in DOMAIN tree |->
                        UNION {F[q] \cup {tree[q].best.f} : q \in Parents(m)}]
             A == CHOOSE F : F = E(F)
             S == [m \in DOMAIN tree |-> tree[m].path]
  <2>1. S = E(S)
    <3>1. ASSUME NEW m \in DOMAIN tree
          PROVE  S[m] = UNION {S[q] \cup {tree[q].best.f} : q \in Parents(m)}
      <4>1. \A q \in Parents(m) : S[q] = tree[q].path
        BY DEF Parents
      <4>2. {S[q] \cup {tree[q].best.f} : q \in Parents(m)} =
            {tree[q].path \cup {tree[q].best.f} : q \in Parents(m)}
        BY <4>1
      <4> QED BY <4>2, StoredPath
    <3> QED BY <3>1
  <2>2. A = E(A)
    <3> HIDE DEF E, S
    <3> QED BY <2>1
  <2> HIDE DEF A
  <2>3. \A m \in DOMAIN tree : Gathers(A, m)
    BY <2>2 DEF Gathers
  <2>4. A[nid] = tree[nid].path
    BY <2>3, AboveIs
  <2>5. Within(tree[nid].path)
    BY DEF SearchInv, PathInv
  <2>6. Cardinality({}) = 0 /\ \A f : Cardinality({f}) = 1
    BY FS_EmptySet, FS_Singleton
  <2>7. Cardinality(A[nid]) <= 1 \/ \E g \in p.interaction : A[nid] \subseteq g
    <3>1. PICK P : P = tree[nid].path /\ P = A[nid]
      BY <2>4
    <3>2. CASE P = {}
      BY <2>6, <3>1, <3>2
    <3>3. ASSUME NEW f, P = {f} PROVE Cardinality(P) <= 1
      <4>1. Cardinality(P) = 1
        BY <2>6, <3>3, Zenon
      <4> QED BY <4>1
    <3> QED BY <2>5, <3>1, <3>2, <3>3 DEF Within
  <2> QED BY <2>7 DEF A
<1> QED BY <1>1, SearchInvariant, PTL

-----------------------------------------------------------------------------
(* Predictions.                                                            *)

(* What holds of a place once it holds of all after it, holds of all.      *)
LEMMA Backwards ==
  ASSUME NEW k \in Nat, NEW C,
         \A i \in 1 .. k : (\A j \in 1 .. k : j > i => j \in C) => i \in C
  PROVE  \A i \in 1 .. k : i \in C
<1> DEFINE D == {m \in Nat : \A i \in 1 .. k : i + m > k => i \in C}
<1>1. 0 \in D
  OBVIOUS
<1>2. ASSUME NEW m \in Nat, m \in D PROVE m + 1 \in D
  <2> SUFFICES ASSUME NEW i \in 1 .. k, i + (m + 1) > k PROVE i \in C
    OBVIOUS
  <2>1. \A j \in 1 .. k : j > i => j \in C
    BY <1>2
  <2> QED BY <2>1
<1>3. k \in D
  <2> HIDE DEF D
  <2> QED BY <1>1, <1>2, NatSetInduction
<1> QED BY <1>3

(* Whether a row goes left at a node, and where it ends up.                *)
Goes(x, i) ==
  LET e == tree[i].best
      bin == CutPtr(e.f) + x[e.f] - 1
  IN IF x[e.f] = 0 THEN e.default_left
     ELSE IF e.is_cat THEN bin \notin e.bits ELSE bin <= FindSplitCondition(e.f, e.value)
Onward(x, i) == IF Goes(x, i) THEN tree[i].left ELSE tree[i].right
Leads(x, F, i) == F[i] = IF tree[i].left = 0 THEN i ELSE F[Onward(x, i)]

(* A row's way through the tree ends, wherever it starts.                  *)
LEMMA LeafOfIs ==
  ASSUME SearchInv, tree # <<>>, NEW x
  PROVE  \E h : /\ LeafOf(x) = h[1]
                /\ \A i \in DOMAIN tree : Leads(x, h, i) /\ h[i] \in DOMAIN tree
<1>1. PICK k \in Nat : DOMAIN tree = 1 .. k
  BY DEF SearchInv, TreeInv
<1>2. \A i \in 1 .. k : tree[i].left # 0 =>
        Onward(x, i) \in 1 .. k /\ Onward(x, i) > i
  BY <1>1 DEF SearchInv, LinksInv, Onward
<1> DEFINE Good(i) == \E F \in [i .. k -> 1 .. k] : \A j \in i .. k : Leads(x, F, j)
           C == {i \in 1 .. k : Good(i)}
<1>3. ASSUME NEW i \in 1 .. k, \A j \in 1 .. k : j > i => j \in C PROVE i \in C
  <2>1. PICK F \in [i + 1 .. k -> 1 .. k] : \A j \in i + 1 .. k : Leads(x, F, j)
    <3>1. CASE i = k
      <4>1. i + 1 .. k = {}
        BY <3>1
      <4>2. [j \in i + 1 .. k |-> 1] \in [i + 1 .. k -> 1 .. k]
        BY <4>1
      <4> QED BY <4>1, <4>2
    <3>2. CASE i # k
      <4>1. i + 1 \in 1 .. k /\ i + 1 > i
        BY <3>2
      <4>2. Good(i + 1)
        BY <1>3, <4>1
      <4> QED BY <4>2
    <3> QED BY <3>1, <3>2
  <2>2. PICK b : b = Onward(x, i)
    OBVIOUS
  <2>3. PICK v : v = IF tree[i].left = 0 THEN i ELSE F[b]
    OBVIOUS
  <2>4. tree[i].left # 0 => b \in i + 1 .. k
    BY <1>2, <2>2
  <2>5. v \in 1 .. k
    BY <2>3, <2>4
  <2> DEFINE G == [j \in i .. k |-> IF j = i THEN v ELSE F[j]]
  <2>6. G \in [i .. k -> 1 .. k] /\ G[i] = v /\ \A j \in i + 1 .. k : G[j] = F[j] /\ j \in i .. k
    BY <2>5
  <2> HIDE DEF G
  <2>7. Leads(x, G, i)
    BY <2>2, <2>3, <2>4, <2>6 DEF Leads
  <2>8. ASSUME NEW j \in i + 1 .. k PROVE Leads(x, G, j)
    <3>1. Leads(x, F, j) /\ j \in 1 .. k
      BY <2>1
    <3>2. tree[j].left # 0 => Onward(x, j) \in i + 1 .. k
      BY <1>2, <3>1
    <3> QED BY <2>6, <3>1, <3>2 DEF Leads
  <2>9. \A j \in i .. k : Leads(x, G, j)
    BY <2>7, <2>8
  <2> QED BY <2>6, <2>9
<1>4. 1 \in 1 .. k
  BY <1>1 DEF SearchInv, TreeInv
<1>5. Good(1)
  <2> HIDE DEF Good
  <2>1. \A i \in 1 .. k : i \in C
    <3> HIDE DEF C
    <3> QED BY <1>3, Backwards
  <2> QED BY <1>4, <2>1
<1>6. PICK F \in [1 .. k -> 1 .. k] : \A j \in 1 .. k : Leads(x, F, j)
  BY <1>5
<1> HIDE DEF Good, C
<1> DEFINE E(G) == [i \in DOMAIN tree |-> IF tree[i].left = 0 THEN i ELSE G[Onward(x, i)]]
           h == CHOOSE G : G = E(G)
<1>7. F = E(F)
  BY <1>1, <1>6 DEF Leads
<1>8. h = E(h)
  <2> HIDE DEF E
  <2> QED BY <1>7
<1>9. LeafOf(x) = h[1]
  BY DEF LeafOf, Onward, Goes
<1> HIDE DEF h
<1>10. \A i \in DOMAIN tree : Leads(x, h, i)
  BY <1>8 DEF Leads
<1>11. \A i \in 1 .. k : h[i] \in 1 .. k
  <2> DEFINE D == {i \in 1 .. k : h[i] \in 1 .. k}
  <2>1. ASSUME NEW i \in 1 .. k, \A j \in 1 .. k : j > i => j \in D PROVE i \in D
    <3>1. Leads(x, h, i)
      BY <1>1, <1>10
    <3>2. tree[i].left # 0 => Onward(x, i) \in D
      BY <1>2, <2>1
    <3> QED BY <3>1, <3>2 DEF Leads
  <2>2. \A i \in 1 .. k : i \in D
    <3> HIDE DEF D
    <3> QED BY <2>1, Backwards
  <2> QED BY <2>2
<1> QED BY <1>1, <1>9, <1>10, <1>11

(* A weight is in a node's box.                                            *)
Held(v, n) == v \in Q /\ LE(n.lower, v) /\ LE(v, n.upper)

(* The weight of the leaf that a row reaches from a node is in its box.    *)
LEMMA WeightsHeld ==
  ASSUME SearchInv, HasConstraint, ~IsMulti, NEW x, NEW h,
         \A i \in DOMAIN tree : Leads(x, h, i) /\ h[i] \in DOMAIN tree
  PROVE  \A i \in DOMAIN tree : Held(tree[h[i]].weight, tree[i])
<1>1. PICK k \in Nat : DOMAIN tree = 1 .. k
  BY DEF SearchInv, TreeInv
<1> DEFINE C == {i \in 1 .. k : Held(tree[h[i]].weight, tree[i])}
<1>2. ASSUME NEW i \in 1 .. k, \A j \in 1 .. k : j > i => j \in C PROVE i \in C
  <2>1. Leads(x, h, i) /\ InBox(tree[i])
    BY <1>1 DEF SearchInv, BoxInv
  <2>2. CASE tree[i].left = 0
    <3>1. h[i] = i
      BY <2>1, <2>2 DEF Leads
    <3> QED BY <2>1, <3>1 DEF InBox, Held
  <2>3. CASE tree[i].left # 0
    <3>1. PICK c : c = Onward(x, i) /\ h[i] = h[c]
      BY <2>1, <2>3 DEF Leads
    <3>2. c \in 1 .. k /\ c > i
      BY <1>1, <2>3, <3>1 DEF SearchInv, LinksInv, Onward
    <3>3. Inside(tree[c], tree[i])
      BY <1>1, <2>3, <3>1 DEF SearchInv, BoxInv, Split, Onward
    <3>4. PICK m, n, v : m = tree[c] /\ n = tree[i] /\ v = tree[h[c]].weight
      OBVIOUS
    <3>5. Held(v, m)
      BY <1>2, <3>2, <3>4
    <3>6. Boxed(m) /\ Boxed(n)
      <4>1. InBox(m) /\ InBox(n)
        BY <1>1, <2>1, <3>2, <3>4 DEF SearchInv, BoxInv
      <4> QED BY <4>1 DEF InBox
    <3>7. Held(v, n)
      BY <3>3, <3>4, <3>5, <3>6, Ordered DEF Held, Inside, Boxed
    <3> QED BY <3>1, <3>4, <3>7
  <2> QED BY <2>2, <2>3
<1>3. \A i \in 1 .. k : i \in C
  <2> HIDE DEF C
  <2> QED BY <1>2, Backwards
<1> QED BY <1>1, <1>3

(* The row with one part more of a number.                                 *)
OneMore(x, f, z) == z = [x EXCEPT ![f] = @ + 1]

(* Two rows that differ in a number by one part only at a split on it, the *)
(* lesser to the left.                                                     *)
LEMMA GoesApart ==
  ASSUME SearchInv, ~IsMulti, NEW i \in DOMAIN tree, Split(i),
         NEW x \in [Features -> 0 .. p.bins], NEW f \in Features \ p.cat, x[f] # 0,
         NEW z, OneMore(x, f, z)
  PROVE  \/ Goes(x, i) <=> Goes(z, i)
         \/ Goes(x, i) /\ ~Goes(z, i) /\ tree[i].best.f = f
<1>1. PICK e : e = tree[i].best
  OBVIOUS
<1>2. e.f \in Features /\ (e.is_cat <=> e.f \in p.cat)
  <2>1. HasBest(tree[i]) /\ tree[i].best # NoSplit
    BY DEF SearchInv, TreeInv, LinksInv, Split
  <2>2. PICK g \in Features : IsSplit(tree[i], g, e)
    BY <1>1, <2>1 DEF HasBest
  <2> QED BY <2>2 DEF IsSplit
<1>3. CASE e.f # f
  <2>1. z[e.f] = x[e.f]
    BY <1>2, <1>3 DEF OneMore
  <2> QED BY <1>1, <2>1 DEF Goes
<1>4. CASE e.f = f
  <2>1. p.bins \in Nat /\ f \in Int
    BY SettingIs DEF SearchInv, TreeInv, Features
  <2>2. PICK n \in Nat : n = x[f] /\ n # 0 /\ z[f] = n + 1
    BY <2>1 DEF OneMore
  <2>3. PICK c : c = FindSplitCondition(f, e.value)
    OBVIOUS
  <2>4. PICK a \in Int : a = CutPtr(f)
    BY <2>1 DEF CutPtr
  <2>5. c \in Int
    <3>1. ToSet(FeatureBins(f)) = a .. a + p.bins - 1
      BY <2>4, BinsOf DEF SearchInv, TreeInv
    <3>2. \A b \in ToSet(FeatureBins(f)) : b \in Int
      BY <2>1, <3>1
    <3> QED BY <2>3, <3>2 DEF FindSplitCondition
  <2>6. /\ Goes(x, i) <=> a + n - 1 <= c
        /\ Goes(z, i) <=> a + (n + 1) - 1 <= c
    <3>1. e.is_cat <=> FALSE
      BY <1>2, <1>4
    <3>2. n + 1 # 0
      OBVIOUS
    <3> QED BY <1>1, <1>4, <2>2, <2>3, <2>4, <3>1, <3>2 DEF Goes
  <2> QED BY <1>1, <1>4, <2>5, <2>6
<1> QED BY <1>3, <1>4

(* Weights on the two sides of a split keep the order of its feature.      *)
LEMMA SidesOrdered ==
  ASSUME NEW l, NEW r, NEW f, Boxed(l), Boxed(r), Parted(l, r, f), NEW v, NEW u, Held(v, l),
         Held(u, r)
  PROVE  RightOrder(f, v, u)
<1>1. LE(l.upper, r.lower) => LE(v, u)
  BY Ordered DEF Held, Boxed
<1>2. LE(r.upper, l.lower) => LE(u, v)
  BY Ordered DEF Held, Boxed
<1>3. v \in Q /\ u \in Q
  BY DEF Held
<1>4. (AtMost(v, u) <=> LE(v, u)) /\ (AtMost(u, v) <=> LE(u, v))
  BY <1>3, ComparedAs
<1> QED BY <1>1, <1>2, <1>4 DEF RightOrder, Parted

(* More of a number never lowers a prediction that must not fall with it,  *)
(* nor raises one that must not rise, in every tree that the search grows. *)
THEOREM PredictionsMonotone == Spec => []MonotonePredictions
<1>1. ASSUME SearchInv, tree # <<>>, HasConstraint, ~IsMulti,
             NEW x \in [Features -> 0 .. p.bins], NEW f \in Features \ p.cat, x[f] # 0,
             NEW z, OneMore(x, f, z)
      PROVE  RightOrder(f, tree[LeafOf(x)].weight, tree[LeafOf(z)].weight)
  <2>1. PICK k \in Nat : DOMAIN tree = 1 .. k /\ k # 0
    BY <1>1 DEF SearchInv, TreeInv
  <2>2. PICK h : /\ LeafOf(x) = h[1]
                 /\ \A i \in DOMAIN tree : Leads(x, h, i) /\ h[i] \in DOMAIN tree
    BY <1>1, LeafOfIs
  <2>3. PICK g : /\ LeafOf(z) = g[1]
                 /\ \A i \in DOMAIN tree : Leads(z, g, i) /\ g[i] \in DOMAIN tree
    BY <1>1, LeafOfIs
  <2>4. \A i \in DOMAIN tree : Held(tree[h[i]].weight, tree[i])
    BY <1>1, <2>2, WeightsHeld
  <2>5. \A i \in DOMAIN tree : Held(tree[g[i]].weight, tree[i])
    BY <1>1, <2>3, WeightsHeld
  <2> DEFINE C == {i \in 1 .. k : RightOrder(f, tree[h[i]].weight, tree[g[i]].weight)}
  <2>6. ASSUME NEW i \in 1 .. k, \A j \in 1 .. k : j > i => j \in C PROVE i \in C
    <3>1. Leads(x, h, i) /\ Leads(z, g, i)
      BY <2>1, <2>2, <2>3
    <3>2. CASE tree[i].left = 0
      <4>1. PICK v : v = tree[h[i]].weight
        OBVIOUS
      <4>2. tree[g[i]].weight = v
        BY <3>1, <3>2, <4>1 DEF Leads
      <4>3. v \in Q /\ AtMost(v, v)
        BY <2>1, <2>4, <4>1, Ordered, ComparedAs DEF Held
      <4> QED BY <4>1, <4>2, <4>3 DEF RightOrder
    <3>3. CASE tree[i].left # 0 /\ (Goes(x, i) <=> Goes(z, i))
      <4>1. PICK c : c = Onward(x, i) /\ c = Onward(z, i)
        BY <3>3 DEF Onward
      <4>2. c \in 1 .. k /\ c > i
        BY <1>1, <2>1, <3>3, <4>1 DEF SearchInv, LinksInv, Onward
      <4>3. h[i] = h[c] /\ g[i] = g[c]
        BY <3>1, <3>3, <4>1 DEF Leads
      <4> QED BY <2>6, <4>2, <4>3
    <3>4. CASE tree[i].left # 0 /\ Goes(x, i) /\ ~Goes(z, i) /\ tree[i].best.f = f
      <4>1. PICK a, b : a = tree[i].left /\ b = tree[i].right
        OBVIOUS
      <4>2. a \in 1 .. k /\ b \in 1 .. k
        BY <1>1, <2>1, <3>4, <4>1 DEF SearchInv, LinksInv
      <4>3. h[i] = h[a] /\ g[i] = g[b]
        BY <3>1, <3>4, <4>1 DEF Leads, Onward
      <4>4. PICK l, r, v, u : /\ l = tree[a] /\ r = tree[b]
                              /\ v = tree[h[a]].weight /\ u = tree[g[b]].weight
        OBVIOUS
      <4>5. Held(v, l) /\ Held(u, r)
        BY <2>1, <2>4, <2>5, <4>2, <4>4
      <4>6. Parted(l, r, f)
        BY <1>1, <2>1, <3>4, <4>1, <4>4 DEF SearchInv, BoxInv, Split
      <4>7. InBox(l) /\ InBox(r)
        BY <1>1, <2>1, <4>2, <4>4 DEF SearchInv, BoxInv
      <4>8. RightOrder(f, v, u)
        BY <4>5, <4>6, <4>7, SidesOrdered DEF InBox
      <4> QED BY <4>3, <4>4, <4>8
    <3>5. tree[i].left # 0 =>
            \/ Goes(x, i) <=> Goes(z, i)
            \/ Goes(x, i) /\ ~Goes(z, i) /\ tree[i].best.f = f
      <4> SUFFICES ASSUME tree[i].left # 0
                   PROVE  \/ Goes(x, i) <=> Goes(z, i)
                          \/ Goes(x, i) /\ ~Goes(z, i) /\ tree[i].best.f = f
        OBVIOUS
      <4>1. Split(i) /\ i \in DOMAIN tree
        BY <2>1 DEF Split
      <4> QED BY <1>1, <4>1, GoesApart
    <3> QED BY <3>2, <3>3, <3>4, <3>5
  <2>7. \A i \in 1 .. k : i \in C
    <3> HIDE DEF C
    <3> QED BY <2>6, Backwards
  <2>8. 1 \in 1 .. k
    BY <2>1
  <2> QED BY <2>2, <2>3, <2>7, <2>8
<1>2. SearchInv => MonotonePredictions
  BY <1>1 DEF MonotonePredictions, OneMore
<1> QED BY <1>2, SearchInvariant, PTL
=============================================================================
