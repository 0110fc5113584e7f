--------------------------- MODULE PartitionProofs ---------------------------
(***************************************************************************)
(* The theorems about RowPartition and BlockPartition: whatever the lengths *)
(* of the segments, the device's partition is stable for any width of a    *)
(* cube and in whatever order its units run between two barriers, and the  *)
(* host's for any size of a block and any threshold, in whatever order the *)
(* tasks run.  First the host's, then the device's.                        *)
(***************************************************************************)
EXTENDS BlockPartition, CommonLemmas

-----------------------------------------------------------------------------
(* Sums over a finite set.                                                 *)

(* SumOf is such a sum.                                                    *)
LEMMA SumOfIs ==
  ASSUME NEW S, IsFiniteSet(S), NEW f, \A x \in S : f[x] \in Int,
         NEW g \in [SUBSET S -> Int], SubsetSums(f, S, g), NEW T \in SUBSET S
  PROVE  SumOf(f, T) = g[T]
<1> DEFINE E(F) == [U \in SUBSET T |-> IF U = {} THEN 0 ELSE f[Pick(U)] + F[U \ {Pick(U)}]]
           h == CHOOSE F : F = E(F)
<1>1. SumOf(f, T) = h[T]
  BY DEF SumOf, FoldSet, MapThenFoldSet, Pick
<1>2. IsFiniteSet(T)
  BY FS_Subset
<1>3. PICK d \in [SUBSET T -> Int] : SubsetSums(f, T, d)
  <2>1. \A x \in T : f[x] \in Int
    OBVIOUS
  <2> QED BY <1>2, <2>1, SumsExist
<1>4. d = E(d)
  <2>1. \A U \in SUBSET T : d[U] = IF U = {} THEN 0 ELSE f[Pick(U)] + d[U \ {Pick(U)}]
    BY <1>3 DEF SubsetSums, SumsTo
  <2> QED BY <2>1
<1>5. h = E(h)
  <2> HIDE DEF E
  <2> QED BY <1>4
<1> HIDE DEF h
<1>6. SubsetSums(f, T, h)
  BY <1>5 DEF SubsetSums, SumsTo
<1> QED BY <1>1, <1>6, SumsAgree

(* A sum is a number, 0 over nothing, and any member can be taken out.     *)
LEMMA SumOut ==
  ASSUME NEW S, IsFiniteSet(S), NEW f, \A x \in S : f[x] \in Int
  PROVE  /\ SumOf(f, S) \in Int
         /\ S = {} => SumOf(f, S) = 0
         /\ \A x \in S : SumOf(f, S) = f[x] + SumOf(f, S \ {x})
<1>1. PICK g \in [SUBSET S -> Int] : SubsetSums(f, S, g)
  BY SumsExist
<1>2. \A T \in SUBSET S : SumOf(f, T) = g[T]
  BY <1>1, SumOfIs
<1>3. S = {} => g[S] = 0
  BY <1>1 DEF SubsetSums, SumsTo
<1>4. \A x \in S : g[S] = f[x] + g[S \ {x}]
  <2>1. OutOf(f, S, g)
    BY <1>1, TakenOut
  <2> QED BY <2>1 DEF OutOf
<1>5. S \in SUBSET S /\ \A x \in S : S \ {x} \in SUBSET S
  OBVIOUS
<1> QED BY <1>1, <1>2, <1>3, <1>4, <1>5

-----------------------------------------------------------------------------
(* The segments, and how many of their rows go left.                       *)

Given == launch \in Launches /\ table = TileTable(launch) /\ goes_left \in [Positions -> BOOLEAN]
NumSegs == Len(launch.lens)

(* What the tables of a launch are made of: sums of what came before.      *)
RunningSum(n, l, b) ==
  /\ DOMAIN b = 1 .. n + 1 /\ Len(b) = n + 1 /\ b[1] = 1
  /\ \A s \in 1 .. n + 1 : b[s] \in Nat \ {0}
  /\ \A s \in 1 .. n : b[s + 1] = b[s] + l[s]
  /\ \A s, t \in 1 .. n + 1 : s <= t => b[s] <= b[t]

(* They rise from one to the next by what it has.                          *)
LEMMA RunningSums ==
  ASSUME NEW n \in Nat, NEW l, \A s \in 1 .. n : l[s] \in Nat,
         NEW b, b = [s \in 1 .. n + 1 |-> 1 + SumOf(l, 1 .. s - 1)]
  PROVE  RunningSum(n, l, b)
<1>1. \A s \in 1 .. n + 1 : b[s] = 1 + SumOf(l, 1 .. s - 1)
  OBVIOUS
<1>2. \A s \in 1 .. n + 1 : SumOf(l, 1 .. s - 1) \in Int
  <2> SUFFICES ASSUME NEW s \in 1 .. n + 1 PROVE SumOf(l, 1 .. s - 1) \in Int
    OBVIOUS
  <2>1. IsFiniteSet(1 .. s - 1)
    BY FS_Interval
  <2>2. \A x \in 1 .. s - 1 : l[x] \in Int
    OBVIOUS
  <2> QED BY <2>1, <2>2, SumOut
<1>3. SumOf(l, 1 .. 0) = 0
  <2>1. 1 .. 0 = {} /\ IsFiniteSet(1 .. 0)
    BY FS_EmptySet
  <2>2. \A x \in 1 .. 0 : l[x] \in Int
    OBVIOUS
  <2> QED BY <2>1, <2>2, SumOut
<1>4. ASSUME NEW s \in 1 .. n
      PROVE  SumOf(l, 1 .. s) = l[s] + SumOf(l, 1 .. s - 1)
  <2>1. PICK S : S = 1 .. s
    OBVIOUS
  <2>2. IsFiniteSet(S) /\ s \in S /\ S \ {s} = 1 .. s - 1
    <3>1. IsFiniteSet(1 .. s)
      BY FS_Interval
    <3>2. s \in 1 .. s /\ (1 .. s) \ {s} = 1 .. s - 1
      OBVIOUS
    <3> QED BY <2>1, <3>1, <3>2
  <2>3. \A x \in S : l[x] \in Int
    BY <2>1
  <2>4. SumOf(l, S) = l[s] + SumOf(l, S \ {s})
    BY <2>2, <2>3, SumOut
  <2> QED BY <2>1, <2>2, <2>4
<1>5. DOMAIN b = 1 .. n + 1 /\ Len(b) = n + 1
  <2>1. b \in [1 .. n + 1 -> Int]
    BY <1>2
  <2> QED BY <2>1
<1>6. b[1] = 1
  <2>1. 1 \in 1 .. n + 1 /\ 1 - 1 = 0
    OBVIOUS
  <2>2. b[1] = 1 + SumOf(l, 1 .. 0)
    BY <1>1, <2>1
  <2> QED BY <1>3, <2>2
<1>7. ASSUME NEW s \in 1 .. n PROVE b[s + 1] = b[s] + l[s]
  <2>1. s \in 1 .. n + 1 /\ s + 1 \in 1 .. n + 1 /\ (s + 1) - 1 = s
    OBVIOUS
  <2>2. b[s + 1] = 1 + SumOf(l, 1 .. s) /\ b[s] = 1 + SumOf(l, 1 .. s - 1)
    BY <1>1, <2>1
  <2>3. SumOf(l, 1 .. s - 1) \in Int /\ l[s] \in Int
    BY <1>2, <2>1
  <2> QED BY <1>4, <2>2, <2>3
<1>8. \A s \in 1 .. n + 1 : b[s] \in Int
  BY <1>1, <1>2
<1> DEFINE C == {k \in Nat : \A s \in 1 .. n + 1 : s + k \in 1 .. n + 1 => b[s] <= b[s + k]}
<1>9. 0 \in C
  BY <1>8
<1>10. ASSUME NEW k \in Nat, k \in C PROVE k + 1 \in C
  <2> SUFFICES ASSUME NEW s \in 1 .. n + 1, s + (k + 1) \in 1 .. n + 1
               PROVE  b[s] <= b[s + (k + 1)]
    OBVIOUS
  <2>1. s + k \in 1 .. n /\ s + k \in 1 .. n + 1 /\ s + (k + 1) = (s + k) + 1
    OBVIOUS
  <2>2. b[s] <= b[s + k]
    BY <1>10, <2>1
  <2>3. b[(s + k) + 1] = b[s + k] + l[s + k] /\ l[s + k] \in Nat
    BY <1>7, <2>1
  <2>4. b[s] \in Int /\ b[s + k] \in Int
    BY <1>8, <2>1
  <2> QED BY <2>1, <2>2, <2>3, <2>4
<1> HIDE DEF C
<1>11. \A k \in Nat : k \in C
  BY <1>9, <1>10, NatSetInduction
<1>12. ASSUME NEW s \in 1 .. n + 1, NEW t \in 1 .. n + 1, s <= t PROVE b[s] <= b[t]
  <2>1. t - s \in Nat /\ s + (t - s) = t
    BY <1>12
  <2>2. t - s \in C
    BY <1>11, <2>1
  <2> QED BY <2>1, <2>2 DEF C
<1>13. ASSUME NEW s \in 1 .. n + 1 PROVE b[s] \in Nat \ {0}
  <2>1. b[1] <= b[s]
    BY <1>12
  <2> QED BY <1>6, <1>8, <2>1
<1> QED BY <1>5, <1>6, <1>7, <1>12, <1>13 DEF RunningSum

(* The segments lie one after another, from position 1 to the last one.    *)
LEMMA Laid ==
  ASSUME Given
  PROVE  /\ NumSegs \in Nat /\ Segs = 1 .. NumSegs /\ Begin(1) = 1
         /\ LastPosition = Begin(NumSegs + 1)
         /\ \A s \in 1 .. NumSegs + 1 : Begin(s) \in Nat \ {0}
         /\ \A s \in Segs : launch.lens[s] \in Nat /\ Begin(s + 1) = Begin(s) + launch.lens[s]
         /\ \A s, t \in 1 .. NumSegs + 1 : s <= t => Begin(s) <= Begin(t)
<1> DEFINE n == NumSegs
           lens == launch.lens
<1>1. /\ lens \in Seq(Nat) /\ n \in Nat /\ Segs = 1 .. n /\ DOMAIN lens = 1 .. n
      /\ \A s \in 1 .. n : lens[s] \in Nat
  BY RowPartitionAssumption DEF Given, NumSegs, Segs
<1>2. table.begin = [s \in 1 .. n + 1 |-> 1 + SumOf(lens, 1 .. s - 1)]
  BY DEF Given, TileTable, NumSegs
<1>3. RunningSum(n, lens, table.begin)
  <2> HIDE DEF n, lens
  <2> QED BY <1>1, <1>2, RunningSums
<1>4. LastPosition = Begin(n + 1)
  BY <1>3 DEF LastPosition, RunningSum
<1> QED BY <1>1, <1>3, <1>4 DEF RunningSum, Begin

(* Where they lie among the positions, apart from one another.             *)
LEMMA SlicesApart ==
  ASSUME Given
  PROVE  /\ \A s \in Segs : /\ Begin(s) \in Nat /\ Begin(s + 1) \in Nat /\ launch.lens[s] \in Nat
                            /\ Begin(s + 1) = Begin(s) + launch.lens[s]
                            /\ Slice(s) \subseteq Positions /\ 0 \notin Slice(s)
                            /\ LastPosition \notin Slice(s)
         /\ \A s, t \in Segs : s # t => Slice(s) \cap Slice(t) = {}
         /\ LastPosition \in Nat
<1> DEFINE n == NumSegs
<1>1. /\ n \in Nat /\ Segs = 1 .. n /\ LastPosition = Begin(n + 1)
      /\ \A s \in 1 .. n + 1 : Begin(s) \in Nat \ {0}
      /\ \A s \in 1 .. n : launch.lens[s] \in Nat /\ Begin(s + 1) = Begin(s) + launch.lens[s]
      /\ \A s, t \in 1 .. n + 1 : s <= t => Begin(s) <= Begin(t)
  BY Laid
<1> HIDE DEF n
<1>6. ASSUME NEW s \in 1 .. n, NEW t \in 1 .. n, s # t PROVE Slice(s) \cap Slice(t) = {}
  <2>1. ASSUME NEW a \in 1 .. n, NEW b \in 1 .. n, a < b PROVE Slice(a) \cap Slice(b) = {}
    <3>1. a + 1 \in 1 .. n + 1 /\ b \in 1 .. n + 1 /\ a + 1 <= b /\ a \in 1 .. n + 1
          /\ b + 1 \in 1 .. n + 1
      BY <1>1, <2>1
    <3>2. Begin(a + 1) <= Begin(b) /\ Begin(a + 1) \in Nat /\ Begin(b) \in Nat
      BY <1>1, <3>1
    <3>3. Begin(a) \in Nat /\ Begin(b + 1) \in Nat
      BY <1>1, <3>1
    <3> QED BY <3>2, <3>3 DEF Slice
  <2>2. s < t \/ t < s
    BY <1>1, <1>6
  <2> QED BY <2>1, <2>2
<1>7. ASSUME NEW s \in 1 .. n
      PROVE  /\ Begin(s) \in Nat /\ Begin(s + 1) \in Nat
             /\ Slice(s) \subseteq Positions /\ 0 \notin Slice(s) /\ LastPosition \notin Slice(s)
  <2>1. s \in 1 .. n + 1 /\ s + 1 \in 1 .. n + 1 /\ n + 1 \in 1 .. n + 1 /\ s + 1 <= n + 1
    BY <1>1
  <2>2. Begin(s) \in Nat \ {0} /\ Begin(s + 1) \in Nat \ {0} /\ Begin(n + 1) \in Nat \ {0}
        /\ Begin(s + 1) <= Begin(n + 1)
    BY <1>1, <2>1
  <2> QED BY <1>1, <2>2 DEF Slice, Positions
<1>8. LastPosition \in Nat
  <2>1. n + 1 \in 1 .. n + 1
    BY <1>1
  <2> QED BY <1>1, <2>1
<1> QED BY <1>1, <1>6, <1>7, <1>8

(* The rows of a segment before a position that go left, and how many.     *)
Lefts(s, p) == {q \in Begin(s) .. p - 1 : goes_left[q]}
Left(s, p) == Cardinality(Lefts(s, p))

Grows(s, p, q) ==
  /\ Left(s, p) \in Nat /\ Left(s, q) \in Nat
  /\ Left(s, p) <= Left(s, q) /\ Left(s, q) - Left(s, p) <= q - p
  /\ IsFiniteSet({r \in p .. q - 1 : goes_left[r]})
  /\ Left(s, q) = Left(s, p) + Cardinality({r \in p .. q - 1 : goes_left[r]})

(* Among a stretch of rows some go left, at most all.                      *)
LEMMA LeftGrows ==
  ASSUME Given, NEW s \in Segs, NEW p \in Int, NEW q \in Int, Begin(s) <= p, p <= q
  PROVE  Grows(s, p, q)
<1> DEFINE D == {r \in p .. q - 1 : goes_left[r]}
<1>1. Begin(s) \in Nat
  BY SlicesApart
<1>2. /\ IsFiniteSet(Begin(s) .. p - 1) /\ IsFiniteSet(p .. q - 1)
      /\ Cardinality(p .. q - 1) = q - p
  <2>1. p - 1 \in Int /\ q - 1 \in Int
    OBVIOUS
  <2>2. Cardinality(p .. q - 1) = IF p > q - 1 THEN 0 ELSE (q - 1) - p + 1
    BY <2>1, FS_Interval, Zenon
  <2>3. Cardinality(p .. q - 1) = q - p
    BY <2>2
  <2>4. IsFiniteSet(p .. q - 1) /\ IsFiniteSet(Begin(s) .. p - 1)
    <3>1. Begin(s) \in Int
      BY <1>1
    <3> QED BY <2>1, <3>1, FS_Interval, Zenon
  <2> QED BY <2>3, <2>4
<1>3. IsFiniteSet(Lefts(s, p)) /\ IsFiniteSet(D) /\ Cardinality(D) <= q - p
  <2>1. Lefts(s, p) \subseteq Begin(s) .. p - 1 /\ D \subseteq p .. q - 1
    BY DEF Lefts
  <2> QED BY <1>2, <2>1, FS_Subset
<1>4. Lefts(s, q) = Lefts(s, p) \cup D /\ Lefts(s, p) \cap D = {}
  BY <1>1 DEF Lefts
<1>5. Cardinality(Lefts(s, p)) \in Nat /\ Cardinality(D) \in Nat
  BY <1>3, FS_CardinalityType
<1>6. Cardinality(Lefts(s, q)) = Cardinality(Lefts(s, p)) + Cardinality(D)
  <2>1. Cardinality(Lefts(s, p) \cup D)
          = Cardinality(Lefts(s, p)) + Cardinality(D) - Cardinality(Lefts(s, p) \cap D)
    <3> HIDE DEF D
    <3> QED BY <1>3, FS_Union, Zenon
  <2>2. Cardinality({}) = 0
    BY FS_EmptySet
  <2> HIDE DEF D
  <2>3. Cardinality(Lefts(s, p) \cap D) = 0 /\ Lefts(s, p) \cup D = Lefts(s, q)
    BY <1>4, <2>2
  <2>4. PICK a \in Nat, d \in Nat : a = Cardinality(Lefts(s, p)) /\ d = Cardinality(D)
    BY <1>5
  <2>5. Cardinality(Lefts(s, p) \cup D) = a + d - 0
    BY <2>1, <2>3, <2>4
  <2>6. Cardinality(Lefts(s, p) \cup D) = a + d
    BY <2>5
  <2> QED BY <2>3, <2>4, <2>6
<1> QED BY <1>3, <1>5, <1>6 DEF Left, Grows

(* One row more.                                                           *)
LEMMA LeftNext ==
  ASSUME Given, NEW s \in Segs, NEW p \in Slice(s)
  PROVE  /\ p \in Int /\ Begin(s) <= p /\ p + 1 <= Begin(s + 1) /\ goes_left[p] \in BOOLEAN
         /\ Left(s, p) \in Nat
         /\ Left(s, p + 1) = Left(s, p) + (IF goes_left[p] THEN 1 ELSE 0)
<1>1. p \in Int /\ Begin(s) <= p /\ p + 1 <= Begin(s + 1) /\ p \in Positions /\ Begin(s) \in Nat
  BY SlicesApart DEF Slice
<1>2. goes_left[p] \in BOOLEAN
  BY <1>1 DEF Given
<1>3. Left(s, p) \in Nat
      /\ Left(s, p + 1) = Left(s, p) + Cardinality({r \in p .. (p + 1) - 1 : goes_left[r]})
  <2>1. p + 1 \in Int /\ p <= p + 1
    BY <1>1
  <2>2. Grows(s, p, p + 1)
    BY <1>1, <2>1, LeftGrows
  <2> QED BY <2>2 DEF Grows
<1>4. Cardinality({r \in p .. (p + 1) - 1 : goes_left[r]}) = IF goes_left[p] THEN 1 ELSE 0
  <2>1. p .. (p + 1) - 1 = {p}
    BY <1>1
  <2>2. CASE goes_left[p]
    <3>1. {r \in p .. (p + 1) - 1 : goes_left[r]} = {p}
      BY <2>1, <2>2
    <3> QED BY <2>2, <3>1, FS_Singleton
  <2>3. CASE ~goes_left[p]
    <3>1. {r \in p .. (p + 1) - 1 : goes_left[r]} = {}
      BY <2>1, <2>3
    <3> QED BY <2>3, <3>1, FS_EmptySet
  <2> QED BY <2>2, <2>3
<1> QED BY <1>1, <1>2, <1>3, <1>4

(* Where a stable partition puts the row at a position.                    *)
Place(s, p) ==
  IF goes_left[p] THEN Begin(s) + Left(s, p)
  ELSE Begin(s) + Left(s, Begin(s + 1)) + ((p - Begin(s)) - Left(s, p))

(* Each row has a place of its own in its segment.                         *)
LEMMA Places ==
  ASSUME Given, NEW s \in Segs
  PROVE  /\ \A p \in Slice(s) : Place(s, p) \in Slice(s)
         /\ \A p, q \in Slice(s) : p # q => Place(s, p) # Place(s, q)
<1> DEFINE b == Begin(s)
           e == Begin(s + 1)
           L(p) == Left(s, p)
<1>1. b \in Nat /\ e \in Nat /\ b <= e
  BY SlicesApart
<1>2. ASSUME NEW p \in Slice(s)
      PROVE  /\ p \in Int /\ b <= p /\ p < e /\ goes_left[p] \in BOOLEAN /\ L(p) \in Nat
             /\ L(p + 1) = L(p) + (IF goes_left[p] THEN 1 ELSE 0)
             /\ L(p) <= p - b /\ L(p + 1) <= L(e) /\ L(e) - L(p + 1) <= e - (p + 1) /\ L(e) \in Nat
  <2>1. /\ p \in Int /\ b <= p /\ p + 1 <= e /\ goes_left[p] \in BOOLEAN /\ L(p) \in Nat
        /\ L(p + 1) = L(p) + (IF goes_left[p] THEN 1 ELSE 0)
    BY LeftNext
  <2>2. L(p) - L(b) <= p - b /\ L(b) = 0
    <3>1. L(p) - L(b) <= p - b
      <4>1. Grows(s, b, p)
        <5>1. b \in Int /\ b <= b
          BY <1>1
        <5> QED BY <2>1, <5>1, LeftGrows
      <4> QED BY <4>1 DEF Grows
    <3>2. Lefts(s, b) = {}
      BY <1>1 DEF Lefts
    <3> QED BY <3>1, <3>2, FS_EmptySet DEF Left
  <2>3. L(p + 1) <= L(e) /\ L(e) - L(p + 1) <= e - (p + 1) /\ L(e) \in Nat
    <3>1. Grows(s, p + 1, e)
      <4>1. p + 1 \in Int /\ e \in Int /\ b <= p + 1
        BY <1>1, <2>1
      <4> QED BY <2>1, <4>1, LeftGrows
    <3> QED BY <3>1 DEF Grows
  <2> QED BY <1>1, <2>1, <2>2, <2>3
<1>3. ASSUME NEW p \in Slice(s), NEW q \in Slice(s), p < q
      PROVE  L(p + 1) <= L(q) /\ L(q) - L(p + 1) <= q - (p + 1)
  <2>1. p + 1 \in Int /\ q \in Int /\ b <= p + 1 /\ p + 1 <= q
    BY <1>1, <1>2, <1>3
  <2>2. Grows(s, p + 1, q)
    BY <2>1, LeftGrows
  <2> QED BY <2>2 DEF Grows
<1>4. \A p : Place(s, p) = IF goes_left[p] THEN b + L(p) ELSE b + L(e) + ((p - b) - L(p))
  BY DEF Place
<1>s. Slice(s) = b .. e - 1
  BY DEF Slice
<1> HIDE DEF b, e, L
<1>5. ASSUME NEW p \in Slice(s) PROVE Place(s, p) \in b .. e - 1
  <2>1. CASE goes_left[p]
    BY <1>1, <1>2, <1>4, <2>1
  <2>2. CASE ~goes_left[p]
    BY <1>1, <1>2, <1>4, <2>2
  <2> QED BY <2>1, <2>2
<1>6. ASSUME NEW p \in Slice(s), NEW q \in Slice(s), p < q PROVE Place(s, p) # Place(s, q)
  <2>1. L(p + 1) <= L(q) /\ L(q) - L(p + 1) <= q - (p + 1)
    BY <1>3, <1>6
  <2>2. /\ p \in Int /\ L(p) \in Nat /\ L(p + 1) = L(p) + (IF goes_left[p] THEN 1 ELSE 0)
        /\ L(p) <= p - b /\ L(p + 1) <= L(e) /\ L(e) \in Nat
    BY <1>2
  <2>3. /\ q \in Int /\ L(q) \in Nat /\ L(q + 1) = L(q) + (IF goes_left[q] THEN 1 ELSE 0)
        /\ L(q) <= q - b /\ L(q + 1) <= L(e)
    BY <1>2
  <2>4. CASE goes_left[p] /\ goes_left[q]
    BY <1>1, <1>4, <2>1, <2>2, <2>3, <2>4
  <2>5. CASE goes_left[p] /\ ~goes_left[q]
    BY <1>1, <1>4, <2>1, <2>2, <2>3, <2>5
  <2>6. CASE ~goes_left[p] /\ goes_left[q]
    BY <1>1, <1>4, <2>1, <2>2, <2>3, <2>6
  <2>7. CASE ~goes_left[p] /\ ~goes_left[q]
    BY <1>1, <1>4, <1>6, <2>1, <2>2, <2>3, <2>7
  <2> QED BY <2>4, <2>5, <2>6, <2>7
<1>7. ASSUME NEW p \in Slice(s), NEW q \in Slice(s), p # q PROVE Place(s, p) # Place(s, q)
  <2>1. p < q \/ q < p
    BY <1>2, <1>7
  <2> QED BY <1>6, <2>1
<1> QED BY <1>5, <1>7, <1>s

-----------------------------------------------------------------------------
(* Stable order.                                                           *)

SegRows(s) == [j \in 1 .. launch.lens[s] |-> Begin(s) + j - 1]
Lefty == {r \in Positions : goes_left[r]}
Righty == {r \in Positions : ~goes_left[r]}
CountIn(S, b, p) == Cardinality({r \in b .. p - 1 : r \in S})

Counted(S, b, p) ==
  /\ CountIn(S, b, p) \in Nat /\ CountIn(S, b, b) = 0
  /\ CountIn(S, b, p + 1) = IF p \in S THEN CountIn(S, b, p) + 1 ELSE CountIn(S, b, p)

(* A number that is counted or not.                                        *)
LEMMA CountNext ==
  ASSUME NEW S, NEW b \in Int, NEW p \in Int, b <= p
  PROVE  Counted(S, b, p)
<1> DEFINE D == {r \in b .. p - 1 : r \in S}
<1>1. IsFiniteSet(D) /\ Cardinality(D) \in Nat
  <2>1. IsFiniteSet(b .. p - 1)
    <3>1. p - 1 \in Int
      OBVIOUS
    <3> QED BY <3>1, FS_Interval, Zenon
  <2>2. D \subseteq b .. p - 1
    OBVIOUS
  <2> QED BY <2>1, <2>2, FS_Subset, FS_CardinalityType
<1>2. CountIn(S, b, b) = 0
  <2>1. {r \in b .. b - 1 : r \in S} = {}
    OBVIOUS
  <2> QED BY <2>1, FS_EmptySet DEF CountIn
<1>3. CASE p \in S
  <2>1. {r \in b .. (p + 1) - 1 : r \in S} = D \cup {p} /\ p \notin D
    BY <1>3
  <2>2. Cardinality(D \cup {p}) = Cardinality(D) + 1
    <3> HIDE DEF D
    <3> QED BY <1>1, <2>1, FS_AddElement
  <2> QED BY <1>1, <1>2, <1>3, <2>1, <2>2 DEF CountIn, Counted
<1>4. CASE p \notin S
  <2>1. {r \in b .. (p + 1) - 1 : r \in S} = D
    BY <1>4
  <2> QED BY <1>1, <1>2, <1>4, <2>1 DEF CountIn, Counted
<1> QED BY <1>3, <1>4

(* A sequence of the members of a set among the m numbers from b on, each  *)
(* at the place that its rank among them gives it.                         *)
ChosenIs(X, c, b, m, S) ==
  /\ c \in Seq(X) /\ Len(c) = CountIn(S, b, b + m)
  /\ \A i \in 1 .. Len(c) : /\ c[i] \in S /\ c[i] \in b .. (b + m) - 1
                           /\ CountIn(S, b, c[i]) = i - 1

(* What is chosen of consecutive numbers, and at which place.              *)
LEMMA ChosenAt ==
  ASSUME NEW X, NEW b \in Int, NEW m \in Nat, NEW s \in Seq(X), Len(s) = m,
         \A j \in 1 .. m : s[j] = (b + j) - 1, NEW S
  PROVE  ChosenIs(X, Chosen(s, S), b, m, S)
<1>1. PICK F : Choosing(X, s, S, F)
  BY ChosenRun
<1>2. /\ F \in [0 .. m -> Seq(X)] /\ F[0] = <<>> /\ F[m] = Chosen(s, S)
      /\ \A k \in 1 .. m : F[k] = IF s[k] \in S THEN Append(F[k - 1], s[k]) ELSE F[k - 1]
  BY <1>1 DEF Choosing
<1> DEFINE At(p, i, k) == p \in S /\ p \in b .. (b + k) - 1 /\ CountIn(S, b, p) = i - 1
           Ok(k) == /\ Len(F[k]) = CountIn(S, b, b + k)
                    /\ \A i \in 1 .. Len(F[k]) : At(F[k][i], i, k)
           C == {k \in Nat : k <= m => Ok(k)}
<1>3. 0 \in C
  <2>1. CountIn(S, b, b) = 0 /\ b + 0 = b
    BY CountNext DEF Counted
  <2>2. Len(F[0]) = 0
    BY <1>2
  <2> QED BY <2>1, <2>2
<1>4. ASSUME NEW k \in Nat, k \in C PROVE k + 1 \in C
  <2> HIDE DEF Ok, At
  <2> SUFFICES ASSUME k + 1 <= m PROVE Ok(k + 1)
    OBVIOUS
  <2>1. k + 1 \in 1 .. m /\ (k + 1) - 1 = k /\ k \in 0 .. m /\ k <= m /\ m \in Nat
    OBVIOUS
  <2> DEFINE x == b + k
             u == F[k]
  <2>2. s[k + 1] = x /\ x \in Int /\ b <= x /\ x \in X
    <3>1. s[k + 1] = (b + (k + 1)) - 1 /\ s[k + 1] \in X
      BY <2>1
    <3> QED BY <3>1
  <2>3. F[k + 1] = IF x \in S THEN Append(u, x) ELSE u
    BY <1>2, <2>1, <2>2
  <2>4. u \in Seq(X) /\ Ok(k)
    BY <1>2, <1>4, <2>1
  <2>5. /\ CountIn(S, b, x) \in Nat /\ b + (k + 1) = x + 1
        /\ CountIn(S, b, x + 1) = IF x \in S THEN CountIn(S, b, x) + 1 ELSE CountIn(S, b, x)
    <3>1. b + (k + 1) = x + 1
      OBVIOUS
    <3>2. PICK y \in Int : y = x
      BY <2>2
    <3>3. b <= y
      BY <2>2, <3>2
    <3>4. Counted(S, b, y)
      BY <3>3, CountNext
    <3> HIDE DEF x
    <3> QED BY <3>1, <3>2, <3>4 DEF Counted
  <2>6. Len(u) = CountIn(S, b, x) /\ \A i \in 1 .. Len(u) : At(u[i], i, k + 1)
    <3>1. \A p, i : At(p, i, k) => At(p, i, k + 1)
      BY DEF At
    <3> QED BY <2>4, <3>1 DEF Ok
  <2> HIDE DEF u, x
  <2>7. CASE x \in S
    <3>1. /\ Len(Append(u, x)) = Len(u) + 1 /\ Len(u) \in Nat
          /\ \A i \in 1 .. Len(u) : Append(u, x)[i] = u[i]
          /\ Append(u, x)[Len(u) + 1] = x
      BY <2>2, <2>4, Appended
    <3>2. At(x, Len(u) + 1, k + 1)
      BY <2>2, <2>5, <2>6, <2>7, <3>1 DEF At, x
    <3>3. Len(F[k + 1]) = CountIn(S, b, b + (k + 1))
      BY <2>3, <2>5, <2>6, <2>7, <3>1
    <3>4. \A i \in 1 .. Len(u) + 1 : At(Append(u, x)[i], i, k + 1)
      BY <2>6, <3>1, <3>2
    <3> QED BY <2>3, <2>7, <3>1, <3>3, <3>4 DEF Ok
  <2>8. CASE x \notin S
    BY <2>3, <2>5, <2>6, <2>8 DEF Ok
  <2> QED BY <2>7, <2>8
<1> HIDE DEF C, Ok, At
<1>5. m \in C
  BY <1>3, <1>4, NatSetInduction
<1>6. Ok(m) /\ F[m] \in Seq(X)
  BY <1>2, <1>5 DEF C
<1> QED BY <1>2, <1>6 DEF Ok, At, ChosenIs

(* The rows of a segment before a position either go left or do not.       *)
LEMMA SideCounts ==
  ASSUME Given, NEW s \in Segs, NEW p \in Int, Begin(s) <= p, p <= Begin(s + 1)
  PROVE  CountIn(Lefty, Begin(s), p) = Left(s, p)
         /\ CountIn(Righty, Begin(s), p) = (p - Begin(s)) - Left(s, p)
<1> DEFINE b == Begin(s)
           D == b .. p - 1
<1>1. b \in Nat /\ \A r \in D : r \in Positions /\ goes_left[r] \in BOOLEAN
  <2>1. /\ b \in Nat /\ Slice(s) \subseteq Positions
        /\ Begin(s + 1) \in Nat
    BY SlicesApart
  <2>2. D \subseteq Slice(s)
    BY <2>1 DEF Slice
  <2> QED BY <2>1, <2>2 DEF Given
<1>2. {r \in D : r \in Lefty} = Lefts(s, p) /\ {r \in D : r \in Righty} = D \ Lefts(s, p)
  BY <1>1 DEF Lefty, Righty, Lefts
<1>3. IsFiniteSet(D) /\ Cardinality(D) = p - b
  <2>1. b \in Int /\ p - 1 \in Int
    BY <1>1
  <2>2. IsFiniteSet(b .. p - 1) /\ Cardinality(b .. p - 1) = IF b > p - 1 THEN 0 ELSE (p - 1) - b + 1
    <3> HIDE DEF b
    <3> QED BY <2>1, FS_Interval, Zenon
  <2> HIDE DEF b
  <2>3. (IF b > p - 1 THEN 0 ELSE (p - 1) - b + 1) = p - b
    <3>1. b <= p
      BY DEF b
    <3> QED BY <2>1, <3>1
  <2> QED BY <2>2, <2>3
<1>4. Lefts(s, p) \subseteq D
  BY DEF Lefts
<1> HIDE DEF D, b
<1>5. /\ IsFiniteSet(Lefts(s, p)) /\ Cardinality(Lefts(s, p)) \in Nat
  BY <1>3, <1>4, FS_Subset, FS_CardinalityType
<1>6. Cardinality(D \ Lefts(s, p)) = (p - b) - Left(s, p)
  <2>1. Cardinality(D \ Lefts(s, p)) = Cardinality(D) - Cardinality(D \cap Lefts(s, p))
    BY <1>3, <1>5, FS_Difference
  <2>2. D \cap Lefts(s, p) = Lefts(s, p)
    BY <1>4
  <2> QED BY <1>3, <1>5, <2>1, <2>2 DEF Left
<1> QED BY <1>2, <1>6 DEF CountIn, D, b, Left

(* The rows of a segment as a sequence.                                    *)
LEMMA SegRowsAre ==
  ASSUME Given, NEW s \in Segs
  PROVE  /\ SegRows(s) \in Seq(Positions) /\ Len(SegRows(s)) = launch.lens[s]
         /\ \A j \in 1 .. launch.lens[s] : /\ SegRows(s)[j] = (Begin(s) + j) - 1
                                           /\ (Begin(s) + j) - 1 \in Slice(s)
         /\ Begin(s) + launch.lens[s] = Begin(s + 1)
<1>1. /\ Begin(s) \in Nat /\ launch.lens[s] \in Nat /\ Begin(s + 1) = Begin(s) + launch.lens[s]
      /\ Slice(s) \subseteq Positions
  BY SlicesApart
<1>2. \A j \in 1 .. launch.lens[s] : /\ (Begin(s) + j) - 1 \in Slice(s)
                                     /\ Begin(s) + j - 1 = (Begin(s) + j) - 1
  BY <1>1 DEF Slice
<1>3. SegRows(s) \in [1 .. launch.lens[s] -> Positions]
  BY <1>1, <1>2 DEF SegRows
<1>4. SegRows(s) \in Seq(Positions) /\ Len(SegRows(s)) = launch.lens[s]
  BY <1>1, <1>3
<1> QED BY <1>1, <1>2, <1>4 DEF SegRows

(* Rows that lie at their places are stably partitioned.                   *)
LEMMA Placed ==
  ASSUME Given, NEW s \in Segs, NEW order, NEW count,
         \A p \in Slice(s) : order[Place(s, p)] = p,
         count = Left(s, Begin(s + 1))
  PROVE  Stably(s, order, count)
<1> DEFINE b == Begin(s)
           m == launch.lens[s]
           rows == SegRows(s)
           left == Chosen(rows, Lefty)
           right == Chosen(rows, Righty)
<1>1. /\ b \in Nat /\ m \in Nat /\ Begin(s + 1) = b + m /\ Slice(s) = b .. (b + m) - 1
      /\ \A p \in Slice(s) : p \in Positions /\ goes_left[p] \in BOOLEAN
  BY SlicesApart DEF Given, Slice
<1>2. rows \in Seq(Positions) /\ Len(rows) = m /\ \A j \in 1 .. m : rows[j] = (b + j) - 1
  BY SegRowsAre
<1>3. \A p \in Int : b <= p /\ p <= b + m =>
        CountIn(Lefty, b, p) = Left(s, p) /\ CountIn(Righty, b, p) = (p - b) - Left(s, p)
  BY <1>1, SideCounts
<1>p. \A p : Place(s, p) = IF goes_left[p] THEN b + Left(s, p)
                           ELSE b + Left(s, b + m) + ((p - b) - Left(s, p))
  BY <1>1 DEF Place
<1> HIDE DEF b, m, rows
<1>c. \A S : ChosenIs(Positions, Chosen(rows, S), b, m, S)
  <2>1. PICK X : X = Positions
    OBVIOUS
  <2>2. PICK r \in Seq(X) : r = rows
    BY <1>2, <2>1
  <2>3. PICK d \in Int, n \in Nat : d = b /\ n = m
    BY <1>1
  <2>4. Len(r) = n /\ \A j \in 1 .. n : r[j] = (d + j) - 1
    BY <1>2, <2>2, <2>3
  <2>5. \A S : ChosenIs(X, Chosen(r, S), d, n, S)
    BY <2>4, ChosenAt
  <2> QED BY <2>1, <2>2, <2>3, <2>5
<1>4. /\ left \in Seq(Positions) /\ Len(left) = CountIn(Lefty, b, b + m)
      /\ \A i \in 1 .. Len(left) :
           /\ left[i] \in Lefty /\ left[i] \in b .. (b + m) - 1
           /\ CountIn(Lefty, b, left[i]) = i - 1
  <2>1. ChosenIs(Positions, left, b, m, Lefty)
    BY <1>c
  <2> HIDE DEF left
  <2> QED BY <2>1 DEF ChosenIs
<1>5. /\ right \in Seq(Positions) /\ Len(right) = CountIn(Righty, b, b + m)
      /\ \A i \in 1 .. Len(right) :
           /\ right[i] \in Righty /\ right[i] \in b .. (b + m) - 1
           /\ CountIn(Righty, b, right[i]) = i - 1
  <2>1. ChosenIs(Positions, right, b, m, Righty)
    BY <1>c
  <2> HIDE DEF right
  <2> QED BY <2>1 DEF ChosenIs
<1> HIDE DEF left, right
<1>6. Len(left) = Left(s, b + m) /\ Len(right) = m - Len(left) /\ Len(left) \in Nat /\ Len(right) \in Nat
  <2>1. b + m \in Int /\ b <= b + m /\ b + m <= b + m /\ (b + m) - b = m
    BY <1>1
  <2> QED BY <1>3, <1>4, <1>5, <2>1
<1>7. ASSUME NEW i \in 1 .. Len(left) PROVE order[b + i - 1] = left[i]
  <2>1. PICK p : p = left[i]
    OBVIOUS
  <2>2. p \in Lefty /\ p \in b .. (b + m) - 1 /\ CountIn(Lefty, b, p) = i - 1
    BY <1>4, <2>1
  <2>3. p \in Int /\ b <= p /\ p <= b + m /\ goes_left[p] /\ p \in Slice(s)
    BY <1>1, <2>2 DEF Lefty
  <2>4. Left(s, p) = i - 1
    BY <1>3, <2>2, <2>3
  <2>5. Place(s, p) = b + i - 1
    BY <1>p, <2>3, <2>4
  <2> QED BY <2>1, <2>3, <2>5
<1>8. ASSUME NEW i \in 1 .. Len(right) PROVE order[(b + Len(left)) + i - 1] = right[i]
  <2>1. PICK p : p = right[i]
    OBVIOUS
  <2>2. p \in Righty /\ p \in b .. (b + m) - 1 /\ CountIn(Righty, b, p) = i - 1
    BY <1>5, <2>1
  <2>3. p \in Int /\ b <= p /\ p <= b + m /\ ~goes_left[p] /\ p \in Slice(s)
    BY <1>1, <2>2 DEF Righty
  <2>4. (p - b) - Left(s, p) = i - 1
    BY <1>3, <2>2, <2>3
  <2>5. Place(s, p) = b + Left(s, b + m) + (i - 1)
    BY <1>p, <2>3, <2>4
  <2>6. Place(s, p) = (b + Len(left)) + i - 1
    BY <1>1, <1>6, <2>5
  <2> QED BY <2>1, <2>3, <2>6
<1> DEFINE w == left \o right
<1>9. /\ w \in Seq(Positions) /\ Len(w) = Len(left) + Len(right)
      /\ \A i \in 1 .. Len(left) : w[i] = left[i]
      /\ \A i \in 1 .. Len(right) : w[Len(left) + i] = right[i]
  <2>1. PICK u \in Seq(Positions), v \in Seq(Positions) : u = left /\ v = right
    BY <1>4, <1>5
  <2>2. /\ u \o v \in Seq(Positions) /\ Len(u \o v) = Len(u) + Len(v)
        /\ \A i \in 1 .. Len(u) : (u \o v)[i] = u[i]
        /\ \A i \in 1 .. Len(v) : (u \o v)[Len(u) + i] = v[i]
    <3>1. PICK X : X = Positions
      OBVIOUS
    <3>2. u \in Seq(X) /\ v \in Seq(X)
      BY <3>1
    <3>3. /\ u \o v \in Seq(X) /\ Len(u \o v) = Len(u) + Len(v)
          /\ \A i \in 1 .. Len(u) : (u \o v)[i] = u[i]
          /\ \A i \in 1 .. Len(v) : (u \o v)[Len(u) + i] = v[i]
      BY <3>2, Concatenated, SMT
    <3> QED BY <3>1, <3>3
  <2> QED BY <2>1, <2>2
<1> HIDE DEF w
<1>10. Len(w) = m /\ DOMAIN w = 1 .. m /\ w = [j \in 1 .. m |-> w[j]]
  <2>1. Len(w) = m
    BY <1>1, <1>6, <1>9
  <2> QED BY <1>9, <2>1
<1>11. ASSUME NEW j \in 1 .. m PROVE order[b + j - 1] = w[j]
  <2>1. CASE j \in 1 .. Len(left)
    BY <1>7, <1>9, <2>1
  <2>2. CASE j \notin 1 .. Len(left)
    <3>1. PICK i \in Int : i = j - Len(left)
      BY <1>6
    <3>2. i \in 1 .. Len(right) /\ j = Len(left) + i /\ b + j - 1 = (b + Len(left)) + i - 1
      BY <1>1, <1>6, <2>2, <3>1
    <3> QED BY <1>8, <1>9, <3>2
  <2> QED BY <2>1, <2>2
<1>12. [j \in 1 .. m |-> order[b + j - 1]] = w
  BY <1>10, <1>11
<1>13. rows = [j \in 1 .. m |-> b + j - 1]
  BY DEF rows, SegRows, b, m
<1> QED BY <1>1, <1>6, <1>12, <1>13 DEF Stably, w, left, right, b, m, Lefty, Righty

(* Only the order within the segment matters.                              *)
LEMMA SameOrder ==
  ASSUME Given, NEW s \in Segs, NEW f, NEW g, \A p \in Slice(s) : f[p] = g[p], NEW count
  PROVE  Stably(s, f, count) => Stably(s, g, count)
<1>1. \A j \in 1 .. launch.lens[s] : Begin(s) + j - 1 \in Slice(s)
  BY SegRowsAre, SlicesApart DEF Slice
<1>2. [j \in 1 .. launch.lens[s] |-> f[Begin(s) + j - 1]]
        = [j \in 1 .. launch.lens[s] |-> g[Begin(s) + j - 1]]
  BY <1>1
<1> QED BY <1>2 DEF Stably

-----------------------------------------------------------------------------
(* A small node.                                                           *)

Pairs == [front : Seq(Positions), back : Seq(Positions)]

(* A sequence turned round, one element more.                              *)
LEMMA Turned ==
  ASSUME NEW X, NEW u \in Seq(X), NEW x \in X
  PROVE  /\ <<x>> \o u \in Seq(X) /\ Reverse(u) \in Seq(X)
         /\ Reverse(<<x>> \o u) = Append(Reverse(u), x)
<1> DEFINE v == <<x>> \o u
           n == Len(u)
           a == Append(Reverse(u), x)
<1>1. /\ n \in Nat /\ v \in Seq(X) /\ Len(v) = n + 1 /\ v[1] = x
      /\ \A i \in 1 .. n : v[i + 1] = u[i] /\ u[i] \in X
  OBVIOUS
<1>2. Reverse(u) = [i \in 1 .. n |-> u[(n - i) + 1]]
  BY DEF Reverse
<1>3. Reverse(v) = [i \in 1 .. n + 1 |-> v[((n + 1) - i) + 1]]
  BY <1>1 DEF Reverse
<1> HIDE DEF v, n
<1>4. Reverse(u) \in Seq(X) /\ Len(Reverse(u)) = n
  <2>1. \A i \in 1 .. n : (n - i) + 1 \in 1 .. n
    BY <1>1
  <2>2. Reverse(u) \in [1 .. n -> X]
    BY <1>1, <1>2, <2>1
  <2> QED BY <1>1, <2>2
<1>5. /\ a \in Seq(X) /\ DOMAIN a = 1 .. n + 1
      /\ \A i \in 1 .. n : a[i] = Reverse(u)[i]
      /\ a[n + 1] = x
  BY <1>4, Appended
<1> HIDE DEF a
<1>6. ASSUME NEW i \in 1 .. n + 1 PROVE v[((n + 1) - i) + 1] = a[i]
  <2>1. CASE i = n + 1
    <3>1. ((n + 1) - i) + 1 = 1
      BY <1>1, <2>1
    <3> QED BY <1>1, <1>5, <2>1, <3>1
  <2>2. CASE i \in 1 .. n
    <3>1. ((n + 1) - i) + 1 = ((n - i) + 1) + 1 /\ (n - i) + 1 \in 1 .. n
      BY <1>1, <2>2
    <3>2. v[((n + 1) - i) + 1] = u[(n - i) + 1]
      BY <1>1, <3>1
    <3>3. a[i] = u[(n - i) + 1]
      BY <1>2, <1>5, <2>2
    <3> QED BY <3>2, <3>3
  <2> QED BY <1>1, <2>1, <2>2
<1>7. Reverse(v) = a
  <2>1. a = [i \in 1 .. n + 1 |-> a[i]]
    BY <1>5
  <2> QED BY <1>3, <1>6, <2>1
<1> QED BY <1>1, <1>4, <1>7 DEF v, a

(* The task of a small node orders its rows as choosing them does.         *)
LEMMA BlockIs ==
  ASSUME Given, NEW s \in Seq(Positions)
  PROVE  LET d == PartitionBlock(s)
         IN /\ d.order = Chosen(s, Lefty) \o Chosen(s, Righty)
            /\ d.n_left = Len(Chosen(s, Lefty))
<1> DEFINE n == Len(s)
           empty == [front |-> <<>>, back |-> <<>>]
           step == [e \in (1 .. n) \X Pairs |-> Put(e[2], s[e[1]])]
           E(F) == [S \in SUBSET (1 .. n) |->
                      IF S = {} THEN empty ELSE Put(F[S \ {Max(S)}], s[Max(S)])]
           h == CHOOSE F : F = E(F)
<1>1. n \in Nat /\ DOMAIN s = 1 .. n /\ \A k \in 1 .. n : s[k] \in Positions
  OBVIOUS
<1>2. empty \in Pairs
  BY DEF Pairs
<1>3. ASSUME NEW o \in Pairs, NEW x \in Positions
      PROVE  /\ Put(o, x) \in Pairs
             /\ x \in Lefty => Put(o, x).front = Append(o.front, x) /\ Put(o, x).back = o.back
             /\ x \notin Lefty => Put(o, x).front = o.front /\ Put(o, x).back = <<x>> \o o.back
  <2>1. o.front \in Seq(Positions) /\ o.back \in Seq(Positions) /\ o = [front |-> o.front, back |-> o.back]
    BY DEF Pairs
  <2>2. Append(o.front, x) \in Seq(Positions) /\ <<x>> \o o.back \in Seq(Positions)
    BY <2>1, Turned, Appended
  <2>3. goes_left[x] <=> x \in Lefty
    BY DEF Lefty
  <2>4. CASE x \in Lefty
    <3>1. Put(o, x) = [o EXCEPT !.front = Append(o.front, x)]
      BY <2>3, <2>4 DEF Put
    <3>2. Put(o, x) = [front |-> Append(o.front, x), back |-> o.back]
      BY <2>1, <3>1
    <3> QED BY <2>1, <2>2, <2>4, <3>2 DEF Pairs
  <2>5. CASE x \notin Lefty
    <3>1. Put(o, x) = [o EXCEPT !.back = <<x>> \o o.back]
      BY <2>3, <2>5 DEF Put
    <3>2. Put(o, x) = [front |-> o.front, back |-> <<x>> \o o.back]
      BY <2>1, <3>1
    <3> QED BY <2>1, <2>2, <2>5, <3>2 DEF Pairs
  <2> QED BY <2>4, <2>5
<1> HIDE DEF n, empty
<1>4. /\ step \in [(1 .. n) \X Pairs -> Pairs]
      /\ \A k \in 1 .. n, o \in Pairs : step[<<k, o>>] = Put(o, s[k])
  <2>1. \A e \in (1 .. n) \X Pairs : e[1] \in 1 .. n /\ e[2] \in Pairs
    OBVIOUS
  <2>2. \A e \in (1 .. n) \X Pairs : Put(e[2], s[e[1]]) \in Pairs
    BY <1>1, <1>3, <2>1
  <2> QED BY <2>2
<1> HIDE DEF step
<1>5. PICK F \in [SUBSET (1 .. n) -> Pairs] : FoldOn(n, empty, step, F)
  <2> HIDE DEF E, h
  <2> QED BY <1>1, <1>2, <1>4, FoldExists, Zenon
<1>6. F = E(F)
  <2>1. ASSUME NEW S \in SUBSET (1 .. n)
        PROVE  F[S] = IF S = {} THEN empty ELSE Put(F[S \ {Max(S)}], s[Max(S)])
    <3>1. CASE S = {}
      BY <1>5, <3>1 DEF FoldOn
    <3>2. CASE S # {}
      <4>1. F[S] = step[<<Max(S), F[S \ {Max(S)}]>>]
        BY <1>5, <3>2 DEF FoldOn
      <4>2. Max(S) \in 1 .. n /\ F[S \ {Max(S)}] \in Pairs
        BY <1>1, <3>2, MaxIn
      <4> QED BY <1>4, <3>2, <4>1, <4>2
    <3> QED BY <3>1, <3>2
  <2> QED BY <2>1
<1>7. h = E(h)
  <2> HIDE DEF E
  <2> QED BY <1>6
<1>8. FoldLeft(Put, empty, s) = h[1 .. n]
  BY <1>1 DEF FoldLeft, MapThenFoldSet
<1> HIDE DEF h
<1>9. Folds(n, Pairs, empty, step, h)
  <2>1. h[{}] = empty
    BY <1>7
  <2>2. ASSUME NEW S \in SUBSET (1 .. n), S # {}, h[S \ {Max(S)}] \in Pairs
        PROVE  h[S] = step[<<Max(S), h[S \ {Max(S)}]>>]
    <3>1. h[S] = Put(h[S \ {Max(S)}], s[Max(S)])
      BY <1>7, <2>2
    <3> QED BY MaxIn, <1>1, <1>4, <2>2, <3>1
  <2> HIDE DEF E
  <2> QED BY <2>1, <2>2 DEF Folds
<1>10. Result(n, Pairs, empty, step, h[1 .. n])
  BY <1>1, <1>2, <1>4, <1>9, RunOf
<1>11. PICK R \in [0 .. n -> Pairs] :
        /\ R[0] = empty /\ R[n] = h[1 .. n]
        /\ \A k \in 1 .. n : R[k] = step[<<k, R[k - 1]>>]
  BY <1>10 DEF Result
<1>12. PICK L : Choosing(Positions, s, Lefty, L)
  BY ChosenRun
<1>13. PICK G : Choosing(Positions, s, Righty, G)
  BY ChosenRun
<1>14. /\ L[0] = <<>> /\ L[n] = Chosen(s, Lefty) /\ G[0] = <<>> /\ G[n] = Chosen(s, Righty)
       /\ \A k \in 0 .. n : L[k] \in Seq(Positions) /\ G[k] \in Seq(Positions)
       /\ \A k \in 1 .. n :
            /\ L[k] = IF s[k] \in Lefty THEN Append(L[k - 1], s[k]) ELSE L[k - 1]
            /\ G[k] = IF s[k] \in Righty THEN Append(G[k - 1], s[k]) ELSE G[k - 1]
  BY <1>12, <1>13 DEF Choosing, n
<1> DEFINE C == {k \in Nat : k <= n => R[k].front = L[k] /\ Reverse(R[k].back) = G[k]}
<1>15. 0 \in C
  <2>1. Reverse(<<>>) = <<>>
    BY DEF Reverse
  <2> QED BY <1>11, <1>14, <2>1 DEF empty
<1>16. ASSUME NEW k \in Nat, k \in C PROVE k + 1 \in C
  <2> SUFFICES ASSUME k + 1 <= n
               PROVE  R[k + 1].front = L[k + 1] /\ Reverse(R[k + 1].back) = G[k + 1]
    OBVIOUS
  <2>1. k + 1 \in 1 .. n /\ (k + 1) - 1 = k /\ k \in 0 .. n /\ k <= n
    BY <1>1
  <2> DEFINE o == R[k]
             x == s[k + 1]
  <2>2. o \in Pairs /\ x \in Positions /\ R[k + 1] = Put(o, x)
        /\ o.front = L[k] /\ Reverse(o.back) = G[k]
    BY <1>1, <1>4, <1>11, <1>16, <2>1
  <2>3. o.front \in Seq(Positions) /\ o.back \in Seq(Positions)
    <3> HIDE DEF o
    <3> QED BY <2>2 DEF Pairs
  <2>4. x \in Righty <=> x \notin Lefty
    <3> HIDE DEF x
    <3> QED BY <2>2 DEF Righty, Lefty
  <2>5. /\ L[k + 1] = IF x \in Lefty THEN Append(L[k], x) ELSE L[k]
        /\ G[k + 1] = IF x \in Lefty THEN G[k] ELSE Append(G[k], x)
    BY <1>14, <2>1, <2>4
  <2> HIDE DEF o, x
  <2>6. Reverse(<<x>> \o o.back) = Append(Reverse(o.back), x)
    BY <2>2, <2>3, Turned
  <2>9. PICK w : w = Put(o, x)
    OBVIOUS
  <2>10. /\ R[k + 1] = w
         /\ x \in Lefty => w.front = Append(o.front, x) /\ w.back = o.back
         /\ x \notin Lefty => w.front = o.front /\ w.back = <<x>> \o o.back
    BY <1>3, <2>2, <2>9
  <2>7. CASE x \in Lefty
    BY <2>2, <2>5, <2>7, <2>10
  <2>8. CASE x \notin Lefty
    BY <2>2, <2>5, <2>6, <2>8, <2>10
  <2> QED BY <2>7, <2>8
<1> HIDE DEF C
<1>17. n \in C
  BY <1>1, <1>15, <1>16, NatSetInduction
<1>18. R[n].front = Chosen(s, Lefty) /\ Reverse(R[n].back) = Chosen(s, Righty)
  BY <1>1, <1>14, <1>17 DEF C
<1>19. R[n] = FoldLeft(Put, empty, s)
  BY <1>8, <1>11
<1> QED BY <1>18, <1>19 DEF PartitionBlock, empty

-----------------------------------------------------------------------------
(* The blocks of a large node.                                             *)

NumBlocks(s) == (launch.lens[s] + (BlockRows - 1)) \div BlockRows

(* Where a block starts, and where the last one ends.                      *)
Cut(s, b) == IF b < NumBlocks(s) THEN Low(s, b) ELSE Begin(s + 1)

BlockLies(s, b) ==
  /\ b \in Int /\ 0 <= b /\ b < NumBlocks(s) /\ b + 1 \in 0 .. NumBlocks(s)
  /\ Low(s, b) \in Int /\ Cut(s, b) = Low(s, b) /\ Cut(s, b + 1) \in Int
  /\ Begin(s) <= Low(s, b) /\ Low(s, b) < Cut(s, b + 1) /\ Cut(s, b + 1) <= Begin(s + 1)
  /\ BlockOf(s, b) = Low(s, b) .. Cut(s, b + 1) - 1
  /\ BlockOf(s, b) \subseteq Slice(s)
  /\ \A p \in BlockOf(s, b) : p \in Int /\ (p - Begin(s)) \div BlockRows = b

(* The blocks of a node cut its rows, one after another.                   *)
LEMMA BlocksCut ==
  ASSUME Given, NEW s \in Segs
  PROVE  /\ NumBlocks(s) \in Nat /\ Blocks(s) = 0 .. NumBlocks(s) - 1
         /\ Cut(s, 0) = Begin(s) /\ Cut(s, NumBlocks(s)) = Begin(s + 1)
         /\ \A b \in Blocks(s) : BlockLies(s, b)
         /\ \A p \in Slice(s) : \E b \in Blocks(s) : p \in BlockOf(s, b)
<1> DEFINE n == NumBlocks(s)
           m == launch.lens[s]
           B == BlockRows
           beg == Begin(s)
           e == Begin(s + 1)
<1>1. beg \in Nat /\ m \in Nat /\ e = beg + m /\ B \in Nat \ {0}
  BY SlicesApart, BlockPartitionAssumption
<1>2. n \in Nat /\ n * B <= m + (B - 1) /\ m + (B - 1) < (n + 1) * B
  <2>1. PICK k \in Nat : k = m + (B - 1)
    BY <1>1
  <2>2. n = k \div B
    BY <2>1 DEF NumBlocks
  <2> HIDE DEF n, m, B
  <2> QED BY <1>1, <2>1, <2>2, DivBounds
<1>3. Blocks(s) = 0 .. n - 1
  BY DEF Blocks, NumBlocks
<1>4. n * B \in Int /\ m <= n * B /\ (n = 0 => m = 0)
  <2> HIDE DEF n, m, B
  <2> QED BY <1>1, <1>2
<1>5. \A b : /\ Low(s, b) = beg + b * B
             /\ Cut(s, b) = IF b < n THEN Low(s, b) ELSE e
             /\ BlockOf(s, b) = {p \in Low(s, b) .. Low(s, b) + (B - 1) : p < e}
  BY DEF Low, Cut, BlockOf
<1>6. Slice(s) = beg .. e - 1
  BY DEF Slice
<1> HIDE DEF n, m, B, beg, e
<1>7. ASSUME NEW b \in Int, 0 <= b, b < n
      PROVE  /\ b * B \in Nat /\ (b + 1) * B = b * B + B /\ b * B < m
             /\ (b + 1 = n => m <= b * B + B) /\ (b + 1 < n => b * B + B < m)
  <2>1. b * B \in Nat /\ (b + 1) * B = b * B + B
    BY <1>1, <1>7
  <2>2. (b + 1) * B <= n * B
    BY <1>1, <1>2, <1>7, Monotone
  <2>3. b + 1 < n => (b + 1) * B + B <= n * B
    <3> SUFFICES ASSUME b + 1 < n PROVE (b + 1) * B + B <= n * B
      OBVIOUS
    <3>1. b + 2 \in Int /\ b + 2 <= n
      BY <1>2
    <3>2. (b + 2) * B <= n * B
      BY <1>1, <1>2, <3>1, Monotone
    <3>3. (b + 2) * B = (b + 1) * B + B
      BY <1>1
    <3> QED BY <3>2, <3>3
  <2> QED BY <1>1, <1>2, <1>4, <2>1, <2>2, <2>3
<1>8. Cut(s, 0) = beg /\ Cut(s, n) = e
  <2>1. Low(s, 0) = beg
    BY <1>1, <1>5
  <2>2. 0 < n \/ (0 = n /\ e = beg)
    BY <1>1, <1>2, <1>4
  <2> QED BY <1>2, <1>5, <2>1, <2>2
<1>9. ASSUME NEW b \in Blocks(s) PROVE BlockLies(s, b)
  <2>1. b \in Int /\ 0 <= b /\ b < n /\ b + 1 \in 0 .. n
    BY <1>2, <1>3
  <2> DEFINE z == b * B
  <2>2. z \in Nat /\ (b + 1) * B = z + B /\ z < m /\ (b + 1 = n => m <= z + B)
        /\ (b + 1 < n => z + B < m)
    BY <1>7, <2>1
  <2>3. /\ Low(s, b) = beg + z /\ Low(s, b + 1) = beg + (z + B)
        /\ Cut(s, b) = Low(s, b)
        /\ Cut(s, b + 1) = IF b + 1 < n THEN beg + (z + B) ELSE e
        /\ BlockOf(s, b) = {p \in Low(s, b) .. Low(s, b) + (B - 1) : p < e}
    BY <1>5, <2>1, <2>2
  <2> HIDE DEF z
  <2>4. /\ Low(s, b) \in Int /\ Cut(s, b + 1) \in Int
        /\ beg <= Low(s, b) /\ Low(s, b) < Cut(s, b + 1) /\ Cut(s, b + 1) <= e
    BY <1>1, <2>1, <2>2, <2>3
  <2>5. BlockOf(s, b) = Low(s, b) .. Cut(s, b + 1) - 1
    <3>1. CASE b + 1 < n
      BY <1>1, <2>2, <2>3, <3>1
    <3>2. CASE ~(b + 1 < n)
      <4>1. b + 1 = n
        BY <1>2, <2>1, <3>2
      <4>2. m <= z + B /\ Cut(s, b + 1) = e
        BY <2>2, <2>3, <3>2, <4>1
      <4>3. {p \in beg + z .. (beg + z) + (B - 1) : p < e} = beg + z .. e - 1
        BY <1>1, <2>2, <4>2
      <4> QED BY <2>3, <4>2, <4>3
    <3> QED BY <3>1, <3>2
  <2>6. BlockOf(s, b) \subseteq Slice(s)
    BY <1>1, <1>6, <2>4, <2>5
  <2>7. ASSUME NEW p \in BlockOf(s, b) PROVE p \in Int /\ (p - beg) \div B = b
    <3>1. p \in Int /\ beg + z <= p /\ p <= (beg + z) + (B - 1)
      BY <1>1, <2>2, <2>3
    <3>2. PICK r \in 0 .. B - 1 : p - beg = z + r
      BY <1>1, <2>2, <3>1
    <3>3. b \in Nat
      BY <2>1
    <3>4. (b * B + r) \div B = b
      BY <1>1, <3>3, DivOf
    <3> QED BY <3>1, <3>2, <3>4 DEF z
  <2> QED BY <2>1, <2>3, <2>4, <2>5, <2>6, <2>7 DEF BlockLies, n, beg, e, B
<1>10. ASSUME NEW p \in Slice(s) PROVE \E b \in Blocks(s) : p \in BlockOf(s, b)
  <2>1. p \in Int /\ beg <= p /\ p < e
    BY <1>1, <1>6
  <2>2. PICK k \in Nat : k = p - beg
    BY <1>1, <2>1
  <2>3. PICK b \in Nat : b * B <= k /\ k < (b + 1) * B
    BY <1>1, DivBounds
  <2>4. b < n
    <3> SUFFICES ASSUME n <= b PROVE FALSE
      BY <1>2
    <3>1. n * B <= b * B
      BY <1>1, <1>2, Monotone
    <3>2. b * B \in Int
      BY <1>1
    <3> QED BY <1>1, <1>4, <2>1, <2>2, <2>3, <3>1, <3>2
  <2>5. b * B \in Int /\ (b + 1) * B = b * B + B
    BY <1>1
  <2>6. p \in BlockOf(s, b)
    <3>1. PICK z \in Int : z = b * B
      BY <2>5
    <3> QED BY <1>1, <1>5, <2>1, <2>2, <2>3, <2>5, <3>1
  <2> QED BY <1>2, <1>3, <2>4, <2>6
<1> QED BY <1>2, <1>3, <1>8, <1>9, <1>10 DEF n, beg, e

Within(s, b, p) ==
  /\ Left(s, Low(s, b)) \in Nat /\ Left(s, p) \in Nat
  /\ Left(s, p) = Left(s, Low(s, b)) + Cardinality({q \in Low(s, b) .. p - 1 : goes_left[q]})
  /\ Cardinality({q \in Low(s, b) .. p - 1 : goes_left[q]}) \in Nat

(* How many rows of a block before a position go left.                     *)
LEMMA LeftInBlock ==
  ASSUME Given, NEW s \in Segs, NEW b \in Blocks(s), NEW p \in Int,
         Low(s, b) <= p, p <= Cut(s, b + 1)
  PROVE  Within(s, b, p)
<1>1. BlockLies(s, b)
  BY BlocksCut
<1>2. PICK l \in Int : l = Low(s, b) /\ Begin(s) <= l
  BY <1>1 DEF BlockLies
<1>3. Grows(s, l, p)
  BY <1>2, LeftGrows
<1>4. IsFiniteSet({q \in l .. p - 1 : goes_left[q]})
  BY <1>3 DEF Grows
<1>5. Cardinality({q \in l .. p - 1 : goes_left[q]}) \in Nat
  BY <1>4, FS_CardinalityType
<1> QED BY <1>2, <1>3, <1>4, <1>5 DEF Grows, Within

CountsIn(s, b) == Cardinality({q \in BlockOf(s, b) : goes_left[q]})

(* What the blocks have counted adds up to the left rows before a block.   *)
LEMMA CountsAdd ==
  ASSUME Given, NEW s \in Segs, \A b \in Blocks(s) : left_counts[s][b] = CountsIn(s, b)
  PROVE  /\ \A b \in Blocks(s) : LeftBeforeBlock(s, b) = Left(s, Low(s, b))
         /\ LeftRows(s) = Left(s, Begin(s + 1))
<1> DEFINE n == NumBlocks(s)
           f == left_counts[s]
           C == {b \in Nat : b <= n => SumOf(f, 0 .. b - 1) = Left(s, Cut(s, b))}
<1>1. /\ n \in Nat /\ Blocks(s) = 0 .. n - 1 /\ Cut(s, 0) = Begin(s) /\ Cut(s, n) = Begin(s + 1)
      /\ \A b \in Blocks(s) : BlockLies(s, b)
  BY BlocksCut
<1> HIDE DEF n
<1>2. ASSUME NEW b \in 0 .. n - 1
      PROVE  /\ f[b] \in Int /\ Left(s, Cut(s, b)) \in Nat
             /\ Left(s, Cut(s, b + 1)) = Left(s, Cut(s, b)) + f[b]
  <2>1. /\ Cut(s, b + 1) \in Int /\ Low(s, b) <= Cut(s, b + 1) /\ Low(s, b) \in Int
        /\ BlockOf(s, b) = Low(s, b) .. Cut(s, b + 1) - 1 /\ Cut(s, b) = Low(s, b)
    <3>1. BlockLies(s, b)
      BY <1>1
    <3> QED BY <3>1 DEF BlockLies
  <2>2. PICK p \in Int : p = Cut(s, b + 1)
    BY <2>1
  <2>3. /\ Left(s, Low(s, b)) \in Nat /\ Left(s, p) \in Nat
        /\ Left(s, p) = Left(s, Low(s, b)) + Cardinality({q \in Low(s, b) .. p - 1 : goes_left[q]})
        /\ Cardinality({q \in Low(s, b) .. p - 1 : goes_left[q]}) \in Nat
    <3>1. b \in Blocks(s) /\ Low(s, b) <= p /\ p <= Cut(s, b + 1)
      BY <1>1, <2>1, <2>2
    <3>2. Within(s, b, p)
      BY <3>1, LeftInBlock
    <3> QED BY <3>2 DEF Within
  <2>4. f[b] = Cardinality({q \in Low(s, b) .. p - 1 : goes_left[q]})
    BY <1>1, <2>1, <2>2 DEF CountsIn
  <2> QED BY <2>1, <2>2, <2>3, <2>4
<1> HIDE DEF f
<1>3. 0 \in C
  <2>1. SumOf(f, 0 .. 0 - 1) = 0
    <3>1. PICK S : S = 0 .. 0 - 1
      OBVIOUS
    <3>2. S = {}
      BY <3>1
    <3>3. IsFiniteSet(S) /\ \A x \in S : f[x] \in Int
      BY <3>2, FS_EmptySet
    <3>4. SumOf(f, S) = 0
      BY <3>2, <3>3, SumOut
    <3> QED BY <3>1, <3>4
  <2>2. Left(s, Begin(s)) = 0
    <3>1. Lefts(s, Begin(s)) = {}
      BY SlicesApart DEF Lefts
    <3> QED BY <3>1, FS_EmptySet DEF Left
  <2> QED BY <1>1, <2>1, <2>2
<1>4. ASSUME NEW b \in Nat, b \in C PROVE b + 1 \in C
  <2> SUFFICES ASSUME b + 1 <= n PROVE SumOf(f, 0 .. (b + 1) - 1) = Left(s, Cut(s, b + 1))
    OBVIOUS
  <2>1. PICK S : S = 0 .. (b + 1) - 1
    OBVIOUS
  <2>2. b \in S /\ S \ {b} = 0 .. b - 1 /\ S \subseteq 0 .. n - 1
    BY <1>1, <2>1
  <2>3. IsFiniteSet(S)
    <3>1. 0 \in Int /\ (b + 1) - 1 \in Int
      OBVIOUS
    <3> QED BY <2>1, <3>1, FS_Interval, Zenon
  <2>4. SumOf(f, S) = f[b] + SumOf(f, S \ {b})
    <3>1. \A x \in S : f[x] \in Int
      BY <1>2, <2>2
    <3> QED BY <2>2, <2>3, <3>1, SumOut
  <2>5. SumOf(f, 0 .. b - 1) = Left(s, Cut(s, b))
    BY <1>1, <1>4
  <2>6. b \in 0 .. n - 1
    BY <1>1
  <2>7. /\ f[b] \in Int /\ Left(s, Cut(s, b)) \in Nat
        /\ Left(s, Cut(s, b + 1)) = Left(s, Cut(s, b)) + f[b]
    BY <1>2, <2>6
  <2>8. SumOf(f, S) = f[b] + Left(s, Cut(s, b))
    BY <2>2, <2>4, <2>5
  <2>9. SumOf(f, S) = Left(s, Cut(s, b + 1))
    BY <2>7, <2>8
  <2> QED BY <2>1, <2>9
<1> HIDE DEF C
<1>5. \A b \in Nat : b \in C
  BY <1>3, <1>4, NatSetInduction
<1>6. ASSUME NEW b \in Blocks(s) PROVE SumOf(f, 0 .. b - 1) = Left(s, Low(s, b))
  <2>1. b \in Nat /\ b <= n /\ Cut(s, b) = Low(s, b)
    BY <1>1 DEF BlockLies
  <2> QED BY <1>5, <2>1 DEF C
<1>7. SumOf(f, 0 .. n - 1) = Left(s, Begin(s + 1))
  BY <1>1, <1>5 DEF C
<1> QED BY <1>1, <1>6, <1>7 DEF LeftBeforeBlock, LeftRows, f

-----------------------------------------------------------------------------
(***************************************************************************)
(* The invariant: a node whose task has not ended has its rows where they  *)
(* were, its blocks that are counted remember which of them go left, and   *)
(* what they have scattered lies where a stable partition puts it.         *)
(***************************************************************************)

(* How far a block has scattered.                                          *)
Reached(s, b) == Low(s, b) + (block_at[s][b] - 1)

HostType ==
  /\ DOMAIN row_indices = Positions /\ DOMAIN scratch = Positions /\ DOMAIN decisions = Positions
  /\ DOMAIN left_of = Segs
  /\ DOMAIN left_counts = Segs /\ \A s \in Segs : DOMAIN left_counts[s] = Blocks(s)
  /\ DOMAIN block_at = Segs
  /\ \A s \in Segs : DOMAIN block_at[s] = Blocks(s) /\ \A b \in Blocks(s) : block_at[s][b] \in Nat

Untouched == \A s \in Segs : left_of[s] = None => \A p \in Slice(s) : row_indices[p] = p

Remembered ==
  \A s \in Segs : \A b \in Blocks(s) :
    block_at[s][b] > 0 =>
      /\ left_counts[s][b] = CountsIn(s, b)
      /\ \A p \in BlockOf(s, b) : decisions[p] = goes_left[p]

Scattered ==
  \A s \in Segs : left_of[s] = None =>
    \A b \in Blocks(s) : \A p \in BlockOf(s, b) : p < Reached(s, b) => scratch[Place(s, p)] = p

Ended == \A s \in Segs : left_of[s] # None => Stably(s, row_indices, left_of[s])

EdgesKept == row_indices[0] = 0 /\ row_indices[LastPosition] = LastPosition

HostInv == Given /\ HostType /\ Untouched /\ Remembered /\ Scattered /\ Ended /\ EdgesKept

(* What the launch fixes.                                                  *)
fixed == <<launch, table, goes_left>>

(* Nothing on the device's side moves it.                                  *)
LEMMA RunKeeps ==
  ASSUME Run
  PROVE  UNCHANGED fixed
<1>1. CASE SumCounts \/ Reduce \/ WriteFlag
  BY <1>1 DEF SumCounts, Reduce, WriteFlag, fixed
<1>2. CASE ScanRead \/ ScanAdd \/ WriteCount
  BY <1>2 DEF ScanRead, ScanAdd, WriteCount, fixed
<1>3. CASE Scatter \/ CountSerial \/ ScatterSerial \/ EndLaunch
  BY <1>3 DEF Scatter, CountSerial, ScatterSerial, EndLaunch, fixed
<1> QED BY <1>1, <1>2, <1>3 DEF Run

(* What a node's rows and places are.                                      *)
Same(s) ==
  /\ Begin(s)' = Begin(s) /\ Begin(s + 1)' = Begin(s + 1) /\ Slice(s)' = Slice(s)
  /\ Blocks(s)' = Blocks(s)
  /\ \A b : /\ Low(s, b)' = Low(s, b) /\ BlockOf(s, b)' = BlockOf(s, b)
            /\ CountsIn(s, b)' = CountsIn(s, b)
  /\ \A p : Place(s, p)' = Place(s, p)

(* What follows from it stays.                                             *)
LEMMA FixedSame ==
  ASSUME UNCHANGED fixed
  PROVE  /\ Given' = Given /\ Segs' = Segs /\ Positions' = Positions /\ LastPosition' = LastPosition
         /\ \A s : Same(s)
         /\ \A s, f, c : Stably(s, f, c)' = Stably(s, f, c)
<1>1. launch' = launch /\ table' = table /\ goes_left' = goes_left
  BY DEF fixed
<1>2. \A s : Begin(s)' = Begin(s)
  BY <1>1 DEF Begin
<1>3. LastPosition' = LastPosition /\ Positions' = Positions /\ Segs' = Segs
  BY <1>1 DEF LastPosition, Positions, Segs, Begin
<1>4. Given' = Given
  BY <1>1, <1>3 DEF Given
<1>5. ASSUME NEW s PROVE Same(s)
  <2>1. Begin(s)' = Begin(s) /\ Begin(s + 1)' = Begin(s + 1) /\ Slice(s)' = Slice(s)
    BY <1>1 DEF Begin, Slice
  <2>2. Blocks(s)' = Blocks(s)
    BY <1>1 DEF Blocks
  <2>3. ASSUME NEW b
        PROVE  Low(s, b)' = Low(s, b) /\ BlockOf(s, b)' = BlockOf(s, b)
    BY <1>1 DEF Low, BlockOf, Begin
  <2>4. ASSUME NEW b PROVE CountsIn(s, b)' = CountsIn(s, b)
    BY <1>1, <2>3 DEF CountsIn
  <2>5. ASSUME NEW p PROVE Place(s, p)' = Place(s, p)
    BY <1>1 DEF Place, Left, Lefts, Begin
  <2> QED BY <2>1, <2>2, <2>3, <2>4, <2>5 DEF Same
<1>6. ASSUME NEW s, NEW f, NEW c PROVE Stably(s, f, c)' = Stably(s, f, c)
  BY <1>1, <1>3 DEF Stably, Begin
<1> QED BY <1>3, <1>4, <1>5, <1>6

(* Initially.                                                              *)
LEMMA HostBegins ==
  HostInit => HostInv
<1> SUFFICES ASSUME HostInit PROVE HostInv
  OBVIOUS
<1>1. Given
  BY DEF HostInit, Init, Given
<1>2. LastPosition \in Nat /\ 0 \in Positions /\ LastPosition \in Positions
  BY <1>1, SlicesApart DEF Positions
<1>3. HostType
  BY DEF HostInit, HostType
<1>4. Untouched
  BY <1>1, SlicesApart DEF HostInit, Untouched
<1>5. Remembered
  BY DEF HostInit, Remembered
<1>6. Scattered
  <2> SUFFICES ASSUME NEW s \in Segs, NEW b \in Blocks(s), NEW p \in BlockOf(s, b), p < Reached(s, b)
               PROVE  FALSE
    BY DEF Scattered
  <2>1. block_at[s][b] = 0
    BY DEF HostInit
  <2>2. BlockLies(s, b)
    BY <1>1, BlocksCut
  <2>3. Low(s, b) \in Int /\ BlockOf(s, b) = Low(s, b) .. Cut(s, b + 1) - 1 /\ Cut(s, b + 1) \in Int
    BY <2>2 DEF BlockLies
  <2> QED BY <2>1, <2>3 DEF Reached
<1>7. Ended
  BY DEF HostInit, Ended
<1>8. EdgesKept
  BY <1>2 DEF HostInit, EdgesKept
<1> QED BY <1>1, <1>3, <1>4, <1>5, <1>6, <1>7, <1>8 DEF HostInv

(* A block of a segment is counted.                                        *)
CountsBlock(s, b) ==
  /\ left_of[s] = None /\ block_at[s][b] = 0
  /\ block_at' = [block_at EXCEPT ![s][b] = 1]
  /\ decisions' = [p \in Positions |->
                     IF p \in BlockOf(s, b)
                     THEN p \in {q \in BlockOf(s, b) : goes_left[row_indices[q]]}
                     ELSE decisions[p]]
  /\ left_counts' = [left_counts EXCEPT ![s][b] =
                       Cardinality({q \in BlockOf(s, b) : goes_left[row_indices[q]]})]

(* A block is counted.                                                     *)
LEMMA CountBlockKeeps ==
  ASSUME HostInv, CountBlock
  PROVE  HostInv'
<1>0. PICK s \in Segs : \E b \in Blocks(s) : CountsBlock(s, b)
  BY DEF CountBlock, Tasks, CountsBlock
<1>1. PICK b \in Blocks(s) : CountsBlock(s, b)
  BY <1>0
<1>2. UNCHANGED <<fixed, row_indices, scratch, left_of>>
  BY DEF CountBlock, vars, fixed
<1>3. /\ Given' = Given /\ Segs' = Segs /\ Positions' = Positions /\ LastPosition' = LastPosition
      /\ \A t : Same(t)
      /\ \A t, f, c : Stably(t, f, c)' = Stably(t, f, c)
  BY <1>2, FixedSame
<1>4. Given /\ HostType /\ Untouched /\ Remembered /\ Scattered /\ Ended /\ EdgesKept
  BY DEF HostInv
<1>5. \A t \in Segs : \A c \in Blocks(t) : BlockLies(t, c) /\ Slice(t) \subseteq Positions
  BY <1>4, BlocksCut, SlicesApart
<1>6. \A q \in BlockOf(s, b) : row_indices[q] = q /\ q \in Positions /\ goes_left[q] \in BOOLEAN
  <2>1. \A q \in BlockOf(s, b) : q \in Slice(s) /\ q \in Positions
    BY <1>5 DEF BlockLies
  <2> QED BY <1>1, <1>4, <2>1 DEF Untouched, Given, CountsBlock
<1>7. {q \in BlockOf(s, b) : goes_left[row_indices[q]]} = {q \in BlockOf(s, b) : goes_left[q]}
  BY <1>6
<1>8. /\ left_counts' = [left_counts EXCEPT ![s][b] = CountsIn(s, b)]
      /\ \A q \in BlockOf(s, b) : decisions'[q] = goes_left[q]
      /\ \A q \in Positions \ BlockOf(s, b) : decisions'[q] = decisions[q]
  <2>1. left_counts' = [left_counts EXCEPT ![s][b] = CountsIn(s, b)]
    BY <1>1, <1>7 DEF CountsIn, CountsBlock
  <2>2. ASSUME NEW q \in Positions \ BlockOf(s, b) PROVE decisions'[q] = decisions[q]
    BY <1>1 DEF CountsBlock
  <2>3. ASSUME NEW q \in BlockOf(s, b) PROVE decisions'[q] = goes_left[q]
    <3>1. decisions'[q] = (q \in {r \in BlockOf(s, b) : goes_left[r]})
      BY <1>1, <1>6, <1>7 DEF CountsBlock
    <3>2. (q \in {r \in BlockOf(s, b) : goes_left[r]}) <=> goes_left[q]
      OBVIOUS
    <3>3. goes_left[q] \in BOOLEAN
      BY <1>6
    <3> QED BY <3>1, <3>2, <3>3
  <2> QED BY <2>1, <2>2, <2>3
<1>9. HostType'
  <2>1. DOMAIN decisions' = Positions
    BY <1>1 DEF CountsBlock
  <2>2. /\ DOMAIN left_counts' = Segs /\ \A t \in Segs : DOMAIN left_counts'[t] = Blocks(t)
        /\ DOMAIN block_at' = Segs /\ \A t \in Segs : DOMAIN block_at'[t] = Blocks(t)
    BY <1>1, <1>4, <1>8 DEF HostType, CountsBlock
  <2>3. \A t \in Segs : \A c \in Blocks(t) : block_at'[t][c] \in Nat
    BY <1>1, <1>4 DEF HostType, CountsBlock
  <2>4. \A t \in Segs : Blocks(t)' = Blocks(t)
    BY <1>3 DEF Same
  <2> QED BY <1>2, <1>3, <1>4, <2>1, <2>2, <2>3, <2>4 DEF HostType
<1>10. \A t \in Segs : \A c \in Blocks(t) :
         t # s \/ c # b => block_at'[t][c] = block_at[t][c] /\ left_counts'[t][c] = left_counts[t][c]
                           /\ BlockOf(t, c) \cap BlockOf(s, b) = {}
  <2> SUFFICES ASSUME NEW t \in Segs, NEW c \in Blocks(t), t # s \/ c # b
               PROVE  /\ block_at'[t][c] = block_at[t][c] /\ left_counts'[t][c] = left_counts[t][c]
                      /\ BlockOf(t, c) \cap BlockOf(s, b) = {}
    OBVIOUS
  <2>1. block_at'[t][c] = block_at[t][c] /\ left_counts'[t][c] = left_counts[t][c]
    BY <1>1, <1>4, <1>8 DEF HostType, CountsBlock
  <2>2. BlockLies(t, c) /\ BlockLies(s, b)
    BY <1>5
  <2>3. CASE t # s
    <3>1. Slice(t) \cap Slice(s) = {}
      BY <1>4, <2>3, SlicesApart
    <3> QED BY <2>1, <2>2, <3>1 DEF BlockLies
  <2>4. CASE t = s
    <3>1. \A p \in BlockOf(t, c) \cap BlockOf(s, b) : c = b
      BY <2>2, <2>4 DEF BlockLies
    <3> QED BY <2>1, <2>4, <3>1
  <2> QED BY <2>3, <2>4
<1>11. Remembered'
  <2>1. \A t \in Segs : \A c \in Blocks(t) :
          block_at'[t][c] > 0 => /\ left_counts'[t][c] = CountsIn(t, c)
                                 /\ \A p \in BlockOf(t, c) : decisions'[p] = goes_left[p]
    <3> SUFFICES ASSUME NEW t \in Segs, NEW c \in Blocks(t), block_at'[t][c] > 0
                 PROVE  /\ left_counts'[t][c] = CountsIn(t, c)
                        /\ \A p \in BlockOf(t, c) : decisions'[p] = goes_left[p]
      OBVIOUS
    <3>1. CASE t = s /\ c = b
      BY <1>4, <1>8, <3>1 DEF HostType
    <3>2. CASE t # s \/ c # b
      <4>1. BlockOf(t, c) \subseteq Positions
        BY <1>5 DEF BlockLies
      <4> QED BY <1>4, <1>8, <1>10, <3>2, <4>1 DEF Remembered
    <3> QED BY <3>1, <3>2
  <2>2. goes_left' = goes_left
    BY <1>2 DEF fixed
  <2>3. \A t \in Segs : Blocks(t)' = Blocks(t) /\ \A c : CountsIn(t, c)' = CountsIn(t, c)
                        /\ BlockOf(t, c)' = BlockOf(t, c)
    BY <1>3 DEF Same
  <2> QED BY <1>3, <2>1, <2>2, <2>3 DEF Remembered
<1>12. Scattered'
  <2>1. ASSUME NEW t \in Segs, left_of[t] = None, NEW c \in Blocks(t), NEW p \in BlockOf(t, c),
               p < Low(t, c) + (block_at'[t][c] - 1)
        PROVE  scratch[Place(t, p)] = p
    <3>1. CASE t = s /\ c = b
      <4>1. block_at'[t][c] = 1
        BY <1>1, <1>4, <3>1 DEF HostType, CountsBlock
      <4>2. Low(t, c) \in Int /\ p \in Int /\ Low(t, c) <= p
        BY <1>5 DEF BlockLies
      <4> QED BY <2>1, <4>1, <4>2
    <3>2. CASE t # s \/ c # b
      BY <1>4, <1>10, <2>1, <3>2 DEF Scattered, Reached
    <3> QED BY <3>1, <3>2
  <2>2. \A t \in Segs : Blocks(t)' = Blocks(t)
                        /\ \A c : Low(t, c)' = Low(t, c) /\ BlockOf(t, c)' = BlockOf(t, c)
                        /\ \A p : Place(t, p)' = Place(t, p)
    BY <1>3 DEF Same
  <2> QED BY <1>2, <1>3, <2>1, <2>2 DEF Scattered, Reached
<1>13. Untouched' /\ Ended' /\ EdgesKept'
  <2>1. Untouched'
    BY <1>2, <1>3, <1>4 DEF Untouched, Same
  <2>2. Ended'
    BY <1>2, <1>3, <1>4 DEF Ended
  <2>3. EdgesKept'
    BY <1>2, <1>3, <1>4 DEF EdgesKept
  <2> QED BY <2>1, <2>2, <2>3
<1> QED BY <1>3, <1>4, <1>9, <1>11, <1>12, <1>13 DEF HostInv

(* A block of a segment scatters its row at p to place z.                  *)
ScattersTo(s, b, p, z) ==
  /\ left_of[s] = None /\ p = Reached(s, b) /\ p \in BlockOf(s, b)
  /\ \A c \in Blocks(s) : block_at[s][c] > 0
  /\ block_at' = [block_at EXCEPT ![s][b] = @ + 1]
  /\ scratch' = [scratch EXCEPT ![z] = row_indices[p]]

Slot(s, b, p) ==
  LET li == Cardinality({q \in Low(s, b) .. p - 1 : decisions[q]})
      ri == (p - Low(s, b)) - li
  IN IF decisions[p] THEN LeftSlice(s, b) + li ELSE RightSlice(s, b) + ri

(* Once all blocks are counted, the slot of a row is its place.            *)
LEMMA SlotIsPlace ==
  ASSUME Given, HostType, Remembered, NEW s \in Segs, NEW b \in Blocks(s), NEW p \in BlockOf(s, b),
         \A c \in Blocks(s) : block_at[s][c] > 0
  PROVE  Slot(s, b, p) = Place(s, p)
<1>1. /\ \A c \in Blocks(s) : left_counts[s][c] = CountsIn(s, c)
      /\ \A q \in BlockOf(s, b) : decisions[q] = goes_left[q]
  BY DEF Remembered
<1>2. LeftBeforeBlock(s, b) = Left(s, Low(s, b)) /\ LeftRows(s) = Left(s, Begin(s + 1))
  BY <1>1, CountsAdd
<1>3. BlockLies(s, b)
  BY BlocksCut
<1>4. /\ p \in Int /\ Low(s, b) \in Int /\ Low(s, b) <= p /\ p < Cut(s, b + 1) /\ Cut(s, b + 1) \in Int
      /\ p \in Slice(s)
  BY <1>3 DEF BlockLies
<1>5. {q \in Low(s, b) .. p - 1 : decisions[q]} = {q \in Low(s, b) .. p - 1 : goes_left[q]}
  <2>1. Low(s, b) .. p - 1 \subseteq BlockOf(s, b)
    BY <1>3, <1>4 DEF BlockLies
  <2> QED BY <1>1, <2>1
<1>6. Within(s, b, p)
  BY <1>4, LeftInBlock
<1>7. /\ Left(s, Low(s, b)) \in Nat /\ Left(s, p) \in Nat
      /\ Left(s, p) = Left(s, Low(s, b)) + Cardinality({q \in Low(s, b) .. p - 1 : decisions[q]})
      /\ Cardinality({q \in Low(s, b) .. p - 1 : decisions[q]}) \in Nat
  BY <1>5, <1>6 DEF Within
<1>8. Begin(s) \in Nat /\ Low(s, b) = Begin(s) + b * BlockRows
  BY SlicesApart DEF Low
<1>9. Left(s, Begin(s + 1)) \in Nat
  <2>1. PICK e \in Int : e = Begin(s + 1) /\ Begin(s) <= e
    BY SlicesApart
  <2>2. Grows(s, e, e)
    BY <2>1, LeftGrows
  <2> QED BY <2>1, <2>2 DEF Grows
<1>10. decisions[p] = goes_left[p]
  BY <1>1
<1>11. PICK z \in Int : z = b * BlockRows
  <2>1. b \in Int /\ BlockRows \in Int
    BY <1>3, BlockPartitionAssumption DEF BlockLies
  <2> QED BY <2>1
<1> DEFINE li == Cardinality({q \in Low(s, b) .. p - 1 : decisions[q]})
           l == Left(s, Low(s, b))
<1>12. LeftSlice(s, b) = Begin(s) + l
  BY <1>2 DEF LeftSlice
<1>13. RightSlice(s, b) = Begin(s) + Left(s, Begin(s + 1)) + (z - l)
  BY <1>2, <1>7, <1>8, <1>9, <1>11 DEF RightSlice
<1>14. /\ li \in Nat /\ l \in Nat /\ Left(s, p) = l + li /\ Low(s, b) = Begin(s) + z
  BY <1>7, <1>8, <1>11
<1>15. Slot(s, b, p) = IF decisions[p] THEN LeftSlice(s, b) + li
                       ELSE RightSlice(s, b) + ((p - Low(s, b)) - li)
  BY DEF Slot
<1> HIDE DEF li, l
<1>16. CASE goes_left[p]
  BY <1>8, <1>10, <1>12, <1>14, <1>15, <1>16 DEF Place
<1>17. CASE ~goes_left[p]
  BY <1>4, <1>8, <1>9, <1>10, <1>13, <1>14, <1>15, <1>17 DEF Place
<1> QED BY <1>16, <1>17

(* A row is scattered.                                                     *)
LEMMA ScatterRowKeeps ==
  ASSUME HostInv, ScatterRow
  PROVE  HostInv'
<1>0. PICK s \in Segs : \E b \in Blocks(s) : \E p \in BlockOf(s, b) : ScattersTo(s, b, p, Slot(s, b, p))
  BY DEF ScatterRow, Tasks, ScattersTo, Slot, Reached
<1>1. PICK b \in Blocks(s) : \E p \in BlockOf(s, b) : ScattersTo(s, b, p, Slot(s, b, p))
  BY <1>0
<1>2. PICK p \in BlockOf(s, b) : ScattersTo(s, b, p, Slot(s, b, p))
  BY <1>1
<1>3. UNCHANGED <<fixed, row_indices, decisions, left_counts, left_of>>
  BY DEF ScatterRow, vars, fixed
<1>4. /\ Given' = Given /\ Segs' = Segs /\ Positions' = Positions /\ LastPosition' = LastPosition
      /\ \A t : Same(t)
      /\ \A t, f, c : Stably(t, f, c)' = Stably(t, f, c)
  BY <1>3, FixedSame
<1>5. Given /\ HostType /\ Untouched /\ Remembered /\ Scattered /\ Ended /\ EdgesKept
  BY DEF HostInv
<1>6. \A t \in Segs : \A c \in Blocks(t) : BlockLies(t, c)
  BY <1>5, BlocksCut
<1>7. Slot(s, b, p) = Place(s, p)
  BY <1>2, <1>5, SlotIsPlace DEF ScattersTo
<1>8. row_indices[p] = p /\ p \in Slice(s) /\ left_of[s] = None
  BY <1>2, <1>5, <1>6 DEF Untouched, ScattersTo, BlockLies
<1>9. Place(s, p) \in Slice(s) /\ Slice(s) \subseteq Positions
  BY <1>5, <1>8, Places, SlicesApart
<1>10. /\ scratch' = [scratch EXCEPT ![Place(s, p)] = p]
       /\ block_at' = [block_at EXCEPT ![s][b] = @ + 1]
  BY <1>2, <1>7, <1>8 DEF ScattersTo
<1>11. HostType'
  <2>1. DOMAIN scratch' = Positions
    BY <1>5, <1>10 DEF HostType
  <2>2. DOMAIN block_at' = Segs /\ \A t \in Segs : DOMAIN block_at'[t] = Blocks(t)
    BY <1>5, <1>10 DEF HostType
  <2>3. \A t \in Segs : \A c \in Blocks(t) : block_at'[t][c] \in Nat
    BY <1>5, <1>10 DEF HostType
  <2>4. \A t \in Segs : Blocks(t)' = Blocks(t)
    BY <1>4 DEF Same
  <2> QED BY <1>3, <1>4, <1>5, <2>1, <2>2, <2>3, <2>4 DEF HostType
<1>12. \A t \in Segs : \A c \in Blocks(t) :
         /\ block_at'[t][c] = block_at[t][c] + (IF t = s /\ c = b THEN 1 ELSE 0)
         /\ block_at[t][c] \in Nat
  BY <1>5, <1>10 DEF HostType
<1>13. Remembered'
  <2>1. \A t \in Segs : \A c \in Blocks(t) : block_at'[t][c] > 0 => block_at[t][c] > 0
    <3>1. block_at[s][b] > 0
      BY <1>2 DEF ScattersTo
    <3> QED BY <1>12, <3>1
  <2>2. goes_left' = goes_left
    BY <1>3 DEF fixed
  <2>3. \A t \in Segs : Blocks(t)' = Blocks(t) /\ \A c : CountsIn(t, c)' = CountsIn(t, c)
                        /\ BlockOf(t, c)' = BlockOf(t, c)
    BY <1>4 DEF Same
  <2> QED BY <1>3, <1>4, <1>5, <2>1, <2>2, <2>3 DEF Remembered
<1>14. \A q \in Positions : scratch'[q] = IF q = Place(s, p) THEN p ELSE scratch[q]
  BY <1>5, <1>9, <1>10 DEF HostType
<1>15. Scattered'
  <2>1. ASSUME NEW t \in Segs, left_of[t] = None, NEW c \in Blocks(t), NEW q \in BlockOf(t, c),
               q < Low(t, c) + (block_at'[t][c] - 1)
        PROVE  scratch'[Place(t, q)] = q
    <3>1. q \in Slice(t) /\ q \in Int /\ p \in Int /\ Low(t, c) \in Int
      BY <1>6 DEF BlockLies
    <3>2. Place(t, q) \in Slice(t) /\ Slice(t) \subseteq Positions
      BY <1>5, <3>1, Places, SlicesApart
    <3>3. CASE q = p
      <4>1. t = s
        <5> SUFFICES ASSUME t # s PROVE FALSE
          OBVIOUS
        <5>1. Slice(t) \cap Slice(s) = {}
          BY <1>5, SlicesApart
        <5> QED BY <1>8, <3>1, <3>3, <5>1
      <4> QED BY <1>14, <3>2, <3>3, <4>1
    <3>4. CASE q # p
      <4>1. q < Reached(t, c)
        <5>1. CASE t = s /\ c = b
          <6>1. p = Low(t, c) + (block_at[t][c] - 1)
            BY <1>2, <5>1 DEF ScattersTo, Reached
          <6>2. block_at'[t][c] = block_at[t][c] + 1 /\ block_at[t][c] \in Nat
            BY <1>12, <5>1
          <6> QED BY <2>1, <3>1, <3>4, <6>1, <6>2 DEF Reached
        <5>2. CASE ~(t = s /\ c = b)
          <6>1. block_at'[t][c] = block_at[t][c] + 0 /\ block_at[t][c] \in Nat
            BY <1>12, <5>2
          <6> QED BY <2>1, <6>1 DEF Reached
        <5> QED BY <5>1, <5>2
      <4>2. scratch[Place(t, q)] = q
        BY <1>5, <2>1, <4>1 DEF Scattered
      <4>3. Place(t, q) # Place(s, p)
        <5>1. CASE t = s
          BY <1>5, <1>8, <3>1, <3>4, <5>1, Places
        <5>2. CASE t # s
          <6>1. Slice(t) \cap Slice(s) = {}
            BY <1>5, <5>2, SlicesApart
          <6> QED BY <1>9, <3>2, <6>1
        <5> QED BY <5>1, <5>2
      <4> QED BY <1>14, <3>2, <4>2, <4>3
    <3> QED BY <3>3, <3>4
  <2>2. \A t \in Segs : Blocks(t)' = Blocks(t)
                        /\ \A c : Low(t, c)' = Low(t, c) /\ BlockOf(t, c)' = BlockOf(t, c)
                        /\ \A q : Place(t, q)' = Place(t, q)
    BY <1>4 DEF Same
  <2> QED BY <1>3, <1>4, <2>1, <2>2 DEF Scattered, Reached
<1>16. Untouched' /\ Ended' /\ EdgesKept'
  <2>1. Untouched'
    BY <1>3, <1>4, <1>5 DEF Untouched, Same
  <2>2. Ended'
    BY <1>3, <1>4, <1>5 DEF Ended
  <2>3. EdgesKept'
    BY <1>3, <1>4, <1>5 DEF EdgesKept
  <2> QED BY <2>1, <2>2, <2>3
<1> QED BY <1>4, <1>5, <1>11, <1>13, <1>15, <1>16 DEF HostInv

(* The task of a segment ends with count left rows.                        *)
EndsWith(s, count) ==
  /\ left_of[s] = None /\ count # None
  /\ DOMAIN row_indices' = Positions /\ DOMAIN scratch' = Positions
  /\ \A q \in Positions \ Slice(s) : row_indices'[q] = row_indices[q] /\ scratch'[q] = scratch[q]
  /\ left_of' = [left_of EXCEPT ![s] = count]
  /\ UNCHANGED <<fixed, decisions, left_counts, block_at>>

(* If it has its rows in stable order, the invariant stays.                *)
LEMMA TaskEnds ==
  ASSUME HostInv, NEW s \in Segs, NEW count, EndsWith(s, count),
         NEW order, order = row_indices', Stably(s, order, count)
  PROVE  HostInv'
<1>1. UNCHANGED <<fixed, decisions, left_counts, block_at>>
  BY DEF EndsWith
<1>2. /\ Given' = Given /\ Segs' = Segs /\ Positions' = Positions /\ LastPosition' = LastPosition
      /\ \A t : Same(t)
      /\ \A t, f, c : Stably(t, f, c)' = Stably(t, f, c)
  BY <1>1, FixedSame
<1>3. Given /\ HostType /\ Untouched /\ Remembered /\ Scattered /\ Ended /\ EdgesKept
  BY DEF HostInv
<1>4. \A t \in Segs : Slice(t) \subseteq Positions /\ (t # s => Slice(t) \cap Slice(s) = {})
  BY <1>3, SlicesApart
<1>5. \A t \in Segs : t # s => \A q \in Slice(t) : order[q] = row_indices[q] /\ scratch'[q] = scratch[q]
  BY <1>4 DEF EndsWith
<1>6. left_of'[s] = count /\ count # None /\ \A t \in Segs : t # s => left_of'[t] = left_of[t]
  BY <1>3 DEF EndsWith, HostType
<1>7. HostType'
  <2>1. DOMAIN left_of' = Segs
    BY <1>3 DEF EndsWith, HostType
  <2>2. \A t \in Segs : Blocks(t)' = Blocks(t)
    BY <1>2 DEF Same
  <2> QED BY <1>1, <1>2, <1>3, <2>1, <2>2 DEF HostType, EndsWith
<1>8. Untouched'
  <2>1. ASSUME NEW t \in Segs, left_of'[t] = None, NEW p \in Slice(t) PROVE order[p] = p
    BY <1>3, <1>5, <1>6, <2>1 DEF Untouched
  <2>2. \A t \in Segs : Slice(t)' = Slice(t)
    BY <1>2 DEF Same
  <2> QED BY <1>2, <2>1, <2>2 DEF Untouched
<1>9. Remembered'
  <2>1. goes_left' = goes_left
    BY <1>1 DEF fixed
  <2>2. \A t \in Segs : Blocks(t)' = Blocks(t) /\ \A c : CountsIn(t, c)' = CountsIn(t, c)
                        /\ BlockOf(t, c)' = BlockOf(t, c)
    BY <1>2 DEF Same
  <2> QED BY <1>1, <1>2, <1>3, <2>1, <2>2 DEF Remembered
<1>10. Scattered'
  <2>1. ASSUME NEW t \in Segs, left_of'[t] = None, NEW c \in Blocks(t), NEW p \in BlockOf(t, c),
               p < Reached(t, c)
        PROVE  scratch'[Place(t, p)] = p
    <3>1. t # s /\ left_of[t] = None
      BY <1>6, <2>1
    <3>2. BlockLies(t, c)
      BY <1>3, BlocksCut
    <3>3. p \in Slice(t)
      BY <3>2 DEF BlockLies
    <3>4. Place(t, p) \in Slice(t)
      BY <1>3, <3>3, Places
    <3>5. scratch[Place(t, p)] = p
      BY <1>3, <2>1, <3>1 DEF Scattered
    <3> QED BY <1>5, <3>1, <3>4, <3>5
  <2>2. \A t \in Segs : Blocks(t)' = Blocks(t)
                        /\ \A c : Low(t, c)' = Low(t, c) /\ BlockOf(t, c)' = BlockOf(t, c)
                        /\ \A q : Place(t, q)' = Place(t, q)
    BY <1>2 DEF Same
  <2>3. block_at' = block_at
    BY <1>1
  <2> QED BY <1>2, <2>1, <2>2, <2>3 DEF Scattered, Reached
<1>11. Ended'
  <2>1. ASSUME NEW t \in Segs, left_of'[t] # None PROVE Stably(t, order, left_of'[t])
    <3>1. CASE t = s
      BY <1>6, <3>1
    <3>2. CASE t # s
      <4>1. PICK c : c = left_of[t]
        OBVIOUS
      <4>2. Stably(t, row_indices, c) /\ left_of'[t] = c
        BY <1>3, <1>6, <2>1, <3>2, <4>1 DEF Ended
      <4>3. PICK f : f = row_indices
        OBVIOUS
      <4>4. \A p \in Slice(t) : f[p] = order[p]
        BY <1>5, <3>2, <4>3
      <4>5. Stably(t, order, c)
        BY <1>3, <4>2, <4>3, <4>4, SameOrder
      <4> QED BY <4>2, <4>5
    <3> QED BY <3>1, <3>2
  <2>2. ASSUME NEW t \in Segs, left_of'[t] # None
        PROVE  Stably(t, row_indices, left_of[t])'
    <3>1. PICK c : c = left_of'[t]
      OBVIOUS
    <3>2. Stably(t, order, c)'
      BY <1>2, <2>1, <2>2, <3>1
    <3> QED BY <3>1, <3>2
  <2> QED BY <1>2, <2>2 DEF Ended
<1>12. EdgesKept'
  <2>1. /\ 0 \in Positions /\ LastPosition \in Positions
        /\ 0 \notin Slice(s) /\ LastPosition \notin Slice(s)
    BY <1>3, SlicesApart DEF Positions
  <2> QED BY <1>2, <1>3, <2>1 DEF EdgesKept, EndsWith
<1> QED BY <1>2, <1>3, <1>7, <1>8, <1>9, <1>10, <1>11, <1>12 DEF HostInv

(* A large node is copied back.                                            *)
LEMMA CopyBackKeeps ==
  ASSUME HostInv, CopyBack
  PROVE  HostInv'
<1>1. PICK s \in Segs :
        /\ left_of[s] = None
        /\ \A b \in Blocks(s) : block_at[s][b] = 1 + Cardinality(BlockOf(s, b))
        /\ row_indices' = [p \in Positions |-> IF p \in Slice(s) THEN scratch[p] ELSE row_indices[p]]
        /\ left_of' = [left_of EXCEPT ![s] = LeftRows(s)]
  BY DEF CopyBack, Tasks
<1>2. UNCHANGED <<fixed, scratch, decisions, left_counts, block_at>>
  BY DEF CopyBack, vars, fixed
<1>3. Given /\ HostType /\ Remembered /\ Scattered
  BY DEF HostInv
<1>4. ASSUME NEW b \in Blocks(s)
      PROVE  block_at[s][b] > 0 /\ \A p \in BlockOf(s, b) : p < Reached(s, b)
  <2>1. BlockLies(s, b)
    BY <1>3, BlocksCut
  <2>2. PICK l \in Int, e \in Int : l = Low(s, b) /\ e = Cut(s, b + 1) /\ l < e
    BY <2>1 DEF BlockLies
  <2>3. BlockOf(s, b) = l .. e - 1
    BY <2>1, <2>2 DEF BlockLies
  <2>4. Cardinality(l .. e - 1) = e - l
    <3>1. e - 1 \in Int
      OBVIOUS
    <3>2. Cardinality(l .. e - 1) = IF l > e - 1 THEN 0 ELSE (e - 1) - l + 1
      BY <3>1, FS_Interval, Zenon
    <3> QED BY <2>2, <3>2
  <2>5. block_at[s][b] = 1 + (e - l)
    BY <1>1, <2>3, <2>4
  <2> QED BY <2>2, <2>3, <2>5 DEF Reached
<1>5. LeftRows(s) = Left(s, Begin(s + 1))
  <2>1. \A b \in Blocks(s) : left_counts[s][b] = CountsIn(s, b)
    BY <1>3, <1>4 DEF Remembered
  <2> QED BY <1>3, <2>1, CountsAdd
<1>6. PICK count \in Nat : count = LeftRows(s)
  <2>1. PICK e \in Int : e = Begin(s + 1) /\ Begin(s) <= e
    BY <1>3, SlicesApart
  <2>2. Grows(s, e, e)
    BY <1>3, <2>1, LeftGrows
  <2> QED BY <1>5, <2>1, <2>2 DEF Grows
<1>7. PICK order : order = row_indices'
  OBVIOUS
<1>8. ASSUME NEW p \in Slice(s) PROVE order[Place(s, p)] = p
  <2>1. PICK b \in Blocks(s) : p \in BlockOf(s, b)
    BY <1>3, BlocksCut
  <2>2. scratch[Place(s, p)] = p
    BY <1>1, <1>3, <1>4, <2>1 DEF Scattered
  <2>3. Place(s, p) \in Slice(s) /\ Slice(s) \subseteq Positions
    BY <1>3, Places, SlicesApart
  <2> QED BY <1>1, <1>7, <2>2, <2>3
<1>9. Stably(s, order, count)
  BY <1>3, <1>5, <1>6, <1>8, Placed
<1>10. EndsWith(s, count)
  BY <1>1, <1>2, <1>3, <1>6 DEF EndsWith, HostType, None
<1> QED BY <1>7, <1>9, <1>10, TaskEnds

(* A small node is partitioned.                                            *)
LEMMA PartitionSmallKeeps ==
  ASSUME HostInv, PartitionSmall
  PROVE  HostInv'
<1> DEFINE Partitioned(s) == PartitionBlock([j \in 1 .. launch.lens[s] |-> row_indices[Begin(s) + j - 1]])
<1>1. PICK s \in Segs :
        /\ left_of[s] = None
        /\ scratch' = [p \in Positions |-> IF p \in Slice(s) THEN Partitioned(s).order[p - Begin(s) + 1]
                                           ELSE scratch[p]]
        /\ row_indices' = [p \in Positions |-> IF p \in Slice(s) THEN Partitioned(s).order[p - Begin(s) + 1]
                                               ELSE row_indices[p]]
        /\ left_of' = [left_of EXCEPT ![s] = Partitioned(s).n_left]
  BY DEF PartitionSmall, Tasks
<1>2. UNCHANGED <<fixed, decisions, left_counts, block_at>>
  BY DEF PartitionSmall, vars, fixed
<1>3. Given /\ HostType /\ Untouched
  BY DEF HostInv
<1>4. /\ SegRows(s) \in Seq(Positions) /\ Len(SegRows(s)) = launch.lens[s]
      /\ \A j \in 1 .. launch.lens[s] : /\ SegRows(s)[j] = (Begin(s) + j) - 1
                                        /\ (Begin(s) + j) - 1 \in Slice(s)
  BY <1>3, SegRowsAre
<1>5. Begin(s) \in Nat /\ launch.lens[s] \in Nat /\ Begin(s + 1) = Begin(s) + launch.lens[s]
      /\ Slice(s) \subseteq Positions
  BY <1>3, SlicesApart
<1>6. [j \in 1 .. launch.lens[s] |-> row_indices[Begin(s) + j - 1]] = SegRows(s)
  <2>1. ASSUME NEW j \in 1 .. launch.lens[s]
        PROVE  row_indices[Begin(s) + j - 1] = Begin(s) + j - 1
    <3>1. Begin(s) + j - 1 \in Slice(s)
      BY <1>4, <1>5
    <3> QED BY <1>1, <1>3, <3>1 DEF Untouched
  <2> QED BY <2>1 DEF SegRows
<1> DEFINE left == Chosen(SegRows(s), Lefty)
           right == Chosen(SegRows(s), Righty)
<1>7. Partitioned(s).order = left \o right /\ Partitioned(s).n_left = Len(left)
  BY <1>3, <1>4, <1>6, BlockIs
<1>8. left \in Seq(Positions) /\ right \in Seq(Positions)
  BY <1>4, ChosenElems
<1>9. Len(left) + Len(right) = launch.lens[s]
  <2>1. \A r \in Positions : r \in Righty <=> r \notin Lefty
    BY DEF Righty, Lefty
  <2> QED BY <1>4, <2>1, ChosenLengths
<1> HIDE DEF Partitioned, left, right
<1>10. PICK order : order = row_indices'
  OBVIOUS
<1>11. PICK count \in Nat : count = Len(left)
  BY <1>8
<1>12. PICK w : w = left \o right /\ DOMAIN w = 1 .. launch.lens[s] /\ w = [j \in DOMAIN w |-> w[j]]
  <2>1. PICK X : left \in Seq(X) /\ right \in Seq(X)
    BY <1>8
  <2>2. left \o right \in Seq(X) /\ Len(left \o right) = Len(left) + Len(right)
    BY <2>1, Concatenated
  <2>3. PICK w : w = left \o right
    OBVIOUS
  <2>4. w \in Seq(X) /\ Len(w) = launch.lens[s]
    BY <1>9, <2>2, <2>3
  <2>5. DOMAIN w = 1 .. launch.lens[s] /\ w = [j \in DOMAIN w |-> w[j]]
    BY <2>4
  <2> QED BY <2>3, <2>5
<1>13. ASSUME NEW j \in 1 .. launch.lens[s] PROVE order[Begin(s) + j - 1] = w[j]
  <2>1. PICK p \in Int : p = Begin(s) + j - 1 /\ p - Begin(s) + 1 = j
    BY <1>5
  <2>2. p \in Slice(s) /\ p \in Positions
    BY <1>4, <1>5, <2>1
  <2>3. order[p] = Partitioned(s).order[p - Begin(s) + 1]
    BY <1>1, <1>10, <2>2
  <2> QED BY <1>7, <1>12, <2>1, <2>3
<1>14. Stably(s, order, count)
  <2>1. [j \in 1 .. launch.lens[s] |-> order[Begin(s) + j - 1]] = left \o right
    BY <1>12, <1>13
  <2> QED BY <1>11, <2>1 DEF Stably, left, right, SegRows, Lefty, Righty
<1>15. EndsWith(s, count)
  BY <1>1, <1>2, <1>3, <1>7, <1>11 DEF EndsWith, HostType, None
<1> QED BY <1>10, <1>14, <1>15, TaskEnds

(* The host's part of a step that does not move it.                        *)
LEMMA OthersKeep ==
  ASSUME HostInv, UNCHANGED <<fixed, host>>
  PROVE  HostInv'
<1>1. UNCHANGED fixed
  OBVIOUS
<1>2. /\ Given' = Given /\ Segs' = Segs /\ Positions' = Positions /\ LastPosition' = LastPosition
      /\ \A t : Same(t)
      /\ \A t, f, c : Stably(t, f, c)' = Stably(t, f, c)
  BY <1>1, FixedSame
<1>3. Given /\ HostType /\ Untouched /\ Remembered /\ Scattered /\ Ended /\ EdgesKept
  BY DEF HostInv
<1>4. UNCHANGED <<goes_left, row_indices, scratch, decisions, left_counts, block_at, left_of>>
  BY DEF host, fixed
<1>5. \A t : /\ Blocks(t)' = Blocks(t) /\ Slice(t)' = Slice(t)
             /\ \A c : /\ CountsIn(t, c)' = CountsIn(t, c) /\ BlockOf(t, c)' = BlockOf(t, c)
                       /\ Low(t, c)' = Low(t, c)
             /\ \A p : Place(t, p)' = Place(t, p)
  BY <1>2 DEF Same
<1>6. HostType'
  BY <1>2, <1>3, <1>4, <1>5 DEF HostType
<1>7. Untouched'
  BY <1>2, <1>3, <1>4, <1>5 DEF Untouched
<1>8. Remembered'
  BY <1>2, <1>3, <1>4, <1>5 DEF Remembered
<1>9. Scattered'
  BY <1>2, <1>3, <1>4, <1>5 DEF Scattered, Reached
<1>10. Ended'
  BY <1>2, <1>3, <1>4 DEF Ended
<1>11. EdgesKept'
  BY <1>2, <1>3, <1>4 DEF EdgesKept
<1> QED BY <1>2, <1>3, <1>6, <1>7, <1>8, <1>9, <1>10, <1>11 DEF HostInv

-----------------------------------------------------------------------------
(* The theorems about the host's partition. *)

(* At every moment, in whatever order the tasks and the blocks run, a node *)
(* still to do has its rows where they were, what its blocks have          *)
(* scattered lies where a stable partition puts it, and a node that is     *)
(* done is stably partitioned.                                             *)
THEOREM HostInvariant == HostSpec => []HostInv
<1>1. HostInv /\ [HostNext]_<<vars, host>> => HostInv'
  <2> SUFFICES ASSUME HostInv, [HostNext]_<<vars, host>> PROVE HostInv'
    OBVIOUS
  <2>1. CASE Run /\ UNCHANGED host
    <3>1. UNCHANGED fixed
      BY <2>1, RunKeeps
    <3> QED BY <2>1, <3>1, OthersKeep
  <2>2. CASE CountBlock
    BY <2>2, CountBlockKeeps
  <2>3. CASE ScatterRow
    BY <2>3, ScatterRowKeeps
  <2>4. CASE CopyBack
    BY <2>4, CopyBackKeeps
  <2>5. CASE PartitionSmall
    BY <2>5, PartitionSmallKeeps
  <2>6. CASE UNCHANGED <<vars, host>>
    <3>1. UNCHANGED fixed
      BY <2>6 DEF vars, fixed
    <3> QED BY <2>6, <3>1, OthersKeep
  <2> QED BY <2>1, <2>2, <2>3, <2>4, <2>5, <2>6 DEF HostNext
<1> QED BY HostBegins, <1>1, PTL DEF HostSpec

(* "the result is identical to the serial partition": split_all leaves the *)
(* rows of each node stably partitioned, its left rows counted, and moves  *)
(* no row outside the batch, for any lengths of the nodes, any block size  *)
(* and any threshold.                                                      *)
THEOREM HostPartitionStable == HostSpec => []BlocksStable
<1>1. HostInv => BlocksStable
  BY DEF HostInv, Ended, EdgesKept, BlocksStable, HostDone
<1> QED BY HostInvariant, <1>1, PTL

-----------------------------------------------------------------------------
(* Powers of two.                                                          *)

Doubling(n, F) ==
  F \in [0 .. n -> Nat] /\ F[0] = 1 /\ \A k \in 1 .. n : F[k] = 2 * F[k - 1]

(* Doubled is what its definition says.                                    *)
LEMMA DoubledIs ==
  /\ Doubled \in [Nat -> Nat] /\ Doubled[0] = 1
  /\ \A j \in Nat : Doubled[j + 1] = 2 * Doubled[j]
<1> DEFINE C == {n \in Nat : \E F : Doubling(n, F)}
           E(G) == [j \in Nat |-> IF j = 0 THEN 1 ELSE 2 * G[j - 1]]
<1>1. 0 \in C
  <2>1. Doubling(0, [k \in 0 .. 0 |-> 1])
    BY DEF Doubling
  <2> QED BY <2>1
<1>2. ASSUME NEW n \in Nat, n \in C PROVE n + 1 \in C
  <2>1. PICK F : Doubling(n, F)
    BY <1>2
  <2> DEFINE G == [k \in 0 .. n + 1 |-> IF k = n + 1 THEN 2 * F[n] ELSE F[k]]
  <2>2. G \in [0 .. n + 1 -> Nat] /\ G[0] = 1
    BY <2>1 DEF Doubling
  <2>3. \A k \in 1 .. n + 1 : G[k] = 2 * G[k - 1]
    BY <2>1 DEF Doubling
  <2>4. Doubling(n + 1, G)
    BY <2>2, <2>3 DEF Doubling
  <2> QED BY <2>4
<1>3. \A n \in Nat : n \in C
  <2> HIDE DEF C
  <2> QED BY <1>1, <1>2, NatSetInduction
<1> DEFINE F(n) == CHOOSE G : Doubling(n, G)
           D == [n \in Nat |-> F(n)[n]]
<1>4. \A n \in Nat : Doubling(n, F(n))
  BY <1>3
<1> HIDE DEF C, F
<1>5. ASSUME NEW n \in Nat PROVE F(n + 1)[n] = F(n)[n]
  <2>1. PICK a, b : a = F(n) /\ b = F(n + 1)
    OBVIOUS
  <2>2. Doubling(n, a) /\ Doubling(n + 1, b)
    BY <1>4, <2>1
  <2> DEFINE B == {k \in Nat : k <= n => a[k] = b[k]}
  <2>3. 0 \in B
    BY <2>2 DEF Doubling
  <2>4. ASSUME NEW k \in Nat, k \in B PROVE k + 1 \in B
    BY <2>2, <2>4 DEF Doubling
  <2> HIDE DEF B
  <2>5. n \in B
    BY <2>3, <2>4, NatSetInduction
  <2> QED BY <2>1, <2>5 DEF B
<1>6. ASSUME NEW n \in Nat PROVE F(n + 1)[n + 1] = 2 * F(n + 1)[n] /\ F(n)[n] \in Nat
  <2>1. PICK a, b : a = F(n) /\ b = F(n + 1)
    OBVIOUS
  <2>2. Doubling(n, a) /\ Doubling(n + 1, b)
    BY <1>4, <2>1
  <2> QED BY <2>1, <2>2 DEF Doubling
<1>7. F(0)[0] = 1
  <2>1. PICK a : a = F(0)
    OBVIOUS
  <2> QED BY <1>4, <2>1 DEF Doubling
<1>8. D \in [Nat -> Nat] /\ D[0] = 1 /\ \A j \in Nat : D[j + 1] = 2 * D[j]
  BY <1>5, <1>6, <1>7
<1>9. D = E(D)
  <2>1. ASSUME NEW j \in Nat PROVE D[j] = IF j = 0 THEN 1 ELSE 2 * D[j - 1]
    <3> HIDE DEF D
    <3>1. CASE j = 0
      BY <1>8, <3>1
    <3>2. CASE j # 0
      <4>1. j - 1 \in Nat /\ (j - 1) + 1 = j
        BY <3>2
      <4> QED BY <1>8, <3>2, <4>1
    <3> QED BY <3>1, <3>2
  <2>2. D = [j \in Nat |-> D[j]]
    OBVIOUS
  <2> HIDE DEF D
  <2> QED BY <2>1, <2>2
<1> HIDE DEF D
<1>10. Doubled = E(Doubled)
  <2>1. Doubled = CHOOSE G : G = E(G)
    BY DEF Doubled
  <2> HIDE DEF E
  <2> QED BY <1>9, <2>1
<1> DEFINE B == {k \in Nat : Doubled[k] = D[k]}
<1>11. \A j \in Nat : Doubled[j] = IF j = 0 THEN 1 ELSE 2 * Doubled[j - 1]
  BY <1>10
<1>12. 0 \in B
  BY <1>8, <1>11
<1>13. ASSUME NEW k \in Nat, k \in B PROVE k + 1 \in B
  <2>1. k + 1 \in Nat /\ k + 1 # 0 /\ (k + 1) - 1 = k
    OBVIOUS
  <2>2. Doubled[k + 1] = 2 * Doubled[k]
    BY <1>11, <2>1
  <2> QED BY <1>8, <1>13, <2>2
<1>14. \A k \in Nat : Doubled[k] = D[k]
  <2> HIDE DEF B
  <2>1. \A k \in Nat : k \in B
    BY <1>12, <1>13, NatSetInduction
  <2> QED BY <2>1 DEF B
<1>15. Doubled = D
  <2>1. Doubled = [j \in Nat |-> Doubled[j]]
    <3>1. DOMAIN Doubled = Nat
      BY <1>10
    <3>2. Doubled = [j \in Nat |-> IF j = 0 THEN 1 ELSE 2 * Doubled[j - 1]]
      BY <1>10
    <3> QED BY <1>11, <3>2
  <2>2. D = [j \in Nat |-> D[j]]
    BY <1>8
  <2> QED BY <1>14, <2>1, <2>2
<1> QED BY <1>8, <1>15

(* They grow at least as fast as the numbers.                              *)
LEMMA DoubledRises ==
  /\ \A j \in Nat : Doubled[j] \in Nat \ {0} /\ j < Doubled[j]
  /\ \A i, j \in Nat : i < j => Doubled[i] < Doubled[j]
<1>1. \A j \in Nat : Doubled[j] \in Nat /\ Doubled[j + 1] = 2 * Doubled[j]
  BY DoubledIs
<1> DEFINE B == {j \in Nat : j < Doubled[j]}
<1>2. 0 \in B
  BY DoubledIs
<1>3. ASSUME NEW j \in Nat, j \in B PROVE j + 1 \in B
  BY <1>1, <1>3
<1>4. \A j \in Nat : j \in B
  <2> HIDE DEF B
  <2> QED BY <1>2, <1>3, NatSetInduction
<1>5. \A j \in Nat : Doubled[j] \in Nat \ {0} /\ j < Doubled[j]
  BY <1>1, <1>4
<1> HIDE DEF B
<1>6. ASSUME NEW i \in Nat, NEW j \in Nat, i < j PROVE Doubled[i] < Doubled[j]
  <2> DEFINE C == {k \in Nat : Doubled[i] < Doubled[i + (k + 1)]}
  <2>1. 0 \in C
    <3>1. i + (0 + 1) = i + 1
      OBVIOUS
    <3> QED BY <1>1, <1>5, <3>1
  <2>2. ASSUME NEW k \in Nat, k \in C PROVE k + 1 \in C
    <3>1. PICK z \in Nat : z = i + (k + 1)
      OBVIOUS
    <3>2. i + ((k + 1) + 1) = z + 1 /\ Doubled[i] < Doubled[z]
      BY <2>2, <3>1
    <3>3. Doubled[z + 1] = 2 * Doubled[z] /\ Doubled[z] \in Nat /\ Doubled[i] \in Nat
      BY <1>1
    <3> QED BY <3>2, <3>3
  <2>3. PICK k \in Nat : j = i + (k + 1)
    <3>1. (j - i) - 1 \in Nat /\ j = i + (((j - i) - 1) + 1)
      BY <1>6
    <3> QED BY <3>1
  <2>4. k \in C
    <3> HIDE DEF C
    <3> QED BY <2>1, <2>2, NatSetInduction
  <2> QED BY <2>3, <2>4
<1> QED BY <1>5, <1>6

(* Halving undoes doubling, down to one and then to nothing.               *)
LEMMA DoubledHalves ==
  ASSUME NEW n \in Nat, NEW j \in Nat
  PROVE  /\ j <= n => Doubled[n] \div Doubled[j] = Doubled[n - j]
         /\ j > n => Doubled[n] \div Doubled[j] = 0
<1>1. \A i \in Nat : Doubled[i] \in Nat \ {0} /\ Doubled[i + 1] = 2 * Doubled[i]
  BY DoubledRises, DoubledIs
<1> DEFINE C == {i \in Nat : i <= n => Doubled[n - i] * Doubled[i] = Doubled[n]}
<1>2. 0 \in C
  <2>1. Doubled[0] = 1 /\ n - 0 = n
    BY DoubledIs
  <2> QED BY <1>1, <2>1
<1>3. ASSUME NEW i \in Nat, i \in C PROVE i + 1 \in C
  <2> SUFFICES ASSUME i + 1 <= n PROVE Doubled[n - (i + 1)] * Doubled[i + 1] = Doubled[n]
    OBVIOUS
  <2>1. PICK k \in Nat : k = n - (i + 1) /\ n - i = k + 1
    OBVIOUS
  <2>2. PICK x \in Nat, y \in Nat : x = Doubled[k] /\ y = Doubled[i]
    BY <1>1
  <2>3. Doubled[k + 1] = 2 * x /\ Doubled[i + 1] = 2 * y
    BY <1>1, <2>2
  <2>4. (2 * x) * y = Doubled[n]
    BY <1>3, <2>1, <2>2, <2>3
  <2>5. x * (2 * y) = (2 * x) * y
    OBVIOUS
  <2> QED BY <2>1, <2>2, <2>3, <2>4, <2>5
<1> HIDE DEF C
<1>4. j \in C
  BY <1>2, <1>3, NatSetInduction
<1>5. j <= n => Doubled[n] \div Doubled[j] = Doubled[n - j]
  <2> SUFFICES ASSUME j <= n PROVE Doubled[n] \div Doubled[j] = Doubled[n - j]
    OBVIOUS
  <2>1. PICK x \in Nat, y \in Nat \ {0} : x = Doubled[n - j] /\ y = Doubled[j]
    BY <1>1
  <2>2. Doubled[n] = x * y + 0
    <3>1. x * y = Doubled[n] /\ x * y \in Nat
      BY <1>4, <2>1 DEF C
    <3> QED BY <3>1
  <2>3. 0 \in 0 .. y - 1
    BY <2>1
  <2>4. (x * y + 0) \div y = x
    BY <2>3, DivOf
  <2> QED BY <2>1, <2>2, <2>4
<1>6. j > n => Doubled[n] \div Doubled[j] = 0
  <2> SUFFICES ASSUME j > n PROVE Doubled[n] \div Doubled[j] = 0
    OBVIOUS
  <2>1. PICK r \in Nat, y \in Nat \ {0} : r = Doubled[n] /\ y = Doubled[j] /\ r < y
    BY <1>1, DoubledRises
  <2>2. r \in 0 .. y - 1
    BY <2>1
  <2>3. (0 * y + r) \div y = 0
    BY <2>2, DivOf
  <2>4. 0 * y + r = r
    BY <2>1
  <2> QED BY <2>1, <2>3, <2>4
<1> QED BY <1>5, <1>6

(* The block of a scan is a power of two.                                  *)
LEMMA BlockIsPower ==
  ASSUME NEW w \in Nat \ {0}
  PROVE  \E n \in Nat : ScanBlock(w) = Doubled[n]
<1>1. \A i \in Nat : Doubled[i] \in Nat \ {0} /\ i < Doubled[i] /\ Doubled[i + 1] = 2 * Doubled[i]
  BY DoubledRises, DoubledIs
<1> DEFINE T == {j \in Nat : Doubled[j] > w}
<1>2. w \in T
  BY <1>1
<1>3. PICK n \in T : \A m \in T : n <= m
  BY <1>2, LeastOf
<1>4. n # 0
  BY <1>3, DoubledIs
<1>5. PICK k \in Nat : k = n - 1 /\ n = k + 1
  BY <1>3, <1>4
<1>6. Doubled[k] <= w /\ 2 * Doubled[k] > w
  BY <1>1, <1>3, <1>5
<1>7. k \in 0 .. w
  BY <1>1, <1>6
<1>8. \E b \in {Doubled[j] : j \in 0 .. w} : b <= w /\ 2 * b > w
  BY <1>6, <1>7
<1>9. ScanBlock(w) \in {Doubled[j] : j \in 0 .. w}
  BY <1>8 DEF ScanBlock
<1> QED BY <1>9

(* How many powers of two there are from one up to a power of two.         *)
LEMMA HowMany ==
  ASSUME NEW n \in Nat, Block = Doubled[n]
  PROVE  Ups = n /\ Downs = n
<1>1. /\ \A i \in Nat : Doubled[i] \in Nat \ {0} /\ i < Doubled[i]
      /\ \A i, j \in Nat : i < j => Doubled[i] < Doubled[j]
  BY DoubledRises
<1>2. \A i \in Nat : Doubled[i] < Block <=> i < n
  <2> SUFFICES ASSUME NEW i \in Nat PROVE Doubled[i] < Doubled[n] <=> i < n
    OBVIOUS
  <2>1. i < n \/ i = n \/ n < i
    OBVIOUS
  <2>2. Doubled[i] \in Nat /\ Doubled[n] \in Nat
    BY <1>1
  <2> QED BY <1>1, <2>1, <2>2
<1>3. Block \in Nat \ {0} /\ n < Block
  BY <1>1
<1>4. {j \in 0 .. Block : Doubled[j] < Block} = 0 .. n - 1
  BY <1>2, <1>3
<1>5. {j \in 1 .. Block : Block \div Doubled[j] > 0} = 1 .. n
  <2>1. ASSUME NEW j \in 1 .. Block PROVE Block \div Doubled[j] > 0 <=> j <= n
    <3>1. j \in Nat /\ n - j \in Int
      BY <1>3
    <3>2. CASE j <= n
      <4>1. PICK i \in Nat : i = n - j
        BY <3>1, <3>2
      <4>2. Block \div Doubled[j] = Doubled[i]
        BY <3>1, <3>2, <4>1, DoubledHalves
      <4> QED BY <1>1, <3>2, <4>2
    <3>3. CASE j > n
      <4>1. Block \div Doubled[j] = 0
        BY <3>1, <3>3, DoubledHalves
      <4> QED BY <3>1, <3>3, <4>1
    <3> QED BY <3>1, <3>2, <3>3
  <2> QED BY <1>3, <2>1
<1>6. Cardinality(0 .. n - 1) = n
  <2>1. Cardinality(0 .. n - 1) = IF 0 > n - 1 THEN 0 ELSE (n - 1) - 0 + 1
    <3>1. 0 \in Int /\ n - 1 \in Int
      OBVIOUS
    <3> QED BY <3>1, FS_Interval, Zenon
  <2> QED BY <2>1
<1>7. Cardinality(1 .. n) = n
  <2>1. Cardinality(1 .. n) = IF 1 > n THEN 0 ELSE n - 1 + 1
    <3>1. 1 \in Int /\ n \in Int
      OBVIOUS
    <3> QED BY <3>1, FS_Interval, Zenon
  <2> QED BY <2>1
<1> QED BY <1>4, <1>5, <1>6, <1>7 DEF Ups, Downs

-----------------------------------------------------------------------------
(* The tiles of the segments.                                              *)

Offsets == 0 .. Block - 1
Tiled(s) == FirstTile(s + 1) - FirstTile(s)   \* how many

(* What a segment's tiles are, and what a tile is.                         *)
SegTiles(s) ==
  /\ FirstTile(s) \in Nat \ {0} /\ FirstTile(s + 1) \in Nat \ {0}
  /\ Tiled(s) \in Nat \ {0} /\ launch.lens[s] <= Tiled(s) * Block
  /\ TilesOf(s) \subseteq Tiles
  /\ \A k \in TilesOf(s) : SegOf(k) = s
TileIs(k) ==
  /\ k \in Nat \ {0} /\ SegOf(k) \in Segs
  /\ k \in TilesOf(SegOf(k))
  /\ table.off[k] = (k - FirstTile(SegOf(k))) * Block

(* The block of a launch, and the units that share it.                     *)
LEMMA BlockOfLaunch ==
  ASSUME Given
  PROVE  /\ Block \in Nat \ {0} /\ 0 \in Units /\ Units \subseteq Offsets
         /\ launch.coop \in BOOLEAN /\ launch.one_memory \in BOOLEAN
         /\ launch.coop => /\ Ups \in Nat /\ Downs = Ups /\ Block = Doubled[Ups] /\ Units = Offsets
                           /\ Block - 1 \in Units
<1>1. /\ launch.width \in Nat \ {0} /\ launch.coop \in BOOLEAN /\ launch.one_memory \in BOOLEAN
      /\ Block = IF launch.coop THEN ScanBlock(launch.width) ELSE launch.width
  BY RowPartitionAssumption DEF Given, TileTable, Block
<1>2. CASE launch.coop
  <2>1. PICK n \in Nat : Block = Doubled[n]
    BY <1>1, <1>2, BlockIsPower
  <2>2. Ups = n /\ Downs = n
    BY <2>1, HowMany
  <2>3. Block \in Nat \ {0}
    BY <2>1, DoubledRises
  <2> QED BY <1>1, <1>2, <2>1, <2>2, <2>3 DEF Units, Offsets
<1>3. CASE ~launch.coop
  BY <1>1, <1>3 DEF Units, Offsets
<1> QED BY <1>1, <1>2, <1>3

(* A segment has as many tiles as its rows need, and at least one.         *)
LEMMA EnoughTiles ==
  ASSUME NEW len \in Nat, NEW b \in Nat \ {0}
  PROVE  TileCount(len, b) \in Nat \ {0} /\ len <= TileCount(len, b) * b
<1>1. CASE len = 0
  BY <1>1 DEF TileCount
<1>2. CASE len # 0
  <2>1. PICK n \in Nat : n = (len + b) - 1 /\ n = len + b - 1
    OBVIOUS
  <2>2. PICK q \in Nat : q = n \div b
    BY <2>1, DivBounds
  <2>3. n < (q + 1) * b
    BY <2>2, DivBounds
  <2>4. (q + 1) * b = q * b + b /\ q * b \in Nat
    OBVIOUS
  <2>5. len <= q * b
    BY <2>1, <2>3, <2>4
  <2>6. q # 0
    BY <1>2, <2>5
  <2>7. TileCount(len, b) = q
    BY <1>2, <2>1, <2>2 DEF TileCount
  <2> QED BY <2>5, <2>6, <2>7
<1> QED BY <1>1, <1>2

(* The tiles lie one after another, each with one segment.                 *)
LEMMA TilesLaid ==
  ASSUME Given
  PROVE  /\ \A s \in Segs : SegTiles(s)
         /\ \A k \in Tiles : TileIs(k)
         /\ \E n \in Nat : Tiles = 1 .. n
<1> DEFINE lens == launch.lens
           n == NumSegs
           block == IF launch.coop THEN ScanBlock(launch.width) ELSE launch.width
           count == [s \in 1 .. n |-> TileCount(lens[s], block)]
           first == table.first
           last == first[n + 1]
           Owns(s, k) == first[s] <= k /\ k < first[s + 1]
<1>1. /\ n \in Nat /\ Segs = 1 .. n /\ \A s \in 1 .. n : lens[s] \in Nat
      /\ Block = block /\ block \in Nat \ {0}
  BY Laid, BlockOfLaunch DEF Given, TileTable, Block
<1>2. table.first = [s \in 1 .. n + 1 |-> 1 + SumOf(count, 1 .. s - 1)]
  BY DEF Given, TileTable, NumSegs
<1>3. \A s \in 1 .. n : count[s] \in Nat \ {0} /\ lens[s] <= count[s] * block
  <2> HIDE DEF block, lens, n
  <2> QED BY <1>1, EnoughTiles
<1>4. RunningSum(n, count, table.first)
  <2> HIDE DEF n, count
  <2> QED BY <1>1, <1>2, <1>3, RunningSums
<1>5. /\ DOMAIN first = 1 .. n + 1 /\ Len(first) = n + 1 /\ first[1] = 1
      /\ \A s \in 1 .. n + 1 : first[s] \in Nat \ {0}
      /\ \A s \in 1 .. n : first[s + 1] = first[s] + count[s]
      /\ \A s, t \in 1 .. n + 1 : s <= t => first[s] <= first[t]
  BY <1>4 DEF RunningSum
<1> DEFINE segs == 1 .. Len(launch.lens)
           nTiles == [s \in segs |-> TileCount(launch.lens[s], block)]
           starts == [s \in 1 .. Len(launch.lens) + 1 |-> 1 + SumOf(nTiles, 1 .. s - 1)]
           tiles == 1 .. starts[Len(starts)] - 1
           seg == [k \in tiles |-> CHOOSE s \in segs : starts[s] <= k /\ k < starts[s + 1]]
           off == [k \in tiles |-> (k - starts[seg[k]]) * block]
           begin == [s \in 1 .. Len(launch.lens) + 1 |-> 1 + SumOf(launch.lens, 1 .. s - 1)]
<1>t. first = starts /\ table.seg = seg /\ table.off = off
  <2>1. table = [block |-> block, begin |-> begin, first |-> starts, seg |-> seg, off |-> off]
    BY DEF Given, TileTable
  <2> HIDE DEF block, begin, starts, seg, off
  <2> QED BY <2>1
<1>6. table.seg = [k \in 1 .. last - 1 |-> CHOOSE s \in 1 .. n : Owns(s, k)]
  <2>1. segs = 1 .. n /\ tiles = 1 .. last - 1
    <3> HIDE DEF starts
    <3> QED BY <1>5, <1>t DEF NumSegs
  <2>2. seg = [k \in 1 .. last - 1 |-> CHOOSE s \in 1 .. n : starts[s] <= k /\ k < starts[s + 1]]
    <3> HIDE DEF starts, segs, tiles, last, n
    <3> QED BY <2>1
  <2> HIDE DEF starts, seg
  <2> QED BY <1>t, <2>2
<1>7. table.off = [k \in 1 .. last - 1 |-> (k - first[table.seg[k]]) * Block]
  <2>1. tiles = 1 .. last - 1
    <3> HIDE DEF starts
    <3> QED BY <1>5, <1>t
  <2> HIDE DEF starts, seg, tiles, last, block
  <2> QED BY <1>1, <1>t, <2>1
<1> HIDE DEF segs, nTiles, starts, tiles, seg, off, begin
<1> HIDE DEF count, first, lens, n, block
<1>8. last \in Nat \ {0} /\ Tiles = 1 .. last - 1
  <2>1. n + 1 \in 1 .. n + 1
    BY <1>1
  <2> QED BY <1>5, <1>6, <2>1 DEF Tiles
<1> HIDE DEF last
<1>9. \A k \in 1 .. last - 1 : \E s \in 1 .. n : Owns(s, k)
  <2> DEFINE C == {j \in Nat : j <= n => \A k \in Nat : 1 <= k /\ k < first[j + 1] =>
                                              \E s \in 1 .. n : Owns(s, k)}
  <2>1. 0 \in C
    BY <1>5
  <2>2. ASSUME NEW j \in Nat, j \in C PROVE j + 1 \in C
    <3> SUFFICES ASSUME j + 1 <= n, NEW k \in Nat, 1 <= k, k < first[(j + 1) + 1]
                 PROVE  \E s \in 1 .. n : Owns(s, k)
      OBVIOUS
    <3>1. j + 1 \in 1 .. n /\ j + 1 \in 1 .. n + 1
      BY <1>1
    <3>2. first[j + 1] \in Nat
      BY <1>5, <3>1
    <3>3. CASE k < first[j + 1]
      BY <1>1, <2>2, <3>3
    <3>4. CASE first[j + 1] <= k
      BY <3>1, <3>4
    <3> QED BY <3>2, <3>3, <3>4
  <2> HIDE DEF C
  <2>3. n \in C
    BY <1>1, <2>1, <2>2, NatSetInduction
  <2> QED BY <1>1, <1>8, <2>3 DEF C, last
<1>10. ASSUME NEW s \in 1 .. n, NEW t \in 1 .. n, NEW k \in Int, Owns(s, k), Owns(t, k) PROVE s = t
  <2>1. ASSUME NEW a \in 1 .. n, NEW b \in 1 .. n, a < b, Owns(a, k), Owns(b, k) PROVE FALSE
    <3>1. a + 1 \in 1 .. n + 1 /\ b \in 1 .. n + 1 /\ a + 1 <= b
      BY <1>1, <2>1
    <3>2. first[a + 1] <= first[b] /\ first[a + 1] \in Nat /\ first[b] \in Nat
      BY <1>5, <3>1
    <3> QED BY <2>1, <3>2
  <2>2. s < t \/ t < s \/ s = t
    BY <1>1
  <2> QED BY <1>10, <2>1, <2>2
<1>11. ASSUME NEW k \in 1 .. last - 1 PROVE SegOf(k) \in 1 .. n /\ Owns(SegOf(k), k)
  <2>1. SegOf(k) = CHOOSE s \in 1 .. n : Owns(s, k)
    BY <1>6 DEF SegOf
  <2> HIDE DEF Owns
  <2> QED BY <1>9, <2>1
<1>12. \A s : FirstTile(s) = first[s]
  BY DEF FirstTile, first
<1>13. ASSUME NEW k \in Tiles PROVE TileIs(k)
  <2>1. k \in 1 .. last - 1 /\ k \in Nat \ {0}
    BY <1>8
  <2>2. SegOf(k) \in 1 .. n /\ Owns(SegOf(k), k)
    BY <1>11, <2>1
  <2>3. table.off[k] = (k - FirstTile(SegOf(k))) * Block
    BY <1>7, <1>12, <2>1 DEF SegOf
  <2>4. first[SegOf(k)] \in Nat /\ first[SegOf(k) + 1] \in Nat
    BY <1>1, <1>5, <2>2
  <2> QED BY <1>1, <1>12, <2>1, <2>2, <2>3, <2>4 DEF TileIs, TilesOf
<1>14. ASSUME NEW s \in Segs PROVE SegTiles(s)
  <2>1. s \in 1 .. n /\ s \in 1 .. n + 1 /\ s + 1 \in 1 .. n + 1 /\ s + 1 <= n + 1 /\ n + 1 \in 1 .. n + 1
        /\ 1 \in 1 .. n + 1 /\ 1 <= s
    BY <1>1
  <2>2. /\ first[s] \in Nat \ {0} /\ first[s + 1] \in Nat \ {0} /\ first[s + 1] = first[s] + count[s]
        /\ count[s] \in Nat \ {0} /\ lens[s] <= count[s] * Block /\ first[s + 1] <= last
    BY <1>1, <1>3, <1>5, <2>1 DEF last
  <2>3. Tiled(s) = count[s]
    BY <1>12, <2>2 DEF Tiled
  <2>4. TilesOf(s) \subseteq 1 .. last - 1 /\ \A k \in TilesOf(s) : k \in Int /\ Owns(s, k)
    BY <1>8, <1>12, <2>2 DEF TilesOf
  <2>5. \A k \in TilesOf(s) : SegOf(k) = s
    BY <1>10, <1>11, <2>1, <2>4
  <2> QED BY <1>8, <1>12, <2>2, <2>3, <2>4, <2>5 DEF SegTiles, lens
<1>15. \E j \in Nat : Tiles = 1 .. j
  <2>1. last - 1 \in Nat
    BY <1>8
  <2> QED BY <1>8, <2>1
<1> QED BY <1>13, <1>14, <1>15

-----------------------------------------------------------------------------
(* The rows of a tile, and how many before them go left.                   *)

Upto(k, u) == IF Live(k, u) THEN RowOf(k, u) ELSE Begin(SegOf(k) + 1)
LeftTo(k, u) == Left(SegOf(k), Upto(k, u))
AllLeft(k) == Left(SegOf(k), Begin(SegOf(k) + 1))
SlotOf(k, u) == Place(SegOf(k), RowOf(k, u))

(* A live offset of a tile is a row of its segment.                        *)
LEMMA LiveRow ==
  ASSUME Given, NEW k \in Tiles, NEW u \in Nat
  PROVE  /\ SegOf(k) \in Segs /\ table.off[k] \in Nat /\ Off(k, u) \in Nat
         /\ Off(k, u + 1) = Off(k, u) + 1 /\ RowOf(k, u) = Begin(SegOf(k)) + Off(k, u)
         /\ RowOf(k, u + 1) = RowOf(k, u) + 1 /\ RowOf(k, u) \in Nat
         /\ Live(k, u) <=> RowOf(k, u) \in Slice(SegOf(k))
<1>1. TileIs(k)
  BY TilesLaid
<1>2. SegTiles(SegOf(k))
  BY <1>1, TilesLaid DEF TileIs
<1>3. PICK s \in Segs : s = SegOf(k)
  BY <1>1 DEF TileIs
<1>4. PICK j \in Nat : j = k - FirstTile(s)
  BY <1>1, <1>2, <1>3 DEF TileIs, SegTiles, TilesOf
<1>5. Block \in Nat
  BY BlockOfLaunch
<1>6. PICK o \in Nat : o = j * Block
  BY <1>5
<1>7. table.off[k] = o
  BY <1>1, <1>3, <1>4, <1>6 DEF TileIs
<1>8. Off(k, u) = o + u /\ Off(k, u + 1) = o + (u + 1)
  BY <1>7 DEF Off
<1>9. Begin(s) \in Nat /\ launch.lens[s] \in Nat /\ Begin(s + 1) = Begin(s) + launch.lens[s]
  BY SlicesApart
<1>10. RowOf(k, u) = Begin(s) + (o + u) /\ RowOf(k, u + 1) = Begin(s) + (o + (u + 1))
  BY <1>3, <1>8 DEF RowOf
<1>11. Live(k, u) <=> o + u < launch.lens[s]
  BY <1>3, <1>8 DEF Live
<1>12. RowOf(k, u) \in Slice(s) <=> o + u < launch.lens[s]
  BY <1>9, <1>10 DEF Slice
<1> QED BY <1>3, <1>7, <1>8, <1>9, <1>10, <1>11, <1>12

(* From an offset of a tile to the next, the count rises by the flag.      *)
LEMMA LeftStep ==
  ASSUME Given, NEW k \in Tiles, NEW u \in Nat
  PROVE  /\ LeftTo(k, u) \in Nat /\ Flag(k, u) \in {0, 1}
         /\ LeftTo(k, u + 1) = LeftTo(k, u) + Flag(k, u)
<1>1. PICK s \in Segs : s = SegOf(k)
  BY LiveRow
<1>2. PICK p \in Nat : p = RowOf(k, u)
  BY LiveRow
<1>3. u + 1 \in Nat /\ RowOf(k, u + 1) = p + 1
  BY <1>2, LiveRow
<1>4. /\ Live(k, u) <=> p \in Slice(s)
      /\ Live(k, u + 1) <=> p + 1 \in Slice(s)
  <2>1. Live(k, u) <=> RowOf(k, u) \in Slice(SegOf(k))
    BY LiveRow
  <2>2. Live(k, u + 1) <=> RowOf(k, u + 1) \in Slice(SegOf(k))
    BY <1>3, LiveRow
  <2> QED BY <1>1, <1>2, <1>3, <2>1, <2>2
<1>5. /\ Begin(s) \in Nat /\ Begin(s + 1) \in Nat /\ Begin(s) <= Begin(s + 1)
      /\ p >= Begin(s)
  <2>1. Begin(s) \in Nat /\ Begin(s + 1) \in Nat /\ launch.lens[s] \in Nat
        /\ Begin(s + 1) = Begin(s) + launch.lens[s]
    BY SlicesApart
  <2>2. RowOf(k, u) = Begin(SegOf(k)) + Off(k, u) /\ Off(k, u) \in Nat
    BY LiveRow
  <2> QED BY <1>1, <1>2, <2>1, <2>2
<1>6. CASE Live(k, u)
  <2>1. p \in Slice(s)
    BY <1>4, <1>6
  <2>2. /\ goes_left[p] \in BOOLEAN /\ Left(s, p) \in Nat
        /\ Left(s, p + 1) = Left(s, p) + (IF goes_left[p] THEN 1 ELSE 0)
    BY <2>1, LeftNext
  <2>3. Upto(k, u) = p
    BY <1>2, <1>6 DEF Upto
  <2>4. Upto(k, u + 1) = p + 1
    <3>1. CASE Live(k, u + 1)
      BY <1>3, <3>1 DEF Upto
    <3>2. CASE ~Live(k, u + 1)
      <4>1. p + 1 \notin Slice(s) /\ p \in Slice(s)
        BY <1>4, <2>1, <3>2
      <4>2. Begin(s + 1) = p + 1
        BY <1>5, <4>1 DEF Slice
      <4> QED BY <1>1, <3>2, <4>2 DEF Upto
    <3> QED BY <3>1, <3>2
  <2>5. Flag(k, u) = IF goes_left[p] THEN 1 ELSE 0
    BY <1>2, <1>6 DEF Flag
  <2>6. LeftTo(k, u) = Left(s, p) /\ LeftTo(k, u + 1) = Left(s, p + 1)
    BY <1>1, <2>3, <2>4 DEF LeftTo
  <2> QED BY <2>2, <2>5, <2>6
<1>7. CASE ~Live(k, u)
  <2>1. ~Live(k, u + 1)
    <3>1. p \notin Slice(s)
      BY <1>4, <1>7
    <3>2. p + 1 \notin Slice(s)
      BY <1>5, <3>1 DEF Slice
    <3> QED BY <1>4, <3>2
  <2>2. Upto(k, u) = Begin(s + 1) /\ Upto(k, u + 1) = Begin(s + 1)
    BY <1>1, <1>7, <2>1 DEF Upto
  <2>3. LeftTo(k, u) = Left(s, Begin(s + 1)) /\ LeftTo(k, u + 1) = Left(s, Begin(s + 1))
    BY <1>1, <2>2 DEF LeftTo
  <2>4. Flag(k, u) = 0
    BY <1>7 DEF Flag
  <2>5. Left(s, Begin(s + 1)) \in Nat
    <3>1. PICK e \in Int : e = Begin(s + 1) /\ Begin(s) <= e
      BY <1>5
    <3>2. Grows(s, e, e)
      BY <3>1, LeftGrows
    <3> QED BY <3>1, <3>2 DEF Grows
  <2> QED BY <2>3, <2>4, <2>5
<1> QED BY <1>6, <1>7

(* The first tile of a segment has none before it, a later one what the     *)
(* tile before it ends with, and the last ends with all.                   *)
LEMMA LeftEnds ==
  ASSUME Given, NEW s \in Segs
  PROVE  /\ LeftTo(FirstTile(s), 0) = 0
         /\ \A k \in TilesOf(s) : k + 1 \in TilesOf(s) => LeftTo(k + 1, 0) = LeftTo(k, Block)
         /\ \A k \in TilesOf(s) : k + 1 \notin TilesOf(s) => LeftTo(k, Block) = Left(s, Begin(s + 1))
<1>1. /\ FirstTile(s) \in Nat \ {0} /\ FirstTile(s + 1) \in Nat \ {0}
      /\ Tiled(s) \in Nat \ {0} /\ launch.lens[s] <= Tiled(s) * Block
      /\ TilesOf(s) \subseteq Tiles
      /\ \A k \in TilesOf(s) : SegOf(k) = s
  BY TilesLaid DEF SegTiles
<1>2. \A k \in TilesOf(s) : table.off[k] = (k - FirstTile(s)) * Block
  BY <1>1, TilesLaid DEF TileIs
<1>3. Block \in Nat \ {0} /\ launch.lens[s] \in Nat /\ Begin(s) \in Nat
      /\ Begin(s + 1) = Begin(s) + launch.lens[s]
  BY BlockOfLaunch, SlicesApart
<1>4. \A k \in TilesOf(s) : k \in Nat
  BY <1>1 DEF TilesOf
<1>5. LeftTo(FirstTile(s), 0) = 0
  <2>1. PICK f \in Nat : f = FirstTile(s)
    BY <1>1
  <2>2. f \in TilesOf(s)
    BY <1>1, <2>1 DEF TilesOf, Tiled
  <2>3. Off(f, 0) = 0
    BY <1>2, <1>3, <2>1, <2>2 DEF Off
  <2>4. Upto(f, 0) = Begin(s)
    BY <1>1, <1>3, <2>2, <2>3 DEF Upto, Live, RowOf
  <2>5. Lefts(s, Begin(s)) = {}
    BY <1>3 DEF Lefts
  <2> QED BY <1>1, <2>1, <2>2, <2>4, <2>5, FS_EmptySet DEF LeftTo, Left
<1>6. ASSUME NEW k \in TilesOf(s), k + 1 \in TilesOf(s)
      PROVE  LeftTo(k + 1, 0) = LeftTo(k, Block)
  <2>1. PICK j \in Int, n \in Nat : j = k - FirstTile(s) /\ n = k + 1 /\ n - FirstTile(s) = j + 1
    BY <1>1, <1>4
  <2>2. table.off[k] = j * Block /\ table.off[n] = (j + 1) * Block
    BY <1>2, <1>6, <2>1
  <2>3. (j + 1) * Block = j * Block + Block /\ j * Block \in Int
    BY <1>3
  <2>4. Off(n, 0) = Off(k, Block) /\ SegOf(n) = s /\ SegOf(k) = s
    BY <1>1, <1>3, <1>6, <2>1, <2>2, <2>3 DEF Off
  <2>5. Upto(n, 0) = Upto(k, Block)
    BY <2>4 DEF Upto, Live, RowOf
  <2> QED BY <2>1, <2>4, <2>5 DEF LeftTo
<1>7. ASSUME NEW k \in TilesOf(s), k + 1 \notin TilesOf(s)
      PROVE  LeftTo(k, Block) = Left(s, Begin(s + 1))
  <2>1. k - FirstTile(s) = Tiled(s) - 1
    BY <1>1, <1>4, <1>7 DEF TilesOf, Tiled
  <2>2. PICK j \in Int : j = Tiled(s) - 1
    BY <1>1
  <2>3. table.off[k] = j * Block
    BY <1>2, <1>7, <2>1, <2>2
  <2>4. Tiled(s) = j + 1
    BY <1>1, <2>2
  <2>5. (j + 1) * Block = j * Block + Block /\ j * Block \in Int
    BY <1>3
  <2>6. launch.lens[s] <= Off(k, Block) /\ Off(k, Block) \in Int
    BY <1>1, <1>3, <2>3, <2>4, <2>5 DEF Off
  <2>7. ~Live(k, Block)
    BY <1>1, <1>3, <1>7, <2>6 DEF Live
  <2> QED BY <1>1, <1>7, <2>7 DEF LeftTo, Upto
<1> QED BY <1>5, <1>6, <1>7

TotalIs(k) == tile_left[k] = LeftTo(k, Block) - LeftTo(k, 0)

(* The counts of a segment's tiles add up to the rows before a tile that go *)
(* left, and to all that do.                                               *)
LEMMA TotalsAdd ==
  ASSUME Given, tile_left \in [Tiles -> Int], \A k \in Tiles : TotalIs(k), NEW k \in Tiles
  PROVE  /\ SumOf(tile_left, {t \in TilesOf(SegOf(k)) : t < k}) = LeftTo(k, 0)
         /\ SumOf(tile_left, TilesOf(SegOf(k))) = AllLeft(k)
<1>1. PICK s \in Segs : s = SegOf(k) /\ k \in TilesOf(s)
  BY TilesLaid DEF TileIs
<1>2. PICK f \in Nat, e \in Nat : f = FirstTile(s) /\ e = FirstTile(s + 1)
  BY TilesLaid DEF SegTiles
<1>3. /\ TilesOf(s) = f .. e - 1 /\ f < e
      /\ f .. e - 1 \subseteq Tiles
  BY <1>2, TilesLaid DEF SegTiles, TilesOf, Tiled
<1>4. /\ LeftTo(f, 0) = 0
      /\ \A n \in f .. e - 1 : n + 1 \in f .. e - 1 => LeftTo(n + 1, 0) = LeftTo(n, Block)
      /\ \A n \in f .. e - 1 : n + 1 \notin f .. e - 1 => LeftTo(n, Block) = Left(s, Begin(s + 1))
  BY <1>2, <1>3, LeftEnds
<1>5. \A n \in f .. e - 1 : /\ tile_left[n] = LeftTo(n, Block) - LeftTo(n, 0)
                            /\ LeftTo(n, Block) \in Int /\ LeftTo(n, 0) \in Int
  <2> SUFFICES ASSUME NEW n \in f .. e - 1
               PROVE  /\ tile_left[n] = LeftTo(n, Block) - LeftTo(n, 0)
                      /\ LeftTo(n, Block) \in Int /\ LeftTo(n, 0) \in Int
    OBVIOUS
  <2>1. n \in Tiles /\ TotalIs(n)
    BY <1>3
  <2>2. PICK b \in Nat : b = Block
    BY BlockOfLaunch
  <2>3. LeftTo(n, b) \in Nat /\ LeftTo(n, 0) \in Nat
    BY <2>1, LeftStep
  <2> QED BY <2>1, <2>2, <2>3 DEF TotalIs
<1> DEFINE S(n) == SumOf(tile_left, f .. n)
<1>6. /\ S(f - 1) = 0
      /\ \A n \in f .. e - 1 : S(n) = tile_left[n] + S(n - 1)
  <2>1. ASSUME NEW n \in f - 1 .. e - 1
        PROVE  /\ f .. n = {} => S(n) = 0
               /\ \A x \in f .. n : S(n) = tile_left[x] + SumOf(tile_left, (f .. n) \ {x})
    <3>1. PICK T : T = f .. n
      OBVIOUS
    <3>2. IsFiniteSet(T) /\ \A x \in T : tile_left[x] \in Int
      <4>1. IsFiniteSet(f .. n)
        BY <1>2, <2>1, FS_Interval
      <4> QED BY <1>3, <3>1, <4>1
    <3>3. (T = {} => SumOf(tile_left, T) = 0)
          /\ \A x \in T : SumOf(tile_left, T) = tile_left[x] + SumOf(tile_left, T \ {x})
      BY <3>2, SumOut
    <3> QED BY <3>1, <3>3
  <2>2. f - 1 \in f - 1 .. e - 1 /\ f .. f - 1 = {}
    BY <1>2, <1>3
  <2>3. \A n \in f .. e - 1 : n \in f - 1 .. e - 1 /\ n \in f .. n /\ (f .. n) \ {n} = f .. n - 1
    BY <1>2
  <2> QED BY <2>1, <2>2, <2>3
<1> HIDE DEF S
<1> DEFINE C == {j \in Nat : f + j \in f .. e - 1 => S(f + j) = LeftTo(f + j, Block)}
<1>7. 0 \in C
  <2>1. f \in f .. e - 1 /\ f + 0 = f
    BY <1>2, <1>3
  <2> QED BY <1>4, <1>5, <1>6, <2>1
<1>8. ASSUME NEW j \in Nat, j \in C PROVE j + 1 \in C
  <2> SUFFICES ASSUME f + (j + 1) \in f .. e - 1 PROVE S(f + (j + 1)) = LeftTo(f + (j + 1), Block)
    OBVIOUS
  <2>1. PICK n \in Int : n = f + j
    BY <1>2
  <2>2. f + (j + 1) = n + 1 /\ n \in f .. e - 1 /\ n + 1 \in f .. e - 1 /\ (n + 1) - 1 = n
    BY <1>2, <2>1
  <2>3. S(n) = LeftTo(n, Block) /\ S(n + 1) = tile_left[n + 1] + S(n)
    BY <1>6, <1>8, <2>1, <2>2
  <2>4. LeftTo(n + 1, 0) = LeftTo(n, Block)
    BY <1>4, <2>2
  <2> QED BY <1>5, <2>2, <2>3, <2>4
<1> HIDE DEF C
<1>9. \A n \in f .. e - 1 : S(n) = LeftTo(n, Block)
  <2> SUFFICES ASSUME NEW n \in f .. e - 1 PROVE S(n) = LeftTo(n, Block)
    OBVIOUS
  <2>1. n - f \in Nat /\ f + (n - f) = n
    BY <1>2
  <2>2. n - f \in C
    BY <1>7, <1>8, <2>1, NatSetInduction
  <2> QED BY <2>1, <2>2 DEF C
<1>10. SumOf(tile_left, TilesOf(s)) = Left(s, Begin(s + 1))
  <2>1. e - 1 \in f .. e - 1 /\ (e - 1) + 1 \notin f .. e - 1
    BY <1>2, <1>3
  <2> QED BY <1>3, <1>4, <1>9, <2>1 DEF S
<1>11. SumOf(tile_left, {t \in TilesOf(s) : t < k}) = LeftTo(k, 0)
  <2>1. k \in f .. e - 1 /\ k \in Nat /\ {t \in f .. e - 1 : t < k} = f .. k - 1
    BY <1>1, <1>2, <1>3
  <2>2. S(k - 1) = LeftTo(k, 0)
    <3>1. CASE k = f
      BY <1>4, <1>6, <3>1
    <3>2. CASE k # f
      <4>1. PICK n \in f .. e - 1 : n = k - 1 /\ n + 1 = k
        BY <1>2, <2>1, <3>2
      <4> QED BY <1>4, <1>9, <2>1, <4>1
    <3> QED BY <3>1, <3>2
  <2> QED BY <1>3, <2>1, <2>2 DEF S
<1> QED BY <1>1, <1>10, <1>11 DEF AllLeft

(* Every row of a segment is some offset of some tile of it.               *)
LEMMA EveryRow ==
  ASSUME Given, NEW s \in Segs, NEW p \in Slice(s)
  PROVE  \E k \in Tiles : \E u \in Offsets : SegOf(k) = s /\ Live(k, u) /\ RowOf(k, u) = p
<1>1. /\ FirstTile(s) \in Nat \ {0} /\ FirstTile(s + 1) \in Nat \ {0}
      /\ Tiled(s) \in Nat \ {0} /\ launch.lens[s] <= Tiled(s) * Block
      /\ TilesOf(s) \subseteq Tiles
      /\ \A k \in TilesOf(s) : SegOf(k) = s
  BY TilesLaid DEF SegTiles
<1>2. Block \in Nat \ {0} /\ launch.lens[s] \in Nat /\ Begin(s) \in Nat
      /\ Begin(s + 1) = Begin(s) + launch.lens[s]
  BY BlockOfLaunch, SlicesApart
<1>3. PICK x \in Nat : x = p - Begin(s) /\ x < launch.lens[s]
  BY <1>2 DEF Slice
<1>4. PICK b \in Nat \ {0}, n \in Nat : b = Block /\ n = Tiled(s)
  BY <1>1, <1>2
<1>5. PICK j \in Nat, u \in 0 .. b - 1 : x = j * b + u /\ j * b <= x
  BY <1>4, DivBounds
<1>6. j < n
  <2>1. x < n * b
    BY <1>1, <1>2, <1>3, <1>4
  <2> SUFFICES ASSUME n <= j PROVE FALSE
    BY <1>4
  <2>2. n * b <= j * b
    BY <1>4, Monotone
  <2> QED BY <1>4, <1>5, <2>1, <2>2
<1>7. PICK k \in Nat : k = FirstTile(s) + j /\ k \in TilesOf(s) /\ k - FirstTile(s) = j
  BY <1>1, <1>4, <1>6 DEF TilesOf, Tiled
<1>8. k \in Tiles /\ SegOf(k) = s
  BY <1>1, <1>7
<1>9. Off(k, u) = x
  <2>1. table.off[k] = (k - FirstTile(s)) * Block
    BY <1>8, TilesLaid DEF TileIs
  <2> QED BY <1>4, <1>5, <1>7, <2>1 DEF Off
<1>10. Live(k, u) /\ RowOf(k, u) = p
  <2>1. p \in Int
    BY <1>2 DEF Slice
  <2> QED BY <1>2, <1>3, <1>8, <1>9, <2>1 DEF Live, RowOf
<1> QED BY <1>4, <1>8, <1>10 DEF Offsets

-----------------------------------------------------------------------------
(* What the scan and the reduction hold on their way.                      *)

(* The left rows among the d offsets of a tile that end with u, or among    *)
(* those from the first one if there are fewer; those that d more add.     *)
Window(k, u, d) == LeftTo(k, u + 1) - LeftTo(k, IF d <= u THEN (u + 1) - d ELSE 0)
Behind(k, u, d) == IF u >= d THEN Window(k, u - d, d) ELSE 0

(* A window starts as a flag, doubles by the one behind it, and ends as all *)
(* up to its offset.                                                       *)
LEMMA WindowDoubles ==
  ASSUME Given, NEW k \in Tiles, NEW u \in Nat, NEW d \in Nat \ {0}
  PROVE  /\ Window(k, u, 1) = Flag(k, u)
         /\ Window(k, u, 2 * d) = Window(k, u, d) + Behind(k, u, d)
         /\ u < d => Window(k, u, d) = LeftTo(k, u + 1) - LeftTo(k, 0)
         /\ Window(k, u, d) \in Int /\ Behind(k, u, d) \in Int
<1>1. \A n \in Nat : LeftTo(k, n) \in Nat
  BY LeftStep
<1>2. Window(k, u, 1) = Flag(k, u)
  <2>1. LeftTo(k, u + 1) = LeftTo(k, u) + Flag(k, u) /\ Flag(k, u) \in Int
    BY LeftStep
  <2>2. (IF 1 <= u THEN (u + 1) - 1 ELSE 0) = u
    OBVIOUS
  <2> QED BY <1>1, <2>1, <2>2 DEF Window
<1>3. u < d => Window(k, u, d) = LeftTo(k, u + 1) - LeftTo(k, 0)
  BY DEF Window
<1>4. \A v \in Nat : Window(k, v, d) \in Int
  <2> SUFFICES ASSUME NEW v \in Nat PROVE Window(k, v, d) \in Int
    OBVIOUS
  <2>1. v + 1 \in Nat /\ (IF d <= v THEN (v + 1) - d ELSE 0) \in Nat
    OBVIOUS
  <2> QED BY <1>1, <2>1 DEF Window
<1>5. CASE u >= d
  <2>1. PICK v \in Nat : v = u - d
    BY <1>5
  <2>2. PICK a \in Nat, b \in Nat, c \in Nat :
          /\ a = LeftTo(k, u + 1) /\ b = LeftTo(k, (u + 1) - d)
          /\ c = LeftTo(k, IF d <= v THEN (v + 1) - d ELSE 0)
    <3>1. u + 1 \in Nat /\ (u + 1) - d \in Nat /\ (IF d <= v THEN (v + 1) - d ELSE 0) \in Nat
      BY <1>5
    <3> QED BY <1>1, <3>1
  <2>3. v + 1 = (u + 1) - d
    BY <2>1
  <2>4. (IF 2 * d <= u THEN (u + 1) - 2 * d ELSE 0) = (IF d <= v THEN (v + 1) - d ELSE 0)
    BY <2>1
  <2>5. Window(k, u, 2 * d) = a - c
    BY <2>2, <2>4 DEF Window
  <2>6. Window(k, u, d) = a - b
    BY <1>5, <2>2 DEF Window
  <2>7. Behind(k, u, d) = b - c
    BY <1>5, <2>1, <2>2, <2>3 DEF Behind, Window
  <2> QED BY <1>2, <1>3, <2>2, <2>5, <2>6, <2>7
<1>6. CASE ~(u >= d)
  <2>1. Behind(k, u, d) = 0
    BY <1>6 DEF Behind
  <2>2. ~(d <= u) /\ ~(2 * d <= u)
    BY <1>6
  <2>3. Window(k, u, 2 * d) = Window(k, u, d)
    BY <2>2 DEF Window
  <2> QED BY <1>2, <1>3, <1>4, <2>1, <2>3
<1> QED BY <1>5, <1>6

(* The sum over two sets apart is the sum of their sums.                   *)
LEMMA SumOfBoth ==
  ASSUME NEW A, NEW B, IsFiniteSet(A), IsFiniteSet(B), A \cap B = {},
         NEW f, \A x \in A \cup B : f[x] \in Int
  PROVE  SumOf(f, A \cup B) = SumOf(f, A) + SumOf(f, B)
<1> DEFINE C == {T \in SUBSET B : SumOf(f, A \cup T) = SumOf(f, A) + SumOf(f, T)}
<1>1. \A T : T \subseteq A \cup B /\ IsFiniteSet(T) =>
        /\ SumOf(f, T) \in Int /\ (T = {} => SumOf(f, T) = 0)
        /\ \A x \in T : SumOf(f, T) = f[x] + SumOf(f, T \ {x})
  <2> SUFFICES ASSUME NEW T, T \subseteq A \cup B, IsFiniteSet(T)
               PROVE  /\ SumOf(f, T) \in Int /\ (T = {} => SumOf(f, T) = 0)
                      /\ \A x \in T : SumOf(f, T) = f[x] + SumOf(f, T \ {x})
    OBVIOUS
  <2>1. \A x \in T : f[x] \in Int
    OBVIOUS
  <2> QED BY <2>1, SumOut
<1>2. {} \in C
  <2>1. A \cup {} = A /\ IsFiniteSet({}) /\ {} \subseteq A \cup B
    BY FS_EmptySet
  <2>2. SumOf(f, {}) = 0 /\ SumOf(f, A) \in Int
    BY <1>1, <2>1
  <2> QED BY <2>1, <2>2
<1>3. ASSUME NEW T \in SUBSET B, NEW x \in B, T \in C, x \notin T PROVE T \cup {x} \in C
  <2>1. PICK U, V : U = A \cup T /\ V = U \cup {x}
    OBVIOUS
  <2>2. PICK W : W = T \cup {x}
    OBVIOUS
  <2>3. IsFiniteSet(T) /\ IsFiniteSet(W) /\ IsFiniteSet(U) /\ IsFiniteSet(V)
    BY <2>1, <2>2, FS_Subset, FS_Union, FS_AddElement
  <2>4. /\ V \ {x} = U /\ W \ {x} = T /\ x \in V /\ x \in W /\ V = A \cup W
        /\ V \subseteq A \cup B /\ W \subseteq A \cup B /\ T \subseteq A \cup B
    BY <1>3, <2>1, <2>2
  <2>5. SumOf(f, V) = f[x] + SumOf(f, U) /\ SumOf(f, W) = f[x] + SumOf(f, T)
    BY <1>1, <2>3, <2>4
  <2>6. SumOf(f, U) = SumOf(f, A) + SumOf(f, T)
    BY <1>3, <2>1
  <2>7. SumOf(f, A) \in Int /\ SumOf(f, T) \in Int /\ f[x] \in Int
    BY <1>1, <2>3, <2>4
  <2> QED BY <2>2, <2>4, <2>5, <2>6, <2>7
<1> HIDE DEF C
<1>4. B \in C
  BY <1>2, <1>3, FiniteSetInduction
<1> QED BY <1>4 DEF C

HalvedIs(x, d, u) == x % d = u <=> (x % (2 * d) = u \/ x % (2 * d) = u + d)

(* A remainder by twice a number is the remainder by it, or that much more. *)
LEMMA Halved ==
  ASSUME NEW x \in Nat, NEW d \in Nat \ {0}, NEW u \in 0 .. d - 1
  PROVE  HalvedIs(x, d, u)
<1>1. PICK D \in Nat \ {0} : D = 2 * d
  OBVIOUS
<1>2. PICK q \in Nat, r \in 0 .. D - 1 : q = x \div D /\ r = x % D /\ x = q * D + r
  BY DivBounds
<1>3. PICK h \in {0, 1}, v \in 0 .. d - 1 : r = h * d + v
  <2>1. CASE r < d
    <3>1. r \in 0 .. d - 1 /\ r = 0 * d + r
      BY <1>2, <2>1
    <3> QED BY <3>1
  <2>2. CASE r >= d
    <3>1. r - d \in 0 .. d - 1 /\ r = 1 * d + (r - d)
      BY <1>1, <1>2, <2>2
    <3> QED BY <3>1
  <2> QED BY <1>2, <2>1, <2>2
<1>4. PICK n \in Nat : n = 2 * q + h
  <2>1. 2 * q \in Nat /\ h \in Nat
    BY <1>2, <1>3
  <2>2. 2 * q + h \in Nat
    BY <2>1
  <2> QED BY <2>2
<1>5. x = n * d + v
  <2>1. q * (2 * d) + (h * d + v) = (2 * q + h) * d + v
    <3>1. PICK p \in Nat : p = q * d
      BY <1>2
    <3>2. q * (2 * d) = 2 * p /\ (2 * q + h) * d = 2 * p + h * d
      <4>1. CASE h = 0
        BY <1>2, <3>1, <4>1
      <4>2. CASE h = 1
        BY <1>2, <3>1, <4>2
      <4> QED BY <1>3, <4>1, <4>2
    <3>3. h * d \in Nat
      BY <1>3
    <3> QED BY <1>3, <3>1, <3>2, <3>3
  <2> QED BY <1>1, <1>2, <1>3, <1>4, <2>1
<1>6. x % d = v
  BY <1>4, <1>5, DivOf
<1>7. h * d = 0 \/ h * d = d
  BY <1>3
<1>8. x % (2 * d) = r
  BY <1>1, <1>2
<1> QED BY <1>3, <1>6, <1>7, <1>8 DEF HalvedIs

(* The tiles whose counts a unit has added up after q halvings, and those   *)
(* before its own.                                                         *)
Part(k, u, q) ==
  {t \in TilesOf(SegOf(k)) : (t - FirstTile(SegOf(k))) % Doubled[Ups - q] = u}
PartBefore(k, u, q) == {t \in Part(k, u, q) : t < k}

JoinedFrom(k, u, d, q) ==
  /\ SumOf(tile_left, Part(k, u, q + 1))
       = SumOf(tile_left, Part(k, u, q)) + SumOf(tile_left, Part(k, u + d, q))
  /\ SumOf(tile_left, PartBefore(k, u, q + 1))
       = SumOf(tile_left, PartBefore(k, u, q)) + SumOf(tile_left, PartBefore(k, u + d, q))

(* A halving joins two shares; the shares at first are strided, and in the  *)
(* end the first unit has them all.                                        *)
LEMMA SharesJoin ==
  ASSUME Given, launch.coop, tile_left \in [Tiles -> Int], NEW k \in Tiles
  PROVE  /\ \A q \in Nat, u \in Nat : q + 1 <= Ups /\ u < Doubled[Ups - (q + 1)] =>
              JoinedFrom(k, u, Doubled[Ups - (q + 1)], q)
         /\ Part(k, 0, Ups) = TilesOf(SegOf(k))
         /\ \A u \in Nat :
              Part(k, u, 0) = {t \in TilesOf(SegOf(k)) : (t - FirstTile(SegOf(k))) % Block = u}
<1>1. PICK s \in Segs : s = SegOf(k)
  BY TilesLaid DEF TileIs
<1>2. PICK f \in Nat, e \in Nat : f = FirstTile(s) /\ TilesOf(s) = f .. e /\ f .. e \subseteq Tiles
  <2>1. FirstTile(s) \in Nat /\ FirstTile(s + 1) - 1 \in Nat /\ TilesOf(s) \subseteq Tiles
    BY TilesLaid DEF SegTiles
  <2> QED BY <2>1 DEF TilesOf
<1>3. PICK J \in Nat : J = Ups /\ Block = Doubled[J]
  BY BlockOfLaunch
<1>4. \A u, q : Part(k, u, q) = {t \in f .. e : (t - f) % Doubled[J - q] = u}
  BY <1>1, <1>2, <1>3 DEF Part
<1>5. \A t \in f .. e : t - f \in Nat
  OBVIOUS
<1>6. ASSUME NEW q \in Nat, NEW u \in Nat, q + 1 <= J, NEW d, d = Doubled[J - (q + 1)], u < d
      PROVE  JoinedFrom(k, u, d, q)
  <2>1. PICK i \in Nat : i = J - (q + 1) /\ i + 1 = J - q
    BY <1>6
  <2>2. d \in Nat \ {0} /\ Doubled[J - q] = 2 * d
    BY <1>6, <2>1, DoubledRises, DoubledIs
  <2>3. PICK A, B, U : A = Part(k, u, q) /\ B = Part(k, u + d, q) /\ U = Part(k, u, q + 1)
    OBVIOUS
  <2>4. /\ A = {t \in f .. e : (t - f) % (2 * d) = u}
        /\ B = {t \in f .. e : (t - f) % (2 * d) = u + d}
        /\ U = {t \in f .. e : (t - f) % d = u}
    BY <1>4, <1>6, <2>2, <2>3
  <2>5. \A t \in f .. e : (t - f) % d = u <=> ((t - f) % (2 * d) = u \/ (t - f) % (2 * d) = u + d)
    <3> SUFFICES ASSUME NEW t \in f .. e
                 PROVE  (t - f) % d = u <=> ((t - f) % (2 * d) = u \/ (t - f) % (2 * d) = u + d)
      OBVIOUS
    <3>1. PICK x \in Nat : x = t - f
      BY <1>5
    <3>2. u \in 0 .. d - 1
      BY <1>6, <2>2
    <3>3. HalvedIs(x, d, u)
      BY <2>2, <3>2, Halved
    <3> QED BY <3>1, <3>3 DEF HalvedIs
  <2>6. U = A \cup B
    BY <2>4, <2>5
  <2>7. A \cap B = {}
    <3>1. u # u + d
      BY <2>2
    <3> QED BY <2>4, <3>1
  <2>8. /\ IsFiniteSet(A) /\ IsFiniteSet(B) /\ \A x \in A \cup B : tile_left[x] \in Int
    <3>1. IsFiniteSet(f .. e) /\ A \subseteq f .. e /\ B \subseteq f .. e
      BY <2>4, FS_Interval
    <3> QED BY <1>2, <3>1, FS_Subset
  <2>9. SumOf(tile_left, U) = SumOf(tile_left, A) + SumOf(tile_left, B)
    BY <2>6, <2>7, <2>8, SumOfBoth
  <2>10. PICK a, b, w : a = {t \in A : t < k} /\ b = {t \in B : t < k} /\ w = {t \in U : t < k}
    OBVIOUS
  <2>11. a \cap b = {} /\ w = a \cup b /\ a \subseteq A /\ b \subseteq B
    BY <2>6, <2>7, <2>10
  <2>12. IsFiniteSet(a) /\ IsFiniteSet(b) /\ \A x \in a \cup b : tile_left[x] \in Int
    BY <2>8, <2>11, FS_Subset
  <2>13. SumOf(tile_left, a \cup b) = SumOf(tile_left, a) + SumOf(tile_left, b)
    BY <2>11, <2>12, SumOfBoth
  <2> QED BY <2>3, <2>9, <2>10, <2>11, <2>13 DEF JoinedFrom, PartBefore
<1>7. Part(k, 0, Ups) = TilesOf(SegOf(k))
  <2>1. J - J = 0 /\ Doubled[0] = 1
    BY DoubledIs
  <2>2. \A x \in Nat : x % 1 = 0
    OBVIOUS
  <2>3. Part(k, 0, J) = {t \in f .. e : (t - f) % 1 = 0}
    BY <1>4, <2>1
  <2> QED BY <1>1, <1>2, <1>3, <1>5, <2>2, <2>3
<1>8. \A u \in Nat : Part(k, u, 0) = {t \in TilesOf(SegOf(k)) : (t - FirstTile(SegOf(k))) % Block = u}
  <2>1. J - 0 = J
    OBVIOUS
  <2> QED BY <1>1, <1>2, <1>3, <1>4, <2>1
<1> QED BY <1>3, <1>6, <1>7, <1>8

(* What one unit that walks a tile counts.                                 *)
LEMMA SerialCounts ==
  ASSUME Given, NEW k \in Tiles
  PROVE  /\ \A u \in Nat : u <= Block => LeftBefore(k, u) = LeftTo(k, u) - LeftTo(k, 0)
         /\ Cardinality(TileOffsets(k)) \in Nat
         /\ TileOffsets(k) = 0 .. Cardinality(TileOffsets(k)) - 1
<1>1. PICK B \in Nat : B = Block
  BY BlockOfLaunch
<1>2. \A u \in Nat : /\ LeftTo(k, u) \in Nat /\ Flag(k, u) \in {0, 1}
                     /\ LeftTo(k, u + 1) = LeftTo(k, u) + Flag(k, u)
  BY LeftStep
<1> DEFINE W(u) == {v \in TileOffsets(k) : v < u /\ Flag(k, v) = 1}
           C == {u \in Nat : u <= B => /\ IsFiniteSet(W(u))
                                       /\ Cardinality(W(u)) = LeftTo(k, u) - LeftTo(k, 0)}
<1>3. 0 \in C
  <2>1. W(0) = {}
    BY DEF TileOffsets
  <2>2. LeftTo(k, 0) \in Nat
    BY <1>2
  <2> HIDE DEF W
  <2> QED BY <2>1, <2>2, FS_EmptySet
<1>4. ASSUME NEW u \in Nat, u \in C PROVE u + 1 \in C
  <2> SUFFICES ASSUME u + 1 <= B
               PROVE  /\ IsFiniteSet(W(u + 1))
                      /\ Cardinality(W(u + 1)) = LeftTo(k, u + 1) - LeftTo(k, 0)
    OBVIOUS
  <2>1. PICK S, T : S = W(u) /\ T = W(u + 1)
    OBVIOUS
  <2>2. IsFiniteSet(S) /\ Cardinality(S) = LeftTo(k, u) - LeftTo(k, 0)
    BY <1>4, <2>1
  <2>3. u \in 0 .. Block - 1 /\ u \notin S
    BY <1>1, <2>1
  <2>4. /\ LeftTo(k, u) \in Nat /\ LeftTo(k, 0) \in Nat /\ Flag(k, u) \in {0, 1}
        /\ LeftTo(k, u + 1) = LeftTo(k, u) + Flag(k, u)
    BY <1>2
  <2>5. \A v \in TileOffsets(k) : v < u + 1 <=> v < u \/ v = u
    <3>1. \A v \in TileOffsets(k) : v \in Int
      BY DEF TileOffsets
    <3> QED BY <3>1
  <2>6. CASE Flag(k, u) = 1
    <3>1. u \in TileOffsets(k)
      BY <2>3, <2>6 DEF Flag, TileOffsets
    <3>2. T = S \cup {u}
      <4>1. \A v : v \in T <=> v \in TileOffsets(k) /\ v < u + 1 /\ Flag(k, v) = 1
        BY <2>1
      <4>2. \A v : v \in S <=> v \in TileOffsets(k) /\ v < u /\ Flag(k, v) = 1
        BY <2>1
      <4>3. \A v : v \in T <=> v \in S \/ v = u
        BY <2>5, <2>6, <3>1, <4>1, <4>2
      <4> QED BY <4>3
    <3>3. IsFiniteSet(S \cup {u}) /\ Cardinality(S \cup {u}) = Cardinality(S) + 1
      BY <2>2, <2>3, FS_AddElement
    <3>4. PICK a \in Nat, b \in Nat : a = LeftTo(k, u) /\ b = LeftTo(k, 0)
      BY <2>4
    <3>5. LeftTo(k, u + 1) = a + 1 /\ Cardinality(S) = a - b
      BY <2>2, <2>4, <2>6, <3>4
    <3>6. Cardinality(T) = (a + 1) - b /\ IsFiniteSet(T)
      BY <3>2, <3>3, <3>5
    <3> HIDE DEF W
    <3> QED BY <2>1, <3>4, <3>5, <3>6
  <2>7. CASE Flag(k, u) = 0
    <3>1. T = S
      BY <2>1, <2>5, <2>7
    <3> HIDE DEF W
    <3> QED BY <2>1, <2>2, <2>4, <2>7, <3>1
  <2> QED BY <2>4, <2>6, <2>7
<1> HIDE DEF C, W
<1>5. \A u \in Nat : u <= Block => LeftBefore(k, u) = LeftTo(k, u) - LeftTo(k, 0)
  <2>1. \A u \in Nat : u \in C
    BY <1>3, <1>4, NatSetInduction
  <2> QED BY <1>1, <2>1 DEF C, W, LeftBefore
<1>6. \E c \in Nat : TileOffsets(k) = 0 .. c - 1
  <2>1. PICK o \in Nat, len \in Nat : o = table.off[k] /\ len = launch.lens[SegOf(k)]
    BY LiveRow, SlicesApart
  <2>2. TileOffsets(k) = {u \in 0 .. B - 1 : o + u < len}
    BY <1>1, <2>1 DEF TileOffsets, Live, Off
  <2>3. CASE len <= o
    <3>1. TileOffsets(k) = 0 .. 0 - 1
      BY <2>2, <2>3
    <3> QED BY <3>1
  <2>4. CASE o < len /\ len <= o + B
    <3>1. PICK c \in Nat : c = len - o
      BY <2>4
    <3>2. TileOffsets(k) = 0 .. c - 1
      BY <2>2, <2>4, <3>1
    <3> QED BY <3>2
  <2>5. CASE o + B < len
    <3>1. TileOffsets(k) = 0 .. B - 1
      BY <2>2, <2>5
    <3> QED BY <3>1
  <2> QED BY <2>3, <2>4, <2>5
<1>7. PICK c \in Nat : TileOffsets(k) = 0 .. c - 1
  BY <1>6
<1>8. Cardinality(0 .. c - 1) = c
  <2>1. Cardinality(0 .. c - 1) = IF 0 > c - 1 THEN 0 ELSE (c - 1) - 0 + 1
    <3>1. 0 \in Int /\ c - 1 \in Int
      OBVIOUS
    <3> QED BY <3>1, FS_Interval, Zenon
  <2> QED BY <2>1
<1> QED BY <1>5, <1>7, <1>8

-----------------------------------------------------------------------------
(***************************************************************************)
(* The invariant of the tiles.  A kernel kn has run so far that each unit  *)
(* of each tile has done the intervals that a counts; the other arguments  *)
(* are the values of the variables of those names' beginnings.  Of a tile  *)
(* whose units have not all ended, the shared memory holds what the last   *)
(* interval of each unit left there; of another, what a later tile left.   *)
(***************************************************************************)

LeadOf(kn) == IF kn = "count" THEN 0 ELSE 1 + Downs
LastOf(kn) == LeadOf(kn) + 1 + 2 * Ups + 1

Memories == {Memory(k) : k \in Tiles}
Ats == [Tiles -> [Units -> Nat]]
Shared == [Memories -> [Units -> Int]]
Registers == [Tiles -> [Units -> Int]]

WorksIn(kn, a, k) == \E v \in Units : a[k][v] < LastOf(kn)

(* No unit is more than an interval ahead of another of its cube.          *)
TogetherIn(kn, a) ==
  \A k \in Tiles : \A u, v \in Units : a[k][u] <= LastOf(kn) /\ a[k][u] <= a[k][v] + 1

(* In one memory a tile begins when those before it have ended.            *)
InTurnIn(kn, a) ==
  launch.one_memory =>
    \A k, n \in Tiles : k < n => \A u \in Units : a[n][u] > 0 => ~WorksIn(kn, a, k)

(* After j strides of the scan a flag is a window of twice as often doubled *)
(* width, and between the two halves of a stride the register holds what    *)
(* the other half adds.                                                    *)
FlagsIn(kn, a, f) ==
  \A k \in Tiles : WorksIn(kn, a, k) =>
    \A u \in Units, j \in 0 .. Ups :
      a[k][u] \in {LeadOf(kn) + (2 * j + 1), LeadOf(kn) + (2 * j + 2)} =>
        f[Memory(k)][u] = Window(k, u, Doubled[j])
AddsIn(kn, a, ad) ==
  \A k \in Tiles, u \in Units, j \in 1 .. Ups :
    a[k][u] = LeadOf(kn) + 2 * j => ad[k][u] = Behind(k, u, Doubled[j - 1])

(* A unit holds its share as the halving left it that it last took part in. *)
LeftBy(a, k, u, q) ==
  /\ u < Doubled[Ups - q] /\ a[k][u] >= 1 + q
  /\ a[k][u] = 1 + q \/ q = Ups \/ u >= Doubled[Ups - (q + 1)]
JoinedIn(sb, st, tl, k, u, q) ==
  /\ sb[Memory(k)][u] = SumOf(tl, PartBefore(k, u, q))
  /\ st[Memory(k)][u] = SumOf(tl, Part(k, u, q))
SharesIn(kn, a, sb, st, tl) ==
  kn = "scatter" =>
    \A k \in Tiles : WorksIn(kn, a, k) =>
      \A u \in Units, q \in 0 .. Ups : LeftBy(a, k, u, q) => JoinedIn(sb, st, tl, k, u, q)

(* With the flag written, the registers hold what the reduction ended with. *)
TakenIn(kn, a, ba, nl) ==
  kn = "scatter" =>
    \A k \in Tiles, u \in Units :
      a[k][u] > LeadOf(kn) => ba[k][u] = LeftTo(k, 0) /\ nl[k][u] = AllLeft(k)

(* What is counted, told and sent is right.                                *)
CountedIn(kn, a, k) ==
  kn = "count" => IF launch.coop THEN a[k][Block - 1] = LastOf(kn) ELSE a[k][0] > 0
TotalsIn(kn, a, tl) ==
  \A k \in Tiles : CountedIn(kn, a, k) => tl[k] = LeftTo(k, Block) - LeftTo(k, 0)
ToldOf(kn, a, s) ==
  \/ kn = "done"
  \/ kn = "scatter" /\ a[FirstTile(s)][0] > (IF launch.coop THEN LeadOf(kn) ELSE 0)
ToldIn(kn, a, sl) == \A s \in Segs : ToldOf(kn, a, s) => sl[s] = Left(s, Begin(s + 1))
SentOf(kn, a, k, u) ==
  \/ kn = "done"
  \/ kn = "scatter" /\ (IF launch.coop THEN a[k][u] = LastOf(kn) ELSE u + 1 < a[k][0])
SentIn(kn, a, o) ==
  \A k \in Tiles, u \in Offsets : Live(k, u) /\ SentOf(kn, a, k, u) => o[SlotOf(k, u)] = RowOf(k, u)
EdgesIn(o) == o[0] = None /\ o[LastPosition] = None

CubesIn(kn, a, f, sb, st, ad, ba, nl, tl) ==
  launch.coop /\ kn # "done" =>
    /\ TogetherIn(kn, a) /\ InTurnIn(kn, a)
    /\ FlagsIn(kn, a, f) /\ AddsIn(kn, a, ad)
    /\ SharesIn(kn, a, sb, st, tl) /\ TakenIn(kn, a, ba, nl)
ResultsIn(kn, a, tl, sl, o) ==
  TotalsIn(kn, a, tl) /\ ToldIn(kn, a, sl) /\ SentIn(kn, a, o) /\ EdgesIn(o)
TypesIn(kn, a, f, sb, st, ad, ba, nl, tl, sl, o) ==
  /\ kn \in {"count", "scatter", "done"} /\ a \in Ats
  /\ f \in Shared /\ sb \in Shared /\ st \in Shared
  /\ ad \in Registers /\ ba \in Registers /\ nl \in Registers
  /\ tl \in [Tiles -> Int] /\ sl \in [Segs -> Int] /\ o \in [Positions -> Int]

TileInv ==
  /\ Given
  /\ TypesIn(pass, at, s_flag, s_base, s_total, add, base, n_left, tile_left, seg_left, out)
  /\ CubesIn(pass, at, s_flag, s_base, s_total, add, base, n_left, tile_left)
  /\ ResultsIn(pass, at, tile_left, seg_left, out)

(* What the launch fixes of a tile, of a segment, and of a number of halvings. *)
TileSame(k) ==
  /\ Memory(k)' = Memory(k) /\ SegOf(k)' = SegOf(k) /\ TilesOf(SegOf(k))' = TilesOf(SegOf(k))
  /\ AllLeft(k)' = AllLeft(k)
  /\ \A u : /\ Live(k, u)' = Live(k, u) /\ RowOf(k, u)' = RowOf(k, u)
            /\ LeftTo(k, u)' = LeftTo(k, u) /\ SlotOf(k, u)' = SlotOf(k, u)
  /\ \A u, d : Window(k, u, d)' = Window(k, u, d) /\ Behind(k, u, d)' = Behind(k, u, d)
  /\ \A u, q : Part(k, u, q)' = Part(k, u, q) /\ PartBefore(k, u, q)' = PartBefore(k, u, q)

(* With the launch, its table and the rows' ways the rest stays.           *)
LEMMA TilesSame ==
  ASSUME UNCHANGED fixed
  PROVE  /\ Tiles' = Tiles /\ Units' = Units /\ Offsets' = Offsets /\ Block' = Block
         /\ Ups' = Ups /\ Downs' = Downs /\ Memories' = Memories
         /\ \A s : FirstTile(s)' = FirstTile(s) /\ Left(s, Begin(s + 1))' = Left(s, Begin(s + 1))
         /\ \A k : TileSame(k)
<1>1. launch' = launch /\ table' = table /\ goes_left' = goes_left
  BY DEF fixed
<1>2. Tiles' = Tiles /\ Block' = Block /\ Units' = Units /\ Offsets' = Offsets
  BY <1>1 DEF Tiles, Block, Units, Offsets
<1>3. Ups' = Ups /\ Downs' = Downs
  BY <1>2 DEF Ups, Downs
<1>4. \A s : Begin(s)' = Begin(s) /\ FirstTile(s)' = FirstTile(s)
  BY <1>1 DEF Begin, FirstTile
<1>5. \A k : Memory(k)' = Memory(k) /\ SegOf(k)' = SegOf(k)
  BY <1>1 DEF Memory, SegOf
<1>6. Memories' = Memories
  BY <1>2, <1>5 DEF Memories
<1>7. \A s, n : Left(s, n)' = Left(s, n)
  BY <1>1 DEF Left, Lefts, Begin
<1>8. \A s : Left(s, Begin(s + 1))' = Left(s, Begin(s + 1))
  BY <1>1 DEF Left, Lefts, Begin
<1>9. ASSUME NEW k PROVE TileSame(k)
  <2>1. Memory(k)' = Memory(k) /\ SegOf(k)' = SegOf(k) /\ TilesOf(SegOf(k))' = TilesOf(SegOf(k))
    BY <1>1 DEF Memory, SegOf, TilesOf, FirstTile
  <2>2. AllLeft(k)' = AllLeft(k)
    BY <1>1 DEF AllLeft, SegOf, Left, Lefts, Begin
  <2>3. ASSUME NEW u PROVE Live(k, u)' = Live(k, u) /\ RowOf(k, u)' = RowOf(k, u)
    BY <1>1 DEF Live, RowOf, Off, SegOf, Begin
  <2>4. ASSUME NEW u PROVE LeftTo(k, u)' = LeftTo(k, u)
    BY <1>1, <2>3 DEF LeftTo, Upto, SegOf, Left, Lefts, Begin
  <2>5. ASSUME NEW u PROVE SlotOf(k, u)' = SlotOf(k, u)
    BY <1>1, <2>3 DEF SlotOf, Place, SegOf, Left, Lefts, Begin
  <2>6. ASSUME NEW u, NEW d
        PROVE  Window(k, u, d)' = Window(k, u, d) /\ Behind(k, u, d)' = Behind(k, u, d)
    BY <2>4 DEF Window, Behind
  <2>7. ASSUME NEW u, NEW q
        PROVE  Part(k, u, q)' = Part(k, u, q) /\ PartBefore(k, u, q)' = PartBefore(k, u, q)
    BY <1>1, <1>3, <2>1 DEF Part, PartBefore, SegOf, FirstTile
  <2> QED BY <2>1, <2>2, <2>3, <2>4, <2>5, <2>6, <2>7 DEF TileSame
<1> QED BY <1>2, <1>3, <1>4, <1>6, <1>8, <1>9

(* The invariant of the values in the next state.                          *)
TileInvNext ==
  /\ TypesIn(pass', at', s_flag', s_base', s_total', add', base', n_left', tile_left', seg_left', out')
  /\ CubesIn(pass', at', s_flag', s_base', s_total', add', base', n_left', tile_left')
  /\ ResultsIn(pass', at', tile_left', seg_left', out')

(* It is the invariant in the next state.                                  *)
LEMMA TileInvPrimed ==
  ASSUME Given, UNCHANGED fixed, TileInvNext
  PROVE  TileInv'
<1>1. /\ Tiles' = Tiles /\ Units' = Units /\ Offsets' = Offsets /\ Block' = Block
      /\ Ups' = Ups /\ Downs' = Downs /\ Memories' = Memories
      /\ \A s : FirstTile(s)' = FirstTile(s) /\ Left(s, Begin(s + 1))' = Left(s, Begin(s + 1))
      /\ \A k : TileSame(k)
  BY TilesSame
<1>2. Given' /\ Segs' = Segs /\ Positions' = Positions /\ LastPosition' = LastPosition
  BY FixedSame
<1>3. launch' = launch
  BY DEF fixed
<1>4. /\ TypesIn(pass', at', s_flag', s_base', s_total', add', base', n_left', tile_left', seg_left', out')
      /\ CubesIn(pass', at', s_flag', s_base', s_total', add', base', n_left', tile_left')
      /\ ResultsIn(pass', at', tile_left', seg_left', out')
  BY DEF TileInvNext
<1>5. TypesIn(pass, at, s_flag, s_base, s_total, add, base, n_left, tile_left, seg_left, out)'
  BY <1>1, <1>2, <1>4 DEF TypesIn, Ats, Shared, Registers
<1>6. LeadOf(pass)' = LeadOf(pass') /\ LastOf(pass)' = LastOf(pass')
  BY <1>1 DEF LeadOf, LastOf
<1>7. \A k : WorksIn(pass, at, k)' = WorksIn(pass', at', k)
  BY <1>1, <1>6 DEF WorksIn
<1>8. ASSUME launch.coop, pass' # "done"
      PROVE  /\ TogetherIn(pass, at)' /\ InTurnIn(pass, at)'
             /\ FlagsIn(pass, at, s_flag)' /\ AddsIn(pass, at, add)'
             /\ SharesIn(pass, at, s_base, s_total, tile_left)' /\ TakenIn(pass, at, base, n_left)'
  <2>1. /\ TogetherIn(pass', at') /\ InTurnIn(pass', at')
        /\ FlagsIn(pass', at', s_flag') /\ AddsIn(pass', at', add')
        /\ SharesIn(pass', at', s_base', s_total', tile_left') /\ TakenIn(pass', at', base', n_left')
    BY <1>4, <1>8 DEF CubesIn
  <2>2. TogetherIn(pass, at)'
    BY <1>1, <1>6, <2>1 DEF TogetherIn
  <2>3. InTurnIn(pass, at)'
    BY <1>1, <1>3, <1>7, <2>1 DEF InTurnIn
  <2>4. FlagsIn(pass, at, s_flag)'
    BY <1>1, <1>6, <1>7, <2>1 DEF FlagsIn, TileSame
  <2>5. AddsIn(pass, at, add)'
    BY <1>1, <1>6, <2>1 DEF AddsIn, TileSame
  <2>6. SharesIn(pass, at, s_base, s_total, tile_left)'
    <3>1. \A k, u, q : LeftBy(at, k, u, q)' = LeftBy(at', k, u, q)
      BY <1>1 DEF LeftBy
    <3>2. \A k, u, q : JoinedIn(s_base, s_total, tile_left, k, u, q)'
                         = JoinedIn(s_base', s_total', tile_left', k, u, q)
      <4> SUFFICES ASSUME NEW k, NEW u, NEW q
                   PROVE  JoinedIn(s_base, s_total, tile_left, k, u, q)'
                            = JoinedIn(s_base', s_total', tile_left', k, u, q)
        OBVIOUS
      <4>1. Part(k, u, q)' = Part(k, u, q) /\ PartBefore(k, u, q)' = PartBefore(k, u, q)
            /\ Memory(k)' = Memory(k)
        BY <1>1 DEF TileSame
      <4> QED BY <4>1 DEF JoinedIn
    <3> QED BY <1>1, <1>7, <2>1, <3>1, <3>2 DEF SharesIn
  <2>7. TakenIn(pass, at, base, n_left)'
    BY <1>1, <1>6, <2>1 DEF TakenIn, TileSame
  <2> QED BY <2>2, <2>3, <2>4, <2>5, <2>6, <2>7
<1>9. CubesIn(pass, at, s_flag, s_base, s_total, add, base, n_left, tile_left)'
  BY <1>3, <1>8 DEF CubesIn
<1>10. ResultsIn(pass, at, tile_left, seg_left, out)'
  <2>1. /\ TotalsIn(pass', at', tile_left') /\ ToldIn(pass', at', seg_left')
        /\ SentIn(pass', at', out') /\ EdgesIn(out')
    BY <1>4 DEF ResultsIn
  <2>2. TotalsIn(pass, at, tile_left)'
    <3>1. \A k : CountedIn(pass, at, k)' = CountedIn(pass', at', k)
      BY <1>1, <1>3, <1>6 DEF CountedIn
    <3>2. \A k : LeftTo(k, Block)' = LeftTo(k, Block) /\ LeftTo(k, 0)' = LeftTo(k, 0)
      <4>1. \A k, u : LeftTo(k, u)' = LeftTo(k, u)
        BY <1>1 DEF TileSame
      <4> QED BY <1>1, <4>1
    <3> QED BY <1>1, <2>1, <3>1, <3>2 DEF TotalsIn
  <2>3. ToldIn(pass, at, seg_left)'
    <3>1. \A s : ToldOf(pass, at, s)' = ToldOf(pass', at', s)
      BY <1>1, <1>3, <1>6 DEF ToldOf
    <3> QED BY <1>1, <1>2, <2>1, <3>1 DEF ToldIn
  <2>4. SentIn(pass, at, out)'
    <3>1. \A k, u : SentOf(pass, at, k, u)' = SentOf(pass', at', k, u)
      BY <1>3, <1>6 DEF SentOf
    <3> QED BY <1>1, <2>1, <3>1 DEF SentIn, TileSame
  <2>5. EdgesIn(out)'
    BY <1>2, <2>1 DEF EdgesIn
  <2> QED BY <2>2, <2>3, <2>4, <2>5 DEF ResultsIn
<1> QED BY <1>2, <1>5, <1>9, <1>10 DEF TileInv

(* How many intervals there are.                                           *)
LEMMA Intervals ==
  ASSUME Given, launch.coop, NEW kn
  PROVE  /\ Ups \in Nat /\ Downs = Ups /\ LeadOf(kn) \in Nat /\ LastOf(kn) \in Nat
         /\ LastOf(kn) = LeadOf(kn) + (2 * Ups + 2)
         /\ LeadOf(kn) = IF kn = "count" THEN 0 ELSE 1 + Ups
<1>1. Ups \in Nat /\ Downs = Ups
  BY BlockOfLaunch
<1>2. LeadOf(kn) \in Nat /\ LeadOf(kn) = IF kn = "count" THEN 0 ELSE 1 + Ups
  BY <1>1 DEF LeadOf
<1> QED BY <1>1, <1>2 DEF LastOf

(* While nothing is done, nothing is claimed of the memory or a register.  *)
LEMMA NothingDone ==
  ASSUME Given, NEW kn, NEW a, \A k \in Tiles, u \in Units : a[k][u] = 0,
         NEW f, NEW sb, NEW st, NEW ad, NEW ba, NEW nl, NEW tl
  PROVE  CubesIn(kn, a, f, sb, st, ad, ba, nl, tl)
<1> SUFFICES ASSUME launch.coop
             PROVE  /\ TogetherIn(kn, a) /\ InTurnIn(kn, a)
                    /\ FlagsIn(kn, a, f) /\ AddsIn(kn, a, ad)
                    /\ SharesIn(kn, a, sb, st, tl) /\ TakenIn(kn, a, ba, nl)
  BY DEF CubesIn
<1>1. PICK J \in Nat, L \in Nat : J = Ups /\ L = LeadOf(kn) /\ LastOf(kn) \in Nat
  BY Intervals
<1>2. TogetherIn(kn, a) /\ InTurnIn(kn, a)
  BY <1>1 DEF TogetherIn, InTurnIn
<1>3. FlagsIn(kn, a, f)
  <2>1. \A j \in 0 .. J : 0 \notin {L + (2 * j + 1), L + (2 * j + 2)}
    OBVIOUS
  <2> QED BY <1>1, <2>1 DEF FlagsIn
<1>4. AddsIn(kn, a, ad)
  <2>1. \A j \in 1 .. J : L + 2 * j # 0
    OBVIOUS
  <2> QED BY <1>1, <2>1 DEF AddsIn
<1>5. SharesIn(kn, a, sb, st, tl)
  BY <1>1 DEF SharesIn, LeftBy
<1>6. TakenIn(kn, a, ba, nl)
  BY <1>1 DEF TakenIn
<1> QED BY <1>2, <1>3, <1>4, <1>5, <1>6

(* Initially.                                                              *)
LEMMA TileBegins ==
  ASSUME Init
  PROVE  TileInv
<1>1. Given
  BY DEF Init, Given
<1>2. LastPosition \in Nat /\ 0 \in Positions /\ LastPosition \in Positions
  BY <1>1, SlicesApart DEF Positions
<1>3. TypesIn(pass, at, s_flag, s_base, s_total, add, base, n_left, tile_left, seg_left, out)
  <2>1. pass \in {"count", "scatter", "done"}
    BY DEF Init
  <2>2. at \in Ats
    BY DEF Init, Ats
  <2>3. s_flag \in Shared /\ s_base \in Shared /\ s_total \in Shared
    BY DEF Init, Shared, Memories, Stale
  <2>4. add \in Registers /\ base \in Registers /\ n_left \in Registers
    BY DEF Init, Registers
  <2>5. tile_left \in [Tiles -> Int] /\ seg_left \in [Segs -> Int] /\ out \in [Positions -> Int]
    BY DEF Init, Stale, None
  <2> QED BY <2>1, <2>2, <2>3, <2>4, <2>5 DEF TypesIn
<1>4. pass = "count" /\ \A k \in Tiles, u \in Units : at[k][u] = 0
  BY DEF Init
<1>5. CubesIn(pass, at, s_flag, s_base, s_total, add, base, n_left, tile_left)
  BY <1>1, <1>4, NothingDone
<1>6. ResultsIn(pass, at, tile_left, seg_left, out)
  <2>1. \A k \in Tiles : ~CountedIn(pass, at, k)
    <3>1. CASE launch.coop
      <4>1. Block - 1 \in Units /\ LastOf(pass) # 0
        BY <1>1, <3>1, BlockOfLaunch, Intervals
      <4> QED BY <1>4, <3>1, <4>1 DEF CountedIn
    <3>2. CASE ~launch.coop
      <4>1. 0 \in Units
        BY <1>1, BlockOfLaunch
      <4> QED BY <1>4, <3>2, <4>1 DEF CountedIn
    <3> QED BY <3>1, <3>2
  <2>2. TotalsIn(pass, at, tile_left)
    BY <2>1 DEF TotalsIn
  <2>3. ToldIn(pass, at, seg_left)
    BY <1>4 DEF ToldIn, ToldOf
  <2>4. SentIn(pass, at, out)
    BY <1>4 DEF SentIn, SentOf
  <2>5. EdgesIn(out)
    BY <1>2 DEF Init, EdgesIn
  <2> QED BY <2>2, <2>3, <2>4, <2>5 DEF ResultsIn
<1> QED BY <1>1, <1>3, <1>5, <1>6 DEF TileInv

ArrivedIn(kn, a, k, u) ==
  IF a[k][u] > 0 THEN \A v \in Units : a[k][v] >= a[k][u]
  ELSE launch.one_memory /\ k > 1 => \A v \in Units : a[k - 1][v] = LastOf(kn)

(* Unit u of tile k does its i-th interval: the others of its cube are at   *)
(* it or behind it by one, and no other tile has numbers in the memory.    *)
Stepped(kn, a, k, u, i, b) ==
  /\ kn \in {"count", "scatter"} /\ k \in Tiles /\ u \in Units
  /\ i \in Nat \ {0} /\ i <= LastOf(kn)
  /\ a \in Ats /\ b \in Ats
  /\ a[k][u] = i - 1 /\ b[k][u] = i
  /\ \A n \in Tiles : \A v \in Units : n # k \/ v # u => b[n][v] = a[n][v]
  /\ \A v \in Units : a[k][v] = i - 1 \/ a[k][v] = i
  /\ WorksIn(kn, a, k)
  /\ \A n \in Tiles : WorksIn(kn, b, n) => WorksIn(kn, a, n)
  /\ \A n \in Tiles : n # k /\ Memory(n) = Memory(k) /\ WorksIn(kn, b, n) =>
                        \A v \in Units : b[n][v] = 0

(* That is what a barrier lets it do.                                      *)
LEMMA StepTaken ==
  ASSUME Given, launch.coop, NEW kn \in {"count", "scatter"}, NEW a \in Ats,
         TogetherIn(kn, a), InTurnIn(kn, a), NEW k \in Tiles, NEW u \in Units,
         NEW i \in Nat \ {0}, i <= LastOf(kn), a[k][u] = i - 1, ArrivedIn(kn, a, k, u),
         NEW b, b = [a EXCEPT ![k][u] = @ + 1]
  PROVE  Stepped(kn, a, k, u, i, b) /\ TogetherIn(kn, b) /\ InTurnIn(kn, b)
<1>1. PICK L \in Nat : L = LastOf(kn)
  BY Intervals
<1>2. \A n \in Tiles, v \in Units : a[n][v] \in Nat
  BY DEF Ats
<1>3. /\ b \in Ats /\ b[k][u] = i
      /\ \A n \in Tiles : \A v \in Units : n # k \/ v # u => b[n][v] = a[n][v]
  <2>1. a[k][u] + 1 = i /\ a[k][u] + 1 \in Nat
    BY <1>2
  <2>2. b \in Ats
    BY <2>1 DEF Ats
  <2>3. b[k][u] = a[k][u] + 1
    BY DEF Ats
  <2>4. \A n \in Tiles : \A v \in Units : n # k \/ v # u => b[n][v] = a[n][v]
    BY DEF Ats
  <2> QED BY <2>1, <2>2, <2>3, <2>4
<1>4. \A v \in Units : a[k][v] = i - 1 \/ a[k][v] = i
  <2> SUFFICES ASSUME NEW v \in Units PROVE a[k][v] = i - 1 \/ a[k][v] = i
    OBVIOUS
  <2>1. a[k][v] \in Nat /\ a[k][v] <= i
    BY <1>2 DEF TogetherIn
  <2>2. a[k][v] >= i - 1
    <3>1. CASE i = 1
      BY <2>1, <3>1
    <3>2. CASE i # 1
      BY <3>2 DEF ArrivedIn
    <3> QED BY <3>1, <3>2
  <2> QED BY <2>1, <2>2
<1>5. WorksIn(kn, a, k)
  BY <1>1 DEF WorksIn
<1>6. TogetherIn(kn, b)
  <2> SUFFICES ASSUME NEW n \in Tiles, NEW v \in Units, NEW w \in Units
               PROVE  b[n][v] <= LastOf(kn) /\ b[n][v] <= b[n][w] + 1
    BY DEF TogetherIn
  <2>1. a[n][v] <= L /\ a[n][v] <= a[n][w] + 1
    BY <1>1 DEF TogetherIn
  <2>2. CASE n # k \/ (v # u /\ w # u)
    BY <1>1, <1>3, <2>1, <2>2
  <2>3. CASE n = k /\ v = u /\ w = u
    BY <1>1, <1>3, <2>3
  <2>4. CASE n = k /\ v = u /\ w # u
    BY <1>1, <1>3, <1>4, <2>4
  <2>5. CASE n = k /\ v # u /\ w = u
    BY <1>1, <1>3, <1>4, <2>1, <2>5
  <2> QED BY <2>2, <2>3, <2>4, <2>5
<1>7. \A n \in Tiles : WorksIn(kn, b, n) => WorksIn(kn, a, n)
  <2> SUFFICES ASSUME NEW n \in Tiles, WorksIn(kn, b, n) PROVE WorksIn(kn, a, n)
    OBVIOUS
  <2>1. CASE n = k
    BY <1>5, <2>1
  <2>2. CASE n # k
    BY <1>3, <2>2 DEF WorksIn
  <2> QED BY <2>1, <2>2
<1>8. InTurnIn(kn, b)
  <2> SUFFICES ASSUME launch.one_memory, NEW m \in Tiles, NEW n \in Tiles, m < n, NEW w \in Units,
                      b[n][w] > 0
               PROVE  ~WorksIn(kn, a, m)
    BY <1>7 DEF InTurnIn
  <2>1. CASE a[n][w] > 0
    BY <2>1 DEF InTurnIn
  <2>2. CASE ~(a[n][w] > 0)
    <3>1. n = k /\ w = u /\ i = 1
      BY <1>2, <1>3, <2>2
    <3>2. PICK T \in Nat : Tiles = 1 .. T
      BY TilesLaid
    <3>3. k > 1 /\ k - 1 \in Tiles /\ (m = k - 1 \/ m < k - 1)
      BY <3>1, <3>2
    <3>4. \A v \in Units : a[k - 1][v] = L
      BY <1>1, <3>1, <3>3 DEF ArrivedIn
    <3>5. PICK j \in Tiles : j = k - 1
      BY <3>3
    <3>6. ~WorksIn(kn, a, j)
      BY <1>1, <3>4, <3>5 DEF WorksIn
    <3>7. CASE m = j
      BY <3>6, <3>7
    <3>8. CASE m < j
      <4>1. 0 \in Units /\ L > 0
        BY <1>1, BlockOfLaunch
      <4>2. a[j][0] > 0
        BY <3>4, <3>5, <4>1
      <4> QED BY <3>8, <4>1, <4>2 DEF InTurnIn
    <3> QED BY <3>3, <3>5, <3>7, <3>8
  <2> QED BY <2>1, <2>2
<1>9. ASSUME NEW n \in Tiles, n # k, Memory(n) = Memory(k), WorksIn(kn, b, n), NEW v \in Units
      PROVE  b[n][v] = 0
  <2>1. launch.one_memory
    BY <1>9 DEF Memory
  <2>2. k \in Nat /\ n \in Nat
    BY TilesLaid DEF TileIs
  <2>3. ~(n < k)
    <3>1. n < k => ~WorksIn(kn, b, n)
      <4>1. b[k][u] > 0
        BY <1>3
      <4> QED BY <1>8, <2>1, <4>1 DEF InTurnIn
    <3> QED BY <1>9, <3>1
  <2>4. ~(a[n][v] > 0)
    <3>1. k < n
      BY <1>9, <2>2, <2>3
    <3> QED BY <1>5, <2>1, <3>1 DEF InTurnIn
  <2> QED BY <1>2, <1>3, <1>9, <2>4
<1>10. Stepped(kn, a, k, u, i, b)
  BY <1>3, <1>4, <1>5, <1>7, <1>9 DEF Stepped
<1> QED BY <1>6, <1>8, <1>10

(* One entry of a table is changed.                                        *)
OneIn(A, g, f, m, u) ==
  \A n \in A : \A v \in Units : n # m \/ v # u => g[n][v] = f[n][v]

(* The flags stay windows if the unit's own is one.                        *)
LEMMA FlagsStep ==
  ASSUME Given, launch.coop, NEW kn, NEW a, NEW k, NEW u, NEW i, NEW b, Stepped(kn, a, k, u, i, b),
         NEW f, NEW g, FlagsIn(kn, a, f), OneIn(Memories, g, f, Memory(k), u),
         \A j \in 0 .. Ups : i \in {LeadOf(kn) + (2 * j + 1), LeadOf(kn) + (2 * j + 2)} =>
                               g[Memory(k)][u] = Window(k, u, Doubled[j])
  PROVE  FlagsIn(kn, b, g)
<1> SUFFICES ASSUME NEW n \in Tiles, WorksIn(kn, b, n), NEW v \in Units, NEW j \in 0 .. Ups,
                    b[n][v] \in {LeadOf(kn) + (2 * j + 1), LeadOf(kn) + (2 * j + 2)}
             PROVE  g[Memory(n)][v] = Window(n, v, Doubled[j])
  BY DEF FlagsIn
<1>1. /\ k \in Tiles /\ u \in Units /\ b[k][u] = i
      /\ \A m \in Tiles : \A w \in Units : m # k \/ w # u => b[m][w] = a[m][w]
      /\ WorksIn(kn, a, n)
      /\ n # k /\ Memory(n) = Memory(k) => b[n][v] = 0
  BY DEF Stepped
<1>2. Memory(n) \in Memories /\ Memory(k) \in Memories
  BY <1>1 DEF Memories
<1>3. CASE n = k /\ v = u
  BY <1>1, <1>3
<1>4. CASE n = k /\ v # u
  <2>1. g[Memory(n)][v] = f[Memory(n)][v]
    BY <1>2, <1>4 DEF OneIn
  <2>2. a[n][v] \in {LeadOf(kn) + (2 * j + 1), LeadOf(kn) + (2 * j + 2)}
    BY <1>1, <1>4
  <2> QED BY <1>1, <2>1, <2>2 DEF FlagsIn
<1>5. CASE n # k
  <2>1. b[n][v] # 0
    <3>1. LeadOf(kn) \in Nat /\ j \in Nat
      BY Intervals
    <3> QED BY <3>1
  <2>2. Memory(n) # Memory(k)
    BY <1>1, <1>5, <2>1
  <2>3. g[Memory(n)][v] = f[Memory(n)][v]
    BY <1>2, <2>2 DEF OneIn
  <2>4. a[n][v] \in {LeadOf(kn) + (2 * j + 1), LeadOf(kn) + (2 * j + 2)}
    BY <1>1, <1>5
  <2> QED BY <1>1, <2>3, <2>4 DEF FlagsIn
<1> QED BY <1>3, <1>4, <1>5

(* The registers hold what the second halves add if the unit's own does.   *)
LEMMA AddsStep ==
  ASSUME Given, NEW kn, NEW a, NEW k, NEW u, NEW i, NEW b, Stepped(kn, a, k, u, i, b),
         NEW f, NEW g, AddsIn(kn, a, f), OneIn(Tiles, g, f, k, u),
         \A j \in 1 .. Ups : i = LeadOf(kn) + 2 * j => g[k][u] = Behind(k, u, Doubled[j - 1])
  PROVE  AddsIn(kn, b, g)
<1> SUFFICES ASSUME NEW n \in Tiles, NEW v \in Units, NEW j \in 1 .. Ups,
                    b[n][v] = LeadOf(kn) + 2 * j
             PROVE  g[n][v] = Behind(n, v, Doubled[j - 1])
  BY DEF AddsIn
<1>1. /\ k \in Tiles /\ u \in Units /\ b[k][u] = i
      /\ \A m \in Tiles : \A w \in Units : m # k \/ w # u => b[m][w] = a[m][w]
  BY DEF Stepped
<1>2. CASE n = k /\ v = u
  BY <1>1, <1>2
<1>3. CASE n # k \/ v # u
  <2>1. g[n][v] = f[n][v] /\ a[n][v] = LeadOf(kn) + 2 * j
    BY <1>1, <1>3 DEF OneIn
  <2> QED BY <2>1 DEF AddsIn
<1> QED BY <1>2, <1>3

(* The shares stay as the halvings left them if the unit's own does.       *)
LEMMA SharesStep ==
  ASSUME Given, NEW kn, NEW a, NEW k, NEW u, NEW i, NEW b, Stepped(kn, a, k, u, i, b),
         NEW sb, NEW st, NEW nb, NEW nt, NEW tl, SharesIn(kn, a, sb, st, tl),
         OneIn(Memories, nb, sb, Memory(k), u), OneIn(Memories, nt, st, Memory(k), u),
         kn = "scatter" => \A q \in 0 .. Ups : LeftBy(b, k, u, q) => JoinedIn(nb, nt, tl, k, u, q)
  PROVE  SharesIn(kn, b, nb, nt, tl)
<1> SUFFICES ASSUME kn = "scatter", NEW n \in Tiles, WorksIn(kn, b, n), NEW v \in Units,
                    NEW q \in 0 .. Ups, LeftBy(b, n, v, q)
             PROVE  JoinedIn(nb, nt, tl, n, v, q)
  BY DEF SharesIn
<1>1. /\ k \in Tiles /\ u \in Units /\ b[k][u] = i
      /\ \A m \in Tiles : \A w \in Units : m # k \/ w # u => b[m][w] = a[m][w]
      /\ WorksIn(kn, a, n)
      /\ n # k /\ Memory(n) = Memory(k) => b[n][v] = 0
  BY DEF Stepped
<1>2. Memory(n) \in Memories /\ Memory(k) \in Memories
  BY <1>1 DEF Memories
<1>3. CASE n = k /\ v = u
  BY <1>3
<1>4. CASE n # k \/ v # u
  <2>1. b[n][v] # 0
    BY DEF LeftBy
  <2>2. Memory(n) # Memory(k) \/ v # u
    BY <1>1, <1>4, <2>1
  <2>3. nb[Memory(n)][v] = sb[Memory(n)][v] /\ nt[Memory(n)][v] = st[Memory(n)][v]
    BY <1>2, <2>2 DEF OneIn
  <2>4. a[n][v] = b[n][v]
    BY <1>1, <1>4
  <2>5. LeftBy(a, n, v, q)
    BY <2>4 DEF LeftBy
  <2>6. JoinedIn(sb, st, tl, n, v, q)
    BY <1>1, <2>5 DEF SharesIn
  <2> QED BY <2>3, <2>6 DEF JoinedIn
<1> QED BY <1>3, <1>4

(* The registers stay what the reduction ended with if the unit's do.      *)
LEMMA TakenStep ==
  ASSUME Given, NEW kn, NEW a, NEW k, NEW u, NEW i, NEW b, Stepped(kn, a, k, u, i, b),
         NEW ba, NEW nl, NEW nb, NEW nn, TakenIn(kn, a, ba, nl),
         OneIn(Tiles, nb, ba, k, u), OneIn(Tiles, nn, nl, k, u),
         kn = "scatter" /\ i > LeadOf(kn) => nb[k][u] = LeftTo(k, 0) /\ nn[k][u] = AllLeft(k)
  PROVE  TakenIn(kn, b, nb, nn)
<1> SUFFICES ASSUME kn = "scatter", NEW n \in Tiles, NEW v \in Units, b[n][v] > LeadOf(kn)
             PROVE  nb[n][v] = LeftTo(n, 0) /\ nn[n][v] = AllLeft(n)
  BY DEF TakenIn
<1>1. /\ k \in Tiles /\ u \in Units /\ b[k][u] = i
      /\ \A m \in Tiles : \A w \in Units : m # k \/ w # u => b[m][w] = a[m][w]
  BY DEF Stepped
<1>2. CASE n = k /\ v = u
  BY <1>1, <1>2
<1>3. CASE n # k \/ v # u
  <2>1. nb[n][v] = ba[n][v] /\ nn[n][v] = nl[n][v] /\ a[n][v] = b[n][v]
    BY <1>1, <1>3 DEF OneIn
  <2> QED BY <2>1 DEF TakenIn
<1> QED BY <1>2, <1>3

(* Which steps make a count, a segment's total, or a row count as given.   *)
LEMMA ResultsStep ==
  ASSUME Given, launch.coop, NEW kn, NEW a, NEW k, NEW u, NEW i, NEW b, Stepped(kn, a, k, u, i, b)
  PROVE  /\ \A n \in Tiles : CountedIn(kn, b, n) =>
              \/ CountedIn(kn, a, n)
              \/ kn = "count" /\ n = k /\ u = Block - 1 /\ i = LastOf(kn)
         /\ \A s \in Segs : ToldOf(kn, b, s) =>
              \/ ToldOf(kn, a, s)
              \/ kn = "scatter" /\ k = FirstTile(s) /\ s = SegOf(k) /\ u = 0 /\ i = LeadOf(kn) + 1
         /\ \A n \in Tiles, v \in Offsets : SentOf(kn, b, n, v) =>
              \/ SentOf(kn, a, n, v)
              \/ kn = "scatter" /\ n = k /\ v = u /\ i = LastOf(kn)
<1>1. /\ k \in Tiles /\ u \in Units /\ b[k][u] = i /\ a[k][u] = i - 1 /\ i \in Nat
      /\ \A m \in Tiles : \A w \in Units : m # k \/ w # u => b[m][w] = a[m][w]
      /\ kn \in {"count", "scatter"}
  BY DEF Stepped
<1>2. Block - 1 \in Units /\ 0 \in Units /\ Units = Offsets
  BY BlockOfLaunch
<1>3. LeadOf(kn) \in Nat /\ LastOf(kn) \in Nat
  BY Intervals
<1>4. ASSUME NEW n \in Tiles, CountedIn(kn, b, n), ~CountedIn(kn, a, n)
      PROVE  kn = "count" /\ n = k /\ u = Block - 1 /\ i = LastOf(kn)
  <2>1. kn = "count" /\ b[n][Block - 1] = LastOf(kn) /\ a[n][Block - 1] # LastOf(kn)
    BY <1>4 DEF CountedIn
  <2>2. n = k /\ u = Block - 1
    BY <1>1, <1>2, <2>1
  <2> QED BY <1>1, <2>1, <2>2
<1>5. ASSUME NEW s \in Segs, ToldOf(kn, b, s), ~ToldOf(kn, a, s)
      PROVE  kn = "scatter" /\ k = FirstTile(s) /\ s = SegOf(k) /\ u = 0 /\ i = LeadOf(kn) + 1
  <2>1. kn = "scatter" /\ b[FirstTile(s)][0] > LeadOf(kn) /\ ~(a[FirstTile(s)][0] > LeadOf(kn))
    BY <1>1, <1>5 DEF ToldOf
  <2>2. FirstTile(s) \in Tiles /\ SegOf(FirstTile(s)) = s
    <3>1. FirstTile(s) \in TilesOf(s)
      BY TilesLaid DEF SegTiles, TilesOf, Tiled
    <3> QED BY <3>1, TilesLaid DEF SegTiles
  <2>3. FirstTile(s) = k /\ u = 0
    BY <1>1, <1>2, <2>1, <2>2
  <2> QED BY <1>1, <1>3, <2>1, <2>2, <2>3
<1>6. ASSUME NEW n \in Tiles, NEW v \in Offsets, SentOf(kn, b, n, v), ~SentOf(kn, a, n, v)
      PROVE  kn = "scatter" /\ n = k /\ v = u /\ i = LastOf(kn)
  <2>1. kn = "scatter" /\ b[n][v] = LastOf(kn) /\ a[n][v] # LastOf(kn)
    BY <1>1, <1>6 DEF SentOf
  <2>2. n = k /\ v = u
    BY <1>1, <1>2, <2>1
  <2> QED BY <1>1, <2>1, <2>2
<1> QED BY <1>4, <1>5, <1>6

(* Other steps leave the results.                                          *)
LEMMA ResultsKept ==
  ASSUME Given, launch.coop, NEW kn, NEW a, NEW k, NEW u, NEW i, NEW b, Stepped(kn, a, k, u, i, b),
         NEW tl, NEW sl, NEW o, ResultsIn(kn, a, tl, sl, o),
         i # LastOf(kn), kn = "scatter" => i # LeadOf(kn) + 1
  PROVE  ResultsIn(kn, b, tl, sl, o)
<1>1. /\ \A n \in Tiles : CountedIn(kn, b, n) => CountedIn(kn, a, n)
      /\ \A s \in Segs : ToldOf(kn, b, s) => ToldOf(kn, a, s)
      /\ \A n \in Tiles, v \in Offsets : SentOf(kn, b, n, v) => SentOf(kn, a, n, v)
  BY ResultsStep
<1>2. TotalsIn(kn, a, tl) /\ ToldIn(kn, a, sl) /\ SentIn(kn, a, o) /\ EdgesIn(o)
  BY DEF ResultsIn
<1>3. TotalsIn(kn, b, tl)
  BY <1>1, <1>2 DEF TotalsIn
<1>4. ToldIn(kn, b, sl)
  BY <1>1, <1>2 DEF ToldIn
<1>5. SentIn(kn, b, o)
  BY <1>1, <1>2 DEF SentIn
<1> QED BY <1>2, <1>3, <1>4, <1>5 DEF ResultsIn

RowSentIn(o, k, u, r) ==
  /\ r \in [Positions -> Int]
  /\ r[SlotOf(k, u)] = RowOf(k, u)
  /\ \A n \in Tiles, v \in Offsets :
       Live(n, v) /\ o[SlotOf(n, v)] = RowOf(n, v) => r[SlotOf(n, v)] = RowOf(n, v)
  /\ EdgesIn(o) => EdgesIn(r)

(* A row that is sent to its place leaves the others where they are.       *)
LEMMA RowSent ==
  ASSUME Given, NEW k \in Tiles, NEW u \in Offsets, Live(k, u),
         NEW o \in [Positions -> Int], NEW r, r = [o EXCEPT ![SlotOf(k, u)] = RowOf(k, u)]
  PROVE  RowSentIn(o, k, u, r)
<1>1. \A v \in Offsets : v \in Nat
  BY BlockOfLaunch DEF Offsets
<1>2. \A n \in Tiles, v \in Offsets : Live(n, v) =>
        /\ SegOf(n) \in Segs /\ RowOf(n, v) \in Slice(SegOf(n))
        /\ SlotOf(n, v) \in Slice(SegOf(n))
  <2> SUFFICES ASSUME NEW n \in Tiles, NEW v \in Offsets, Live(n, v)
               PROVE  /\ SegOf(n) \in Segs /\ RowOf(n, v) \in Slice(SegOf(n))
                      /\ SlotOf(n, v) \in Slice(SegOf(n))
    OBVIOUS
  <2>1. SegOf(n) \in Segs /\ RowOf(n, v) \in Slice(SegOf(n))
    BY <1>1, LiveRow
  <2>2. PICK s \in Segs, p \in Slice(SegOf(n)) : s = SegOf(n) /\ p = RowOf(n, v)
    BY <2>1
  <2>3. Place(s, p) \in Slice(s)
    BY <2>2, Places
  <2> QED BY <2>1, <2>2, <2>3 DEF SlotOf
<1>3. PICK s \in Segs, p \in Positions :
        /\ s = SegOf(k) /\ p = RowOf(k, u) /\ p \in Slice(s) /\ SlotOf(k, u) = Place(s, p)
        /\ p \in Int
  <2>1. SegOf(k) \in Segs /\ RowOf(k, u) \in Slice(SegOf(k))
    BY <1>2
  <2>2. RowOf(k, u) \in Positions
    BY <2>1, SlicesApart
  <2>3. \A x \in Positions : x \in Int
    BY SlicesApart DEF Positions
  <2> QED BY <2>1, <2>2, <2>3 DEF SlotOf
<1>4. PICK z \in Positions : z = SlotOf(k, u) /\ z \in Slice(s) /\ z # 0 /\ z # LastPosition
  <2>1. SlotOf(k, u) \in Slice(s)
    BY <1>2, <1>3
  <2> QED BY <2>1, SlicesApart
<1>5. r \in [Positions -> Int] /\ r[z] = p /\ \A x \in Positions : x # z => r[x] = o[x]
  BY <1>3, <1>4
<1>6. ASSUME NEW n \in Tiles, NEW v \in Offsets, Live(n, v), o[SlotOf(n, v)] = RowOf(n, v)
      PROVE  r[SlotOf(n, v)] = RowOf(n, v)
  <2>0. PICK t \in Segs : t = SegOf(n)
    BY <1>2, <1>6
  <2>1. PICK q \in Slice(t) : q = RowOf(n, v) /\ SlotOf(n, v) = Place(t, q)
    BY <1>2, <1>6, <2>0 DEF SlotOf
  <2>2. Place(t, q) \in Slice(t) /\ Place(t, q) \in Positions
    BY <2>1, Places, SlicesApart
  <2>3. CASE Place(t, q) # z
    BY <1>5, <1>6, <2>1, <2>2, <2>3
  <2>4. CASE Place(t, q) = z
    <3>1. t = s
      BY <1>4, <2>2, <2>4, SlicesApart
    <3>2. q = p
      BY <1>3, <1>4, <2>1, <2>4, <3>1, Places
    <3> QED BY <1>5, <2>1, <2>4, <3>2
  <2> QED BY <2>3, <2>4
<1>7. EdgesIn(o) => EdgesIn(r)
  <2>1. 0 \in Positions /\ LastPosition \in Positions
    BY SlicesApart DEF Positions
  <2> QED BY <1>4, <1>5, <2>1 DEF EdgesIn
<1> QED BY <1>3, <1>4, <1>5, <1>6, <1>7 DEF RowSentIn

(* What a step leaves keeps its claims, unless the step is the one that     *)
(* makes the claim: the flags,                                             *)
LEMMA FlagsKept ==
  ASSUME Given, launch.coop, NEW kn, NEW a, NEW k, NEW u, NEW i, NEW b, Stepped(kn, a, k, u, i, b),
         NEW f, FlagsIn(kn, a, f), \A j \in 0 .. Ups : i # LeadOf(kn) + (2 * j + 1)
  PROVE  FlagsIn(kn, b, f)
<1>1. /\ k \in Tiles /\ u \in Units /\ a[k][u] = i - 1 /\ i \in Nat /\ WorksIn(kn, a, k)
  BY DEF Stepped
<1>2. ASSUME NEW j \in 0 .. Ups, i \in {LeadOf(kn) + (2 * j + 1), LeadOf(kn) + (2 * j + 2)}
      PROVE  f[Memory(k)][u] = Window(k, u, Doubled[j])
  <2>1. LeadOf(kn) \in Nat /\ j \in Nat
    BY Intervals
  <2>2. a[k][u] = LeadOf(kn) + (2 * j + 1)
    BY <1>1, <1>2, <2>1
  <2> QED BY <1>1, <2>2 DEF FlagsIn
<1>3. OneIn(Memories, f, f, Memory(k), u)
  BY DEF OneIn
<1> QED BY <1>2, <1>3, FlagsStep

(* the registers of the scan,                                              *)
LEMMA AddsKept ==
  ASSUME Given, NEW kn, NEW a, NEW k, NEW u, NEW i, NEW b, Stepped(kn, a, k, u, i, b),
         NEW f, AddsIn(kn, a, f), \A j \in 1 .. Ups : i # LeadOf(kn) + 2 * j
  PROVE  AddsIn(kn, b, f)
<1>1. OneIn(Tiles, f, f, k, u)
  BY DEF OneIn
<1> QED BY <1>1, AddsStep

(* the shares,                                                             *)
LEMMA SharesKept ==
  ASSUME Given, launch.coop, NEW kn, NEW a, NEW k, NEW u, NEW i, NEW b, Stepped(kn, a, k, u, i, b),
         NEW sb, NEW st, NEW tl, SharesIn(kn, a, sb, st, tl), kn = "scatter" => i > 1 + Ups
  PROVE  SharesIn(kn, b, sb, st, tl)
<1>1. /\ k \in Tiles /\ u \in Units /\ a[k][u] = i - 1 /\ b[k][u] = i /\ i \in Nat
      /\ WorksIn(kn, a, k)
  BY DEF Stepped
<1>2. ASSUME kn = "scatter", NEW q \in 0 .. Ups, LeftBy(b, k, u, q)
      PROVE  JoinedIn(sb, st, tl, k, u, q)
  <2>1. Ups \in Nat
    BY Intervals
  <2>2. LeftBy(a, k, u, q)
    <3>1. i > 1 + q /\ i - 1 >= 1 + q
      BY <1>1, <1>2, <2>1
    <3> QED BY <1>1, <1>2, <3>1 DEF LeftBy
  <2> QED BY <1>1, <1>2, <2>2 DEF SharesIn
<1>3. OneIn(Memories, sb, sb, Memory(k), u) /\ OneIn(Memories, st, st, Memory(k), u)
  BY DEF OneIn
<1> QED BY <1>2, <1>3, SharesStep

(* and the registers of the scatter.                                       *)
LEMMA TakenKept ==
  ASSUME Given, launch.coop, NEW kn, NEW a, NEW k, NEW u, NEW i, NEW b, Stepped(kn, a, k, u, i, b),
         NEW ba, NEW nl, TakenIn(kn, a, ba, nl), kn = "scatter" => i # LeadOf(kn) + 1
  PROVE  TakenIn(kn, b, ba, nl)
<1>1. k \in Tiles /\ u \in Units /\ a[k][u] = i - 1 /\ i \in Nat
  BY DEF Stepped
<1>2. ASSUME kn = "scatter", i > LeadOf(kn) PROVE ba[k][u] = LeftTo(k, 0) /\ nl[k][u] = AllLeft(k)
  <2>1. LeadOf(kn) \in Nat
    BY Intervals
  <2>2. a[k][u] > LeadOf(kn)
    BY <1>1, <1>2, <2>1
  <2> QED BY <1>1, <1>2, <2>2 DEF TakenIn
<1>3. OneIn(Tiles, ba, ba, k, u) /\ OneIn(Tiles, nl, nl, k, u)
  BY DEF OneIn
<1> QED BY <1>2, <1>3, TakenStep

(* A step of a unit of the cube, in the invariant.                         *)
LEMMA Taking ==
  ASSUME TileInv, NEW k \in Tiles, NEW u \in Units, NEW i \in Nat \ {0}, i <= LastOf(pass),
         Step(k, u, i)
  PROVE  /\ Given /\ launch.coop /\ pass \in {"count", "scatter"}
         /\ Stepped(pass, at, k, u, i, at') /\ at' \in Ats
         /\ TogetherIn(pass, at') /\ InTurnIn(pass, at')
         /\ FlagsIn(pass, at, s_flag) /\ AddsIn(pass, at, add)
         /\ SharesIn(pass, at, s_base, s_total, tile_left) /\ TakenIn(pass, at, base, n_left)
<1>1. /\ launch.coop /\ pass # "done" /\ at[k][u] = i - 1 /\ Arrived(k, u)
      /\ at' = [at EXCEPT ![k][u] = @ + 1]
  BY DEF Step, Advance
<1>2. Given /\ pass \in {"count", "scatter"} /\ at \in Ats
  BY <1>1 DEF TileInv, TypesIn
<1>3. /\ TogetherIn(pass, at) /\ InTurnIn(pass, at)
      /\ FlagsIn(pass, at, s_flag) /\ AddsIn(pass, at, add)
      /\ SharesIn(pass, at, s_base, s_total, tile_left) /\ TakenIn(pass, at, base, n_left)
  BY <1>1 DEF TileInv, CubesIn
<1>4. ArrivedIn(pass, at, k, u)
  BY <1>1 DEF ArrivedIn, Arrived, LastInterval, LastOf, Lead, LeadOf
<1>5. Stepped(pass, at, k, u, i, at') /\ TogetherIn(pass, at') /\ InTurnIn(pass, at')
  BY <1>1, <1>2, <1>3, <1>4, StepTaken
<1>6. at' \in Ats
  BY <1>5 DEF Stepped
<1> QED BY <1>1, <1>2, <1>3, <1>5, <1>6

(* A sum of counts over tiles of a tile's segment is a number.             *)
LEMMA PartSums ==
  ASSUME Given, tile_left \in [Tiles -> Int], NEW k \in Tiles, NEW u, NEW q
  PROVE  SumOf(tile_left, Part(k, u, q)) \in Int /\ SumOf(tile_left, PartBefore(k, u, q)) \in Int
<1>1. PICK s \in Segs : s = SegOf(k)
  BY TilesLaid DEF TileIs
<1>2. PICK f \in Nat, e \in Int : TilesOf(s) = f .. e /\ f .. e \subseteq Tiles
  <2>1. FirstTile(s) \in Nat /\ FirstTile(s + 1) \in Nat /\ TilesOf(s) \subseteq Tiles
    BY TilesLaid DEF SegTiles
  <2>2. FirstTile(s + 1) - 1 \in Int
    BY <2>1
  <2> QED BY <2>1, <2>2 DEF TilesOf
<1>3. IsFiniteSet(f .. e)
  BY <1>2, FS_Interval
<1>4. ASSUME NEW T, T \subseteq f .. e PROVE SumOf(tile_left, T) \in Int
  <2>1. IsFiniteSet(T) /\ \A x \in T : tile_left[x] \in Int
    BY <1>2, <1>3, <1>4, FS_Subset
  <2> QED BY <2>1, SumOut
<1>5. Part(k, u, q) \subseteq f .. e /\ PartBefore(k, u, q) \subseteq f .. e
  BY <1>1, <1>2 DEF Part, PartBefore
<1> QED BY <1>4, <1>5

(* Each unit takes its share.                                              *)
LEMMA SumCountsKeeps ==
  ASSUME TileInv, SumCounts
  PROVE  TileInvNext /\ UNCHANGED fixed
<1>1. /\ pass = "scatter" /\ pass' = pass /\ UNCHANGED fixed
      /\ s_flag' = s_flag /\ add' = add /\ base' = base /\ n_left' = n_left
      /\ tile_left' = tile_left /\ seg_left' = seg_left /\ out' = out
  BY DEF SumCounts, fixed, registers
<1>2. PICK k \in Tiles, u \in Units :
        LET share == {t \in TilesOf(SegOf(k)) : (t - FirstTile(SegOf(k))) % Block = u}
        IN /\ Step(k, u, 1)
           /\ s_base' = [s_base EXCEPT ![Memory(k)][u] = SumOf(tile_left, {t \in share : t < k})]
           /\ s_total' = [s_total EXCEPT ![Memory(k)][u] = SumOf(tile_left, share)]
  BY DEF SumCounts
<1>3. Given /\ launch.coop
  BY <1>2 DEF TileInv, Step
<1>4. 1 \in Nat \ {0} /\ 1 <= LastOf(pass) /\ Ups \in Nat /\ LeadOf(pass) = 1 + Ups
      /\ LastOf(pass) = (1 + Ups) + (2 * Ups + 2)
  BY <1>1, <1>3, Intervals
<1>5. /\ Stepped(pass, at, k, u, 1, at') /\ at' \in Ats
      /\ TogetherIn(pass, at') /\ InTurnIn(pass, at')
      /\ FlagsIn(pass, at, s_flag) /\ AddsIn(pass, at, add)
      /\ SharesIn(pass, at, s_base, s_total, tile_left) /\ TakenIn(pass, at, base, n_left)
  BY <1>2, <1>4, Taking
<1>6. /\ TypesIn(pass, at, s_flag, s_base, s_total, add, base, n_left, tile_left, seg_left, out)
      /\ ResultsIn(pass, at, tile_left, seg_left, out)
  BY DEF TileInv
<1>7. tile_left \in [Tiles -> Int] /\ s_base \in Shared /\ s_total \in Shared
  BY <1>6 DEF TypesIn
<1>8. PICK x \in Int, y \in Int :
        x = SumOf(tile_left, PartBefore(k, u, 0)) /\ y = SumOf(tile_left, Part(k, u, 0))
  BY <1>3, <1>7, PartSums
<1>9. s_base' = [s_base EXCEPT ![Memory(k)][u] = x] /\ s_total' = [s_total EXCEPT ![Memory(k)][u] = y]
  <2>1. u \in Nat
    BY <1>3, BlockOfLaunch DEF Offsets
  <2>2. Part(k, u, 0) = {t \in TilesOf(SegOf(k)) : (t - FirstTile(SegOf(k))) % Block = u}
    BY <1>3, <1>7, <2>1, SharesJoin
  <2>3. PartBefore(k, u, 0)
          = {t \in {t \in TilesOf(SegOf(k)) : (t - FirstTile(SegOf(k))) % Block = u} : t < k}
    BY <2>2 DEF PartBefore
  <2> QED BY <1>2, <1>8, <2>2, <2>3
<1>10. /\ s_base' \in Shared /\ OneIn(Memories, s_base', s_base, Memory(k), u) /\ s_base'[Memory(k)][u] = x
       /\ s_total' \in Shared /\ OneIn(Memories, s_total', s_total, Memory(k), u) /\ s_total'[Memory(k)][u] = y
  <2>0. Memory(k) \in Memories
    BY DEF Memories
  <2>1. s_base' \in Shared /\ OneIn(Memories, s_base', s_base, Memory(k), u) /\ s_base'[Memory(k)][u] = x
    BY <1>7, <1>8, <1>9, <2>0 DEF Shared, OneIn
  <2>2. s_total' \in Shared /\ OneIn(Memories, s_total', s_total, Memory(k), u) /\ s_total'[Memory(k)][u] = y
    BY <1>7, <1>8, <1>9, <2>0 DEF Shared, OneIn
  <2> QED BY <2>1, <2>2
<1>11. SharesIn(pass, at', s_base', s_total', tile_left)
  <2>1. ASSUME NEW q \in 0 .. Ups, LeftBy(at', k, u, q)
        PROVE  JoinedIn(s_base', s_total', tile_left, k, u, q)
    <3>1. at'[k][u] = 1
      BY <1>5 DEF Stepped
    <3>2. q = 0
      BY <1>4, <2>1, <3>1 DEF LeftBy
    <3> QED BY <1>8, <1>10, <3>2 DEF JoinedIn
  <2> QED BY <1>3, <1>5, <1>10, <2>1, SharesStep
<1>12. FlagsIn(pass, at', s_flag)
  <2>1. \A j \in 0 .. Ups : 1 # LeadOf(pass) + (2 * j + 1)
    BY <1>4
  <2> QED BY <1>3, <1>5, <2>1, FlagsKept
<1>13. AddsIn(pass, at', add)
  <2>1. \A j \in 1 .. Ups : 1 # LeadOf(pass) + 2 * j
    BY <1>4
  <2> QED BY <1>3, <1>5, <2>1, AddsKept
<1>14. TakenIn(pass, at', base, n_left)
  <2>1. 1 # LeadOf(pass) + 1
    BY <1>4
  <2> QED BY <1>3, <1>5, <2>1, TakenKept
<1>15. ResultsIn(pass, at', tile_left, seg_left, out)
  <2>1. 1 # LastOf(pass) /\ 1 # LeadOf(pass) + 1
    BY <1>4
  <2> QED BY <1>3, <1>5, <1>6, <2>1, ResultsKept
<1>16. TypesIn(pass, at', s_flag, s_base', s_total', add, base, n_left, tile_left, seg_left, out)
  BY <1>5, <1>6, <1>10 DEF TypesIn
<1>17. CubesIn(pass, at', s_flag, s_base', s_total', add, base, n_left, tile_left)
  BY <1>5, <1>11, <1>12, <1>13, <1>14 DEF CubesIn
<1> QED BY <1>1, <1>15, <1>16, <1>17 DEF TileInvNext

(* A halving joins the share of a unit with that of the unit d after it,    *)
(* which may have gone through the halving but no longer takes part.       *)
LEMMA Halving ==
  ASSUME Given, launch.coop, tile_left \in [Tiles -> Int], NEW k \in Tiles, NEW u \in Units,
         NEW j \in 1 .. Ups, NEW a, NEW b, Stepped("scatter", a, k, u, 1 + j, b),
         NEW sb, NEW st, SharesIn("scatter", a, sb, st, tile_left), NEW nb, NEW nt,
         IF u < Doubled[Ups - j]
         THEN /\ nb[Memory(k)][u] = sb[Memory(k)][u] + sb[Memory(k)][u + Doubled[Ups - j]]
              /\ nt[Memory(k)][u] = st[Memory(k)][u] + st[Memory(k)][u + Doubled[Ups - j]]
         ELSE nb[Memory(k)][u] = sb[Memory(k)][u] /\ nt[Memory(k)][u] = st[Memory(k)][u],
         NEW q \in 0 .. Ups, LeftBy(b, k, u, q)
  PROVE  JoinedIn(nb, nt, tile_left, k, u, q)
<1>1. PICK n \in Nat, c \in Nat : n = Ups /\ j \in 1 .. n /\ q \in 0 .. n /\ c = j - 1
  BY Intervals
<1>2. u \in Nat /\ Block \in Nat /\ Block = Doubled[n] /\ Units = 0 .. Block - 1
  BY <1>1, BlockOfLaunch DEF Offsets
<1>3. PICK d \in Nat \ {0} : d = Doubled[n - j] /\ Doubled[n - c] = 2 * d /\ 2 * d <= Block
  <2>1. PICK i \in Nat : i = n - j /\ n - c = i + 1 /\ (i + 1 < n \/ i + 1 = n)
    BY <1>1
  <2>2. Doubled[i] \in Nat \ {0} /\ Doubled[i + 1] = 2 * Doubled[i]
    BY DoubledIs, DoubledRises
  <2>3. Doubled[i + 1] <= Doubled[n]
    <3>1. PICK x \in Nat : x = i + 1 /\ (x < n \/ x = n)
      BY <2>1
    <3>2. Doubled[x] \in Nat /\ Doubled[n] \in Nat /\ (x < n => Doubled[x] < Doubled[n])
      BY DoubledRises
    <3> QED BY <3>1, <3>2
  <2> QED BY <1>2, <2>1, <2>2, <2>3
<1>4. a[k][u] = j /\ b[k][u] = 1 + j /\ WorksIn("scatter", a, k)
      /\ \A v \in Units : a[k][v] \in {j, 1 + j}
  <2>1. (1 + j) - 1 = j
    OBVIOUS
  <2> QED BY <2>1 DEF Stepped
<1>5. ASSUME NEW v \in Units, NEW p \in 0 .. Ups, LeftBy(a, k, v, p)
      PROVE  JoinedIn(sb, st, tile_left, k, v, p)
  BY <1>4, <1>5 DEF SharesIn
<1>6. q <= j /\ (q = j => u < d) /\ (q < j => u >= d /\ q # n /\ u >= Doubled[n - (q + 1)])
  <2>1. /\ u < Doubled[n - q] /\ 1 + j >= 1 + q
        /\ 1 + j = 1 + q \/ q = n \/ u >= Doubled[n - (q + 1)]
    BY <1>1, <1>4 DEF LeftBy
  <2>2. q = j => u < d
    BY <1>3, <2>1
  <2>3. ASSUME q < j PROVE u >= d /\ q # n /\ u >= Doubled[n - (q + 1)]
    <3>1. u >= Doubled[n - (q + 1)]
      BY <1>1, <2>1, <2>3
    <3>2. PICK x \in Nat, y \in Nat : x = n - j /\ y = n - (q + 1) /\ (x < y \/ x = y)
      BY <1>1, <2>3
    <3>3. Doubled[x] <= Doubled[y]
      BY <3>2, DoubledRises
    <3>4. Doubled[y] \in Nat
      BY <3>2, DoubledRises
    <3>5. PICK e \in Nat : e = Doubled[y] /\ u >= e /\ d <= e
      BY <1>3, <3>1, <3>2, <3>3, <3>4
    <3>6. u >= d
      BY <1>2, <3>5
    <3>7. q # n
      BY <1>1, <2>3
    <3> QED BY <3>1, <3>6, <3>7
  <2> QED BY <1>1, <2>1, <2>2, <2>3
<1>7. CASE q = j
  <2>1. u < d
    BY <1>6, <1>7
  <2>2. PICK v \in Units : v \in Nat /\ v = u + d /\ v < 2 * d /\ v >= d
    <3>1. u \in Nat /\ d \in Nat /\ Block \in Nat /\ 2 * d <= Block /\ u < d
      BY <1>2, <1>3, <2>1
    <3>2. u + d \in 0 .. Block - 1 /\ u + d < 2 * d /\ u + d >= d
      BY <3>1
    <3> QED BY <1>2, <3>2
  <2>3. nb[Memory(k)][u] = sb[Memory(k)][u] + sb[Memory(k)][v]
        /\ nt[Memory(k)][u] = st[Memory(k)][u] + st[Memory(k)][v]
    BY <1>1, <1>3, <2>1, <2>2
  <2>4. LeftBy(a, k, u, c) /\ LeftBy(a, k, v, c)
    <3>1. u < 2 * d /\ v < 2 * d /\ v >= d
      <4>1. u \in Nat /\ d \in Nat
        BY <1>2
      <4> QED BY <2>1, <2>2, <4>1
    <3>2. c + 1 = j /\ 1 + c = j
      BY <1>1
    <3>3. a[k][v] >= j
      BY <1>4
    <3> QED BY <1>1, <1>3, <1>4, <3>1, <3>2, <3>3 DEF LeftBy
  <2>5. JoinedIn(sb, st, tile_left, k, u, c) /\ JoinedIn(sb, st, tile_left, k, v, c)
    <3>1. c \in 0 .. Ups
      BY <1>1
    <3> QED BY <1>5, <2>4, <3>1
  <2>6. JoinedFrom(k, u, d, c)
    <3>1. c + 1 <= Ups /\ Doubled[Ups - (c + 1)] = d
      BY <1>1, <1>3
    <3> QED BY <1>2, <2>1, <3>1, SharesJoin
  <2>7. c + 1 = q
    BY <1>1, <1>7
  <2> QED BY <2>2, <2>3, <2>5, <2>6, <2>7 DEF JoinedIn, JoinedFrom
<1>8. CASE q < j
  <2>1. u >= d /\ q # n /\ u >= Doubled[n - (q + 1)]
    BY <1>6, <1>8
  <2>2. nb[Memory(k)][u] = sb[Memory(k)][u] /\ nt[Memory(k)][u] = st[Memory(k)][u]
    BY <1>1, <1>2, <1>3, <2>1
  <2>3. LeftBy(a, k, u, q)
    <3>1. j >= 1 + q
      BY <1>1, <1>8
    <3> QED BY <1>1, <1>4, <2>1, <3>1 DEF LeftBy
  <2> QED BY <1>5, <2>2, <2>3 DEF JoinedIn
<1> QED BY <1>1, <1>6, <1>7, <1>8

(* One halving.                                                            *)
LEMMA ReduceKeeps ==
  ASSUME TileInv, Reduce
  PROVE  TileInvNext /\ UNCHANGED fixed
<1>1. /\ pass = "scatter" /\ pass' = pass /\ UNCHANGED fixed
      /\ s_flag' = s_flag /\ add' = add /\ base' = base /\ n_left' = n_left
      /\ tile_left' = tile_left /\ seg_left' = seg_left /\ out' = out
  BY DEF Reduce, fixed, registers
<1>2. PICK k \in Tiles, u \in Units, j \in 1 .. Downs :
        LET m == Memory(k)
            d == Block \div Doubled[j]
        IN /\ Step(k, u, 1 + j)
           /\ IF u < d
              THEN /\ s_base' = [s_base EXCEPT ![m][u] = @ + s_base[m][u + d]]
                   /\ s_total' = [s_total EXCEPT ![m][u] = @ + s_total[m][u + d]]
              ELSE UNCHANGED <<s_base, s_total>>
  BY DEF Reduce
<1>3. Given /\ launch.coop
  BY <1>2 DEF TileInv, Step
<1>4. PICK n \in Nat, i \in Nat \ {0} :
        /\ n = Ups /\ Downs = n /\ j \in 1 .. n /\ i = 1 + j /\ LeadOf(pass) = 1 + n
        /\ LastOf(pass) = (1 + n) + (2 * n + 2) /\ i <= LastOf(pass)
  BY <1>1, <1>3, Intervals
<1>5. /\ Stepped(pass, at, k, u, i, at') /\ at' \in Ats
      /\ TogetherIn(pass, at') /\ InTurnIn(pass, at')
      /\ FlagsIn(pass, at, s_flag) /\ AddsIn(pass, at, add)
      /\ SharesIn(pass, at, s_base, s_total, tile_left) /\ TakenIn(pass, at, base, n_left)
  <2>1. Step(k, u, i)
    BY <1>2, <1>4
  <2> QED BY <1>4, <2>1, Taking
<1>6. /\ TypesIn(pass, at, s_flag, s_base, s_total, add, base, n_left, tile_left, seg_left, out)
      /\ ResultsIn(pass, at, tile_left, seg_left, out)
  BY DEF TileInv
<1>7. tile_left \in [Tiles -> Int] /\ s_base \in Shared /\ s_total \in Shared
  BY <1>6 DEF TypesIn
<1>8. PICK m \in Memories, d \in Nat \ {0} :
        m = Memory(k) /\ d = Doubled[n - j] /\ d = Block \div Doubled[j]
        /\ (u < d => u + d \in Units)
  <2>1. Block \in Nat /\ Block = Doubled[n] /\ Units = 0 .. Block - 1 /\ u \in Nat
    BY <1>3, <1>4, BlockOfLaunch DEF Offsets
  <2>2. Doubled[n] \div Doubled[j] = Doubled[n - j]
    BY <1>4, DoubledHalves
  <2>3. PICK x \in Nat : x = n - j /\ (x + 1 = n \/ x + 1 < n)
    BY <1>4
  <2>4. Doubled[x] \in Nat \ {0} /\ 2 * Doubled[x] <= Doubled[n]
    <3>1. Doubled[x] \in Nat \ {0} /\ Doubled[x + 1] = 2 * Doubled[x]
      BY DoubledIs, DoubledRises
    <3>2. PICK y \in Nat : y = x + 1 /\ (y < n \/ y = n)
      BY <2>3
    <3>3. Doubled[y] \in Nat /\ Doubled[n] \in Nat /\ (y < n => Doubled[y] < Doubled[n])
      BY DoubledRises
    <3> QED BY <3>1, <3>2, <3>3
  <2>5. Memory(k) \in Memories
    BY DEF Memories
  <2> QED BY <2>1, <2>2, <2>3, <2>4, <2>5
<1>9. IF u < d
      THEN /\ s_base' = [s_base EXCEPT ![m][u] = s_base[m][u] + s_base[m][u + d]]
           /\ s_total' = [s_total EXCEPT ![m][u] = s_total[m][u] + s_total[m][u + d]]
      ELSE s_base' = s_base /\ s_total' = s_total
  BY <1>2, <1>7, <1>8 DEF Shared
<1>10. /\ s_base' \in Shared /\ OneIn(Memories, s_base', s_base, m, u)
       /\ s_total' \in Shared /\ OneIn(Memories, s_total', s_total, m, u)
       /\ IF u < d
          THEN /\ s_base'[m][u] = s_base[m][u] + s_base[m][u + d]
               /\ s_total'[m][u] = s_total[m][u] + s_total[m][u + d]
          ELSE s_base'[m][u] = s_base[m][u] /\ s_total'[m][u] = s_total[m][u]
  <2>1. CASE u < d
    <3>1. PICK x \in Int, y \in Int :
            x = s_base[m][u] + s_base[m][u + d] /\ y = s_total[m][u] + s_total[m][u + d]
      BY <1>7, <1>8, <2>1 DEF Shared
    <3>2. s_base' = [s_base EXCEPT ![m][u] = x] /\ s_total' = [s_total EXCEPT ![m][u] = y]
      BY <1>9, <2>1, <3>1
    <3>3. s_base' \in Shared /\ OneIn(Memories, s_base', s_base, m, u) /\ s_base'[m][u] = x
      BY <1>7, <3>2 DEF Shared, OneIn
    <3>4. s_total' \in Shared /\ OneIn(Memories, s_total', s_total, m, u) /\ s_total'[m][u] = y
      BY <1>7, <3>2 DEF Shared, OneIn
    <3> QED BY <2>1, <3>1, <3>3, <3>4
  <2>2. CASE ~(u < d)
    BY <1>7, <1>9, <2>2 DEF OneIn
  <2> QED BY <2>1, <2>2
<1>11. SharesIn(pass, at', s_base', s_total', tile_left)
  <2>1. ASSUME NEW q \in 0 .. Ups, LeftBy(at', k, u, q)
        PROVE  JoinedIn(s_base', s_total', tile_left, k, u, q)
    <3>1. Stepped("scatter", at, k, u, 1 + j, at')
      BY <1>1, <1>4, <1>5
    <3>2. IF u < Doubled[Ups - j]
          THEN /\ s_base'[Memory(k)][u] = s_base[Memory(k)][u] + s_base[Memory(k)][u + Doubled[Ups - j]]
               /\ s_total'[Memory(k)][u] = s_total[Memory(k)][u] + s_total[Memory(k)][u + Doubled[Ups - j]]
          ELSE s_base'[Memory(k)][u] = s_base[Memory(k)][u] /\ s_total'[Memory(k)][u] = s_total[Memory(k)][u]
      BY <1>4, <1>8, <1>10
    <3>3. SharesIn("scatter", at, s_base, s_total, tile_left) /\ j \in 1 .. Ups
      BY <1>1, <1>4, <1>5
    <3> QED BY <1>3, <1>7, <2>1, <3>1, <3>2, <3>3, Halving
  <2> QED BY <1>3, <1>5, <1>8, <1>10, <2>1, SharesStep
<1>12. FlagsIn(pass, at', s_flag)
  <2>1. \A x \in 0 .. Ups : i # LeadOf(pass) + (2 * x + 1)
    BY <1>4
  <2> QED BY <1>3, <1>5, <2>1, FlagsKept
<1>13. AddsIn(pass, at', add)
  <2>1. \A x \in 1 .. Ups : i # LeadOf(pass) + 2 * x
    BY <1>4
  <2> QED BY <1>3, <1>5, <2>1, AddsKept
<1>14. TakenIn(pass, at', base, n_left)
  <2>1. i # LeadOf(pass) + 1
    BY <1>4
  <2> QED BY <1>3, <1>5, <2>1, TakenKept
<1>15. ResultsIn(pass, at', tile_left, seg_left, out)
  <2>1. i # LastOf(pass) /\ i # LeadOf(pass) + 1
    BY <1>4
  <2> QED BY <1>3, <1>5, <1>6, <2>1, ResultsKept
<1>16. TypesIn(pass, at', s_flag, s_base', s_total', add, base, n_left, tile_left, seg_left, out)
  BY <1>5, <1>6, <1>10 DEF TypesIn
<1>17. CubesIn(pass, at', s_flag, s_base', s_total', add, base, n_left, tile_left)
  BY <1>5, <1>11, <1>12, <1>13, <1>14 DEF CubesIn
<1> QED BY <1>1, <1>15, <1>16, <1>17 DEF TileInvNext

(* What the reduction ends with: the left rows before the tile in its       *)
(* segment, and all of the segment's.                                      *)
LEMMA Joined ==
  ASSUME Given, launch.coop, tile_left \in [Tiles -> Int], NEW a, TotalsIn("scatter", a, tile_left),
         NEW k \in Tiles, NEW sb, NEW st, JoinedIn(sb, st, tile_left, k, 0, Ups)
  PROVE  sb[Memory(k)][0] = LeftTo(k, 0) /\ st[Memory(k)][0] = AllLeft(k)
<1>1. \A n \in Tiles : TotalIs(n)
  BY DEF TotalsIn, CountedIn, TotalIs
<1>2. Part(k, 0, Ups) = TilesOf(SegOf(k))
  BY SharesJoin
<1>3. PartBefore(k, 0, Ups) = {t \in TilesOf(SegOf(k)) : t < k}
  BY <1>2 DEF PartBefore
<1> QED BY <1>1, <1>2, <1>3, TotalsAdd DEF JoinedIn

(* The first unit has them when a unit of the scatter writes its flag.     *)
LEMMA FirstHasAll ==
  ASSUME Given, launch.coop, NEW a, NEW k, NEW u, NEW i, i = 1 + (1 + Ups), NEW b,
         Stepped("scatter", a, k, u, i, b), NEW sb, NEW st, NEW tl, SharesIn("scatter", a, sb, st, tl)
  PROVE  JoinedIn(sb, st, tl, k, 0, Ups)
<1>1. Ups \in Nat /\ Ups \in 0 .. Ups /\ i - 1 = 1 + Ups /\ Ups - Ups = 0
  BY Intervals
<1>2. k \in Tiles /\ WorksIn("scatter", a, k) /\ \A v \in Units : a[k][v] = i - 1 \/ a[k][v] = i
  BY DEF Stepped
<1>3. 0 \in Units
  BY BlockOfLaunch
<1>4. a[k][0] >= 1 + Ups
  BY <1>1, <1>2, <1>3
<1>5. 0 < Doubled[Ups - Ups]
  BY <1>1, DoubledIs
<1>6. LeftBy(a, k, 0, Ups)
  BY <1>4, <1>5 DEF LeftBy
<1> QED BY <1>1, <1>2, <1>3, <1>6 DEF SharesIn

(* The flag, the joined sums and the segment's total.                      *)
LEMMA WriteFlagKeeps ==
  ASSUME TileInv, WriteFlag
  PROVE  TileInvNext /\ UNCHANGED fixed
<1>1. /\ pass' = pass /\ UNCHANGED fixed /\ s_base' = s_base /\ s_total' = s_total /\ add' = add
      /\ tile_left' = tile_left /\ out' = out
  BY DEF WriteFlag, fixed
<1>2. PICK k \in Tiles, u \in Units :
        /\ Step(k, u, Lead + 1)
        /\ s_flag' = [s_flag EXCEPT ![Memory(k)][u] = Flag(k, u)]
        /\ IF pass = "count"
           THEN UNCHANGED <<base, n_left, seg_left>>
           ELSE /\ base' = [base EXCEPT ![k][u] = s_base[Memory(k)][0]]
                /\ n_left' = [n_left EXCEPT ![k][u] = s_total[Memory(k)][0]]
                /\ seg_left' = IF k = FirstTile(SegOf(k)) /\ u = 0
                               THEN [seg_left EXCEPT ![SegOf(k)] = s_total[Memory(k)][0]]
                               ELSE seg_left
  BY DEF WriteFlag
<1>3. Given /\ launch.coop
  BY <1>2 DEF TileInv, Step
<1>4. PICK n \in Nat, L \in Nat, i \in Nat \ {0} :
        /\ n = Ups /\ L = LeadOf(pass) /\ L = Lead /\ i = L + 1
        /\ (pass = "scatter" => L = 1 + n)
        /\ LastOf(pass) = L + (2 * n + 2) /\ i <= LastOf(pass)
  <2>1. Lead = LeadOf(pass)
    BY DEF Lead, LeadOf
  <2>2. Ups \in Nat /\ LeadOf(pass) \in Nat /\ LastOf(pass) = LeadOf(pass) + (2 * Ups + 2)
        /\ LeadOf(pass) = IF pass = "count" THEN 0 ELSE 1 + Ups
    BY <1>3, Intervals
  <2> QED BY <2>1, <2>2
<1>5. /\ Stepped(pass, at, k, u, i, at') /\ at' \in Ats /\ pass \in {"count", "scatter"}
      /\ TogetherIn(pass, at') /\ InTurnIn(pass, at')
      /\ FlagsIn(pass, at, s_flag) /\ AddsIn(pass, at, add)
      /\ SharesIn(pass, at, s_base, s_total, tile_left) /\ TakenIn(pass, at, base, n_left)
  <2>1. Step(k, u, i)
    BY <1>2, <1>4
  <2> QED BY <1>4, <2>1, Taking
<1>6. /\ TypesIn(pass, at, s_flag, s_base, s_total, add, base, n_left, tile_left, seg_left, out)
      /\ ResultsIn(pass, at, tile_left, seg_left, out)
  BY DEF TileInv
<1>7. /\ tile_left \in [Tiles -> Int] /\ s_flag \in Shared /\ s_base \in Shared /\ s_total \in Shared
      /\ base \in Registers /\ n_left \in Registers /\ seg_left \in [Segs -> Int]
  BY <1>6 DEF TypesIn
<1>8. PICK m \in Memories, e \in Int : m = Memory(k) /\ e = Flag(k, u) /\ e = Window(k, u, 1)
  <2>1. Memory(k) \in Memories
    BY DEF Memories
  <2>2. u \in Nat
    BY <1>3, BlockOfLaunch DEF Offsets
  <2>3. Flag(k, u) \in Int /\ Flag(k, u) = Window(k, u, 1)
    BY <1>3, <2>2, LeftStep, WindowDoubles
  <2> QED BY <2>1, <2>3
<1>9. s_flag' \in Shared /\ OneIn(Memories, s_flag', s_flag, m, u) /\ s_flag'[m][u] = e
  BY <1>2, <1>7, <1>8 DEF Shared, OneIn
<1>10. FlagsIn(pass, at', s_flag')
  <2>1. ASSUME NEW j \in 0 .. Ups, i \in {LeadOf(pass) + (2 * j + 1), LeadOf(pass) + (2 * j + 2)}
        PROVE  s_flag'[m][u] = Window(k, u, Doubled[j])
    <3>1. j = 0
      BY <1>4, <2>1
    <3> QED BY <1>8, <1>9, <3>1, DoubledIs
  <2> QED BY <1>3, <1>5, <1>8, <1>9, <2>1, FlagsStep
<1>11. AddsIn(pass, at', add)
  <2>1. \A j \in 1 .. Ups : i # LeadOf(pass) + 2 * j
    BY <1>4
  <2> QED BY <1>3, <1>5, <2>1, AddsKept
<1>12. SharesIn(pass, at', s_base, s_total, tile_left)
  <2>1. pass = "scatter" => i > 1 + Ups
    BY <1>4
  <2> QED BY <1>3, <1>5, <2>1, SharesKept
<1>13. /\ base' \in Registers /\ n_left' \in Registers /\ seg_left' \in [Segs -> Int]
       /\ TakenIn(pass, at', base', n_left')
       /\ ResultsIn(pass, at', tile_left, seg_left', out)
  <2>1. CASE pass = "count"
    <3>1. base' = base /\ n_left' = n_left /\ seg_left' = seg_left
      BY <1>2, <2>1
    <3>2. i # LastOf(pass)
      BY <1>4
    <3>3. TakenIn(pass, at', base, n_left)
      BY <1>3, <1>5, <2>1, TakenKept
    <3>4. ResultsIn(pass, at', tile_left, seg_left, out)
      BY <1>3, <1>5, <1>6, <2>1, <3>2, ResultsKept
    <3> QED BY <1>7, <3>1, <3>3, <3>4
  <2>2. CASE pass = "scatter"
    <3>1. TotalsIn(pass, at, tile_left) /\ ToldIn(pass, at, seg_left) /\ SentIn(pass, at, out) /\ EdgesIn(out)
      BY <1>6 DEF ResultsIn
    <3>2. s_base[m][0] = LeftTo(k, 0) /\ s_total[m][0] = AllLeft(k)
      <4>1. i = 1 + (1 + Ups)
        BY <1>4, <2>2
      <4>2. JoinedIn(s_base, s_total, tile_left, k, 0, Ups)
        BY <1>3, <1>5, <2>2, <4>1, FirstHasAll
      <4> QED BY <1>3, <1>7, <1>8, <2>2, <3>1, <4>2, Joined
    <3>3. PICK x \in Int, y \in Int : x = s_base[m][0] /\ y = s_total[m][0]
      BY <1>3, <1>7, BlockOfLaunch DEF Shared
    <3>4. base' = [base EXCEPT ![k][u] = x] /\ n_left' = [n_left EXCEPT ![k][u] = y]
          /\ seg_left' = IF k = FirstTile(SegOf(k)) /\ u = 0 THEN [seg_left EXCEPT ![SegOf(k)] = y]
                         ELSE seg_left
      BY <1>2, <1>8, <2>2, <3>3
    <3>5. base' \in Registers /\ OneIn(Tiles, base', base, k, u) /\ base'[k][u] = x
      BY <1>7, <3>4 DEF Registers, OneIn
    <3>6. n_left' \in Registers /\ OneIn(Tiles, n_left', n_left, k, u) /\ n_left'[k][u] = y
      BY <1>7, <3>4 DEF Registers, OneIn
    <3>7. TakenIn(pass, at', base', n_left')
      BY <1>3, <1>5, <3>2, <3>3, <3>5, <3>6, TakenStep
    <3>8. PICK z \in Segs : z = SegOf(k)
      BY <1>3, TilesLaid DEF TileIs
    <3>9. seg_left' \in [Segs -> Int]
      BY <1>7, <3>4, <3>8
    <3>10. i # LastOf(pass)
      BY <1>4
    <3>11. /\ \A s \in Segs : ToldOf(pass, at', s) =>
                ToldOf(pass, at, s) \/ (k = FirstTile(s) /\ s = SegOf(k) /\ u = 0)
           /\ \A p \in Tiles : CountedIn(pass, at', p) => CountedIn(pass, at, p)
           /\ \A p \in Tiles, v \in Offsets : SentOf(pass, at', p, v) => SentOf(pass, at, p, v)
      BY <1>3, <1>5, <3>10, <2>2, ResultsStep
    <3>12. TotalsIn(pass, at', tile_left)
      BY <3>1, <3>11 DEF TotalsIn
    <3>13. SentIn(pass, at', out)
      BY <3>1, <3>11 DEF SentIn
    <3>14. ToldIn(pass, at', seg_left')
      <4> SUFFICES ASSUME NEW s \in Segs, ToldOf(pass, at', s)
                   PROVE  seg_left'[s] = Left(s, Begin(s + 1))
        BY DEF ToldIn
      <4>1. CASE k = FirstTile(z) /\ u = 0 /\ s = z
        <5>1. seg_left'[s] = y
          BY <1>7, <3>4, <3>8, <4>1
        <5>2. y = Left(s, Begin(s + 1))
          BY <3>2, <3>3, <3>8, <4>1 DEF AllLeft
        <5> QED BY <5>1, <5>2
      <4>2. CASE ~(k = FirstTile(z) /\ u = 0 /\ s = z)
        <5>1. seg_left'[s] = seg_left[s]
          BY <1>7, <3>4, <3>8, <4>2
        <5>2. ToldOf(pass, at, s)
          BY <3>8, <3>11, <4>2
        <5> QED BY <3>1, <5>1, <5>2 DEF ToldIn
      <4> QED BY <4>1, <4>2
    <3> QED BY <3>1, <3>5, <3>6, <3>7, <3>9, <3>12, <3>13, <3>14 DEF ResultsIn
  <2> QED BY <1>5, <2>1, <2>2
<1>14. TypesIn(pass, at', s_flag', s_base, s_total, add, base', n_left', tile_left, seg_left', out)
  BY <1>5, <1>6, <1>9, <1>13 DEF TypesIn
<1>15. CubesIn(pass, at', s_flag', s_base, s_total, add, base', n_left', tile_left)
  BY <1>5, <1>10, <1>11, <1>12, <1>13 DEF CubesIn
<1> QED BY <1>1, <1>13, <1>14, <1>15 DEF TileInvNext

(* A stride of the scan is read.                                           *)
LEMMA ScanReadKeeps ==
  ASSUME TileInv, ScanRead
  PROVE  TileInvNext /\ UNCHANGED fixed
<1>1. /\ pass' = pass /\ UNCHANGED fixed /\ s_flag' = s_flag /\ s_base' = s_base /\ s_total' = s_total
      /\ base' = base /\ n_left' = n_left
      /\ tile_left' = tile_left /\ seg_left' = seg_left /\ out' = out
  BY DEF ScanRead, fixed, shared
<1>2. PICK k \in Tiles, u \in Units, j \in 1 .. Ups :
        LET d == Doubled[j - 1]
        IN /\ Step(k, u, Lead + 2 * j)
           /\ add' = [add EXCEPT ![k][u] = IF u >= d THEN s_flag[Memory(k)][u - d] ELSE 0]
  BY DEF ScanRead
<1>3. Given /\ launch.coop
  BY <1>2 DEF TileInv, Step
<1>4. PICK n \in Nat, L \in Nat, i \in Nat \ {0}, c \in Nat :
        /\ n = Ups /\ L = LeadOf(pass) /\ L = Lead /\ i = L + 2 * j /\ j \in 1 .. n /\ c = j - 1 /\ c \in 0 .. n
        /\ (pass = "scatter" => L = 1 + n)
        /\ LastOf(pass) = L + (2 * n + 2) /\ i <= LastOf(pass)
  <2>1. Lead = LeadOf(pass)
    BY DEF Lead, LeadOf
  <2>2. Ups \in Nat /\ LeadOf(pass) \in Nat /\ LastOf(pass) = LeadOf(pass) + (2 * Ups + 2)
        /\ LeadOf(pass) = IF pass = "count" THEN 0 ELSE 1 + Ups
    BY <1>3, Intervals
  <2> QED BY <2>1, <2>2
<1>5. /\ Stepped(pass, at, k, u, i, at') /\ at' \in Ats /\ pass \in {"count", "scatter"}
      /\ TogetherIn(pass, at') /\ InTurnIn(pass, at')
      /\ FlagsIn(pass, at, s_flag) /\ AddsIn(pass, at, add)
      /\ SharesIn(pass, at, s_base, s_total, tile_left) /\ TakenIn(pass, at, base, n_left)
  <2>1. Step(k, u, i)
    BY <1>2, <1>4
  <2> QED BY <1>4, <2>1, Taking
<1>6. /\ TypesIn(pass, at, s_flag, s_base, s_total, add, base, n_left, tile_left, seg_left, out)
      /\ ResultsIn(pass, at, tile_left, seg_left, out)
  BY DEF TileInv
<1>7. s_flag \in Shared /\ add \in Registers
  BY <1>6 DEF TypesIn
<1>8. PICK m \in Memories, d \in Nat : m = Memory(k) /\ d = Doubled[j - 1]
  BY <1>4, DoubledRises DEF Memories
<1>9. PICK x \in Int :
        x = (IF u >= d THEN s_flag[m][u - d] ELSE 0) /\ x = Behind(k, u, Doubled[j - 1])
  <2>1. Units = 0 .. Block - 1 /\ Block \in Nat
    BY <1>3, BlockOfLaunch DEF Offsets
  <2>2. CASE u >= d
    <3>1. PICK v \in Units : v = u - d
      BY <1>8, <2>1, <2>2
    <3>2. at[k][v] = i - 1 \/ at[k][v] = i
      BY <1>5 DEF Stepped
    <3>3. at[k][v] \in {L + (2 * c + 1), L + (2 * c + 2)}
      BY <1>4, <3>2
    <3>4. s_flag[m][v] = Window(k, v, d)
      <4>1. WorksIn(pass, at, k)
        BY <1>5 DEF Stepped
      <4>2. \A y \in 0 .. Ups :
              at[k][v] \in {LeadOf(pass) + (2 * y + 1), LeadOf(pass) + (2 * y + 2)} =>
                s_flag[Memory(k)][v] = Window(k, v, Doubled[y])
        BY <1>5, <4>1 DEF FlagsIn
      <4> QED BY <1>4, <1>8, <3>3, <4>2
    <3>5. s_flag[m][v] \in Int
      BY <1>7 DEF Shared
    <3>6. Behind(k, u, d) = Window(k, v, d)
      BY <2>2, <3>1 DEF Behind
    <3> QED BY <1>8, <2>2, <3>1, <3>4, <3>5, <3>6
  <2>3. CASE ~(u >= d)
    BY <1>8, <2>3 DEF Behind
  <2> QED BY <2>2, <2>3
<1>10. add' \in Registers /\ OneIn(Tiles, add', add, k, u) /\ add'[k][u] = x
  <2>1. add' = [add EXCEPT ![k][u] = x]
    BY <1>2, <1>8, <1>9
  <2> QED BY <1>7, <2>1 DEF Registers, OneIn
<1>11. AddsIn(pass, at', add')
  <2>1. ASSUME NEW y \in 1 .. Ups, i = LeadOf(pass) + 2 * y
        PROVE  add'[k][u] = Behind(k, u, Doubled[y - 1])
    <3>1. y = j
      BY <1>4, <2>1
    <3> QED BY <1>9, <1>10, <3>1
  <2> QED BY <1>3, <1>5, <1>10, <2>1, AddsStep
<1>12. FlagsIn(pass, at', s_flag)
  <2>1. \A y \in 0 .. Ups : i # LeadOf(pass) + (2 * y + 1)
    BY <1>4
  <2> QED BY <1>3, <1>5, <2>1, FlagsKept
<1>13. SharesIn(pass, at', s_base, s_total, tile_left)
  <2>1. pass = "scatter" => i > 1 + Ups
    BY <1>4
  <2> QED BY <1>3, <1>5, <2>1, SharesKept
<1>14. TakenIn(pass, at', base, n_left) /\ ResultsIn(pass, at', tile_left, seg_left, out)
  <2>1. i # LastOf(pass) /\ i # LeadOf(pass) + 1
    BY <1>4
  <2>2. TakenIn(pass, at', base, n_left)
    BY <1>3, <1>5, <2>1, TakenKept
  <2>3. ResultsIn(pass, at', tile_left, seg_left, out)
    BY <1>3, <1>5, <1>6, <2>1, ResultsKept
  <2> QED BY <2>2, <2>3
<1>15. TypesIn(pass, at', s_flag, s_base, s_total, add', base, n_left, tile_left, seg_left, out)
  BY <1>5, <1>6, <1>10 DEF TypesIn
<1>16. CubesIn(pass, at', s_flag, s_base, s_total, add', base, n_left, tile_left)
  BY <1>5, <1>11, <1>12, <1>13, <1>14 DEF CubesIn
<1> QED BY <1>1, <1>14, <1>15, <1>16 DEF TileInvNext

(* And added.                                                              *)
LEMMA ScanAddKeeps ==
  ASSUME TileInv, ScanAdd
  PROVE  TileInvNext /\ UNCHANGED fixed
<1>1. /\ pass' = pass /\ UNCHANGED fixed /\ s_base' = s_base /\ s_total' = s_total
      /\ add' = add /\ base' = base /\ n_left' = n_left
      /\ tile_left' = tile_left /\ seg_left' = seg_left /\ out' = out
  BY DEF ScanAdd, fixed, registers
<1>2. PICK k \in Tiles, u \in Units, j \in 1 .. Ups :
        /\ Step(k, u, Lead + 2 * j + 1)
        /\ s_flag' = [s_flag EXCEPT ![Memory(k)][u] = @ + add[k][u]]
  BY DEF ScanAdd
<1>3. Given /\ launch.coop
  BY <1>2 DEF TileInv, Step
<1>4. PICK n \in Nat, L \in Nat, i \in Nat \ {0}, c \in Nat :
        /\ n = Ups /\ L = LeadOf(pass) /\ L = Lead /\ i = L + (2 * j + 1) /\ j \in 1 .. n /\ c = j - 1 /\ c \in 0 .. n
        /\ i = Lead + 2 * j + 1
        /\ (pass = "scatter" => L = 1 + n)
        /\ LastOf(pass) = L + (2 * n + 2) /\ i <= LastOf(pass)
  <2>1. Lead = LeadOf(pass)
    BY DEF Lead, LeadOf
  <2>2. Ups \in Nat /\ LeadOf(pass) \in Nat /\ LastOf(pass) = LeadOf(pass) + (2 * Ups + 2)
        /\ LeadOf(pass) = IF pass = "count" THEN 0 ELSE 1 + Ups
    BY <1>3, Intervals
  <2> QED BY <2>1, <2>2
<1>5. /\ Stepped(pass, at, k, u, i, at') /\ at' \in Ats /\ pass \in {"count", "scatter"}
      /\ TogetherIn(pass, at') /\ InTurnIn(pass, at')
      /\ FlagsIn(pass, at, s_flag) /\ AddsIn(pass, at, add)
      /\ SharesIn(pass, at, s_base, s_total, tile_left) /\ TakenIn(pass, at, base, n_left)
  <2>1. Step(k, u, i)
    BY <1>2, <1>4
  <2> QED BY <1>4, <2>1, Taking
<1>6. /\ TypesIn(pass, at, s_flag, s_base, s_total, add, base, n_left, tile_left, seg_left, out)
      /\ ResultsIn(pass, at, tile_left, seg_left, out)
  BY DEF TileInv
<1>7. s_flag \in Shared /\ add \in Registers
  BY <1>6 DEF TypesIn
<1>8. PICK m \in Memories, d \in Nat \ {0} :
        m = Memory(k) /\ d = Doubled[c] /\ d = Doubled[j - 1] /\ 2 * d = Doubled[j]
  <2>1. c \in Nat /\ c + 1 = j /\ j - 1 = c
    BY <1>4
  <2>2. Doubled[c] \in Nat \ {0} /\ Doubled[c + 1] = 2 * Doubled[c]
    BY <2>1, DoubledIs, DoubledRises
  <2> QED BY <2>1, <2>2 DEF Memories
<1>9. s_flag[m][u] = Window(k, u, d) /\ add[k][u] = Behind(k, u, d)
  <2>1. at[k][u] = i - 1 /\ WorksIn(pass, at, k)
    BY <1>5 DEF Stepped
  <2>2. at[k][u] = L + (2 * c + 2) /\ at[k][u] = L + 2 * j
    BY <1>4, <2>1
  <2>3. \A y \in 0 .. Ups :
          at[k][u] \in {LeadOf(pass) + (2 * y + 1), LeadOf(pass) + (2 * y + 2)} =>
            s_flag[Memory(k)][u] = Window(k, u, Doubled[y])
    BY <1>5, <2>1 DEF FlagsIn
  <2>4. \A y \in 1 .. Ups : at[k][u] = LeadOf(pass) + 2 * y => add[k][u] = Behind(k, u, Doubled[y - 1])
    BY <1>5 DEF AddsIn
  <2>5. s_flag[m][u] = Window(k, u, d)
    BY <1>4, <1>8, <2>2, <2>3
  <2>6. add[k][u] = Behind(k, u, d)
    BY <1>4, <1>8, <2>2, <2>4
  <2> QED BY <2>5, <2>6
<1>10. PICK x \in Int : x = s_flag[m][u] + add[k][u] /\ x = Window(k, u, Doubled[j])
  <2>1. u \in Nat
    BY <1>3, BlockOfLaunch DEF Offsets
  <2>2. Window(k, u, 2 * d) = Window(k, u, d) + Behind(k, u, d)
        /\ Window(k, u, d) \in Int /\ Behind(k, u, d) \in Int
    BY <1>3, <2>1, WindowDoubles
  <2> QED BY <1>8, <1>9, <2>2
<1>11. s_flag' \in Shared /\ OneIn(Memories, s_flag', s_flag, m, u) /\ s_flag'[m][u] = x
  <2>1. s_flag' = [s_flag EXCEPT ![m][u] = x]
    BY <1>2, <1>7, <1>8, <1>10 DEF Shared
  <2> QED BY <1>7, <2>1 DEF Shared, OneIn
<1>12. FlagsIn(pass, at', s_flag')
  <2>1. ASSUME NEW y \in 0 .. Ups, i \in {LeadOf(pass) + (2 * y + 1), LeadOf(pass) + (2 * y + 2)}
        PROVE  s_flag'[m][u] = Window(k, u, Doubled[y])
    <3>1. y = j
      BY <1>4, <2>1
    <3> QED BY <1>10, <1>11, <3>1
  <2> QED BY <1>3, <1>5, <1>8, <1>11, <2>1, FlagsStep
<1>13. AddsIn(pass, at', add)
  <2>1. \A y \in 1 .. Ups : i # LeadOf(pass) + 2 * y
    BY <1>4
  <2> QED BY <1>3, <1>5, <2>1, AddsKept
<1>14. SharesIn(pass, at', s_base, s_total, tile_left)
  <2>1. pass = "scatter" => i > 1 + Ups
    BY <1>4
  <2> QED BY <1>3, <1>5, <2>1, SharesKept
<1>15. TakenIn(pass, at', base, n_left) /\ ResultsIn(pass, at', tile_left, seg_left, out)
  <2>1. i # LastOf(pass) /\ i # LeadOf(pass) + 1
    BY <1>4
  <2>2. TakenIn(pass, at', base, n_left)
    BY <1>3, <1>5, <2>1, TakenKept
  <2>3. ResultsIn(pass, at', tile_left, seg_left, out)
    BY <1>3, <1>5, <1>6, <2>1, ResultsKept
  <2> QED BY <2>2, <2>3
<1>16. TypesIn(pass, at', s_flag', s_base, s_total, add, base, n_left, tile_left, seg_left, out)
  BY <1>5, <1>6, <1>11 DEF TypesIn
<1>17. CubesIn(pass, at', s_flag', s_base, s_total, add, base, n_left, tile_left)
  BY <1>5, <1>12, <1>13, <1>14, <1>15 DEF CubesIn
<1> QED BY <1>1, <1>15, <1>16, <1>17 DEF TileInvNext

(* With the sums, the slot of a row is its place.                          *)
LEMMA SlotsArePlaces ==
  ASSUME Given, NEW k \in Tiles, NEW u \in Offsets, Live(k, u), NEW x, NEW y, NEW r,
         x = LeftTo(k, 0), y = AllLeft(k), r = LeftTo(k, u) - LeftTo(k, 0)
  PROVE  ScatterSlot(k, u, x, y, r) = SlotOf(k, u)
<1>1. u \in Nat
  BY BlockOfLaunch DEF Offsets
<1>2. PICK s \in Segs, p \in Slice(SegOf(k)), o \in Nat :
        /\ s = SegOf(k) /\ p = RowOf(k, u) /\ o = Off(k, u) /\ p = Begin(s) + o /\ p \in Slice(s)
  BY <1>1, LiveRow
<1>3. Begin(s) \in Nat /\ Begin(s + 1) \in Nat /\ Begin(s) <= Begin(s + 1) /\ p \in Positions
  BY <1>2, SlicesApart
<1>4. y \in Nat /\ y = Left(s, Begin(s + 1))
  <2>1. Begin(s + 1) \in Int /\ Begin(s) <= Begin(s + 1) /\ Begin(s + 1) <= Begin(s + 1)
    BY <1>3
  <2>2. PICK e \in Int : e = Begin(s + 1)
    BY <2>1
  <2>3. Grows(s, e, e)
    BY <2>1, <2>2, LeftGrows
  <2> QED BY <1>2, <2>2, <2>3 DEF Grows, AllLeft
<1>5. PICK z \in Nat : z = LeftTo(k, u) /\ z = Left(s, p) /\ x \in Nat /\ r = z - x
  <2>1. LeftTo(k, u) \in Nat /\ LeftTo(k, 0) \in Nat
    BY <1>1, LeftStep
  <2> QED BY <1>2, <2>1 DEF LeftTo, Upto
<1>6. goes_left[p] \in BOOLEAN /\ (Flag(k, u) = 1 <=> goes_left[p])
  BY <1>2, <1>3 DEF Given, Flag
<1>7. CASE goes_left[p]
  <2>1. ScatterSlot(k, u, x, y, r) = Begin(s) + x + r
    BY <1>2, <1>6, <1>7 DEF ScatterSlot
  <2>2. SlotOf(k, u) = Begin(s) + z
    BY <1>2, <1>5, <1>7 DEF SlotOf, Place
  <2> QED BY <1>3, <1>5, <2>1, <2>2
<1>8. CASE ~goes_left[p]
  <2>1. ScatterSlot(k, u, x, y, r) = Begin(s) + y + (o - x) - r
    BY <1>2, <1>6, <1>8 DEF ScatterSlot
  <2>2. SlotOf(k, u) = Begin(s) + y + ((p - Begin(s)) - z)
    BY <1>2, <1>4, <1>5, <1>8 DEF SlotOf, Place
  <2> QED BY <1>2, <1>3, <1>4, <1>5, <2>1, <2>2
<1> QED BY <1>6, <1>7, <1>8

CountedTo(f, k, u) == f[Memory(k)][u] = LeftTo(k, u + 1) - LeftTo(k, 0)

(* Before its last interval a unit's flag has become the number of left     *)
(* rows of its tile up to its own.                                         *)
LEMMA Scanned ==
  ASSUME Given, launch.coop, NEW kn, NEW a, NEW k, NEW u, NEW i, i = LastOf(kn), NEW b,
         Stepped(kn, a, k, u, i, b), NEW f, FlagsIn(kn, a, f)
  PROVE  CountedTo(f, k, u)
<1>1. PICK n \in Nat, L \in Nat : n = Ups /\ L = LeadOf(kn) /\ LastOf(kn) = L + (2 * n + 2) /\ n \in 0 .. Ups
  BY Intervals
<1>2. k \in Tiles /\ u \in Units /\ a[k][u] = i - 1 /\ WorksIn(kn, a, k)
  BY DEF Stepped
<1>3. a[k][u] = L + (2 * n + 1)
  BY <1>1, <1>2
<1>4. f[Memory(k)][u] = Window(k, u, Doubled[n])
  BY <1>1, <1>2, <1>3 DEF FlagsIn
<1>5. PICK d \in Nat \ {0} : d = Block /\ d = Doubled[n] /\ Units = 0 .. d - 1
  BY <1>1, BlockOfLaunch DEF Offsets
<1>6. u \in Nat /\ u < d
  BY <1>2, <1>5
<1>7. Window(k, u, d) = LeftTo(k, u + 1) - LeftTo(k, 0)
  BY <1>2, <1>6, WindowDoubles
<1> QED BY <1>4, <1>5, <1>7 DEF CountedTo

(* What the last interval of a unit leaves.                                *)
LEMMA LastKept ==
  ASSUME Given, launch.coop, NEW kn, NEW a, NEW k, NEW u, NEW i, NEW b, Stepped(kn, a, k, u, i, b),
         i = LastOf(kn), TogetherIn(kn, b), InTurnIn(kn, b),
         NEW f, NEW sb, NEW st, NEW ad, NEW ba, NEW nl, NEW tl,
         FlagsIn(kn, a, f), AddsIn(kn, a, ad), SharesIn(kn, a, sb, st, tl), TakenIn(kn, a, ba, nl)
  PROVE  CubesIn(kn, b, f, sb, st, ad, ba, nl, tl)
<1>1. PICK n \in Nat, L \in Nat :
        /\ n = Ups /\ L = LeadOf(kn) /\ i = L + (2 * n + 2)
        /\ (kn = "scatter" => L = 1 + n)
  BY Intervals
<1>2. FlagsIn(kn, b, f)
  <2>1. \A j \in 0 .. Ups : i # LeadOf(kn) + (2 * j + 1)
    BY <1>1
  <2> QED BY <2>1, FlagsKept
<1>3. AddsIn(kn, b, ad)
  <2>1. \A j \in 1 .. Ups : i # LeadOf(kn) + 2 * j
    BY <1>1
  <2> QED BY <2>1, AddsKept
<1>4. SharesIn(kn, b, sb, st, tl)
  <2>1. kn = "scatter" => i > 1 + Ups
    BY <1>1
  <2> QED BY <2>1, SharesKept
<1>5. TakenIn(kn, b, ba, nl)
  <2>1. i # LeadOf(kn) + 1
    BY <1>1
  <2> QED BY <2>1, TakenKept
<1> QED BY <1>2, <1>3, <1>4, <1>5 DEF CubesIn

(* The last unit writes the tile's count.                                  *)
LEMMA WriteCountKeeps ==
  ASSUME TileInv, WriteCount
  PROVE  TileInvNext /\ UNCHANGED fixed
<1>1. /\ pass = "count" /\ pass' = pass /\ UNCHANGED fixed
      /\ s_flag' = s_flag /\ s_base' = s_base /\ s_total' = s_total
      /\ add' = add /\ base' = base /\ n_left' = n_left /\ seg_left' = seg_left /\ out' = out
  BY DEF WriteCount, fixed, shared, registers
<1>2. PICK k \in Tiles, u \in Units :
        /\ Step(k, u, LastInterval)
        /\ tile_left' = IF u = Block - 1 THEN [tile_left EXCEPT ![k] = s_flag[Memory(k)][u]]
                                         ELSE tile_left
  BY DEF WriteCount
<1>3. Given /\ launch.coop
  BY <1>2 DEF TileInv, Step
<1>4. PICK i \in Nat \ {0} : i = LastOf(pass) /\ i = LastInterval /\ i # LeadOf(pass) + 1
  <2>1. LastInterval = LastOf(pass)
    BY DEF LastInterval, LastOf, Lead, LeadOf
  <2>2. Ups \in Nat /\ LeadOf(pass) \in Nat /\ LastOf(pass) = LeadOf(pass) + (2 * Ups + 2)
    BY <1>3, Intervals
  <2> QED BY <2>1, <2>2
<1>5. /\ Stepped(pass, at, k, u, i, at') /\ at' \in Ats
      /\ TogetherIn(pass, at') /\ InTurnIn(pass, at')
      /\ FlagsIn(pass, at, s_flag) /\ AddsIn(pass, at, add)
      /\ SharesIn(pass, at, s_base, s_total, tile_left) /\ TakenIn(pass, at, base, n_left)
  <2>1. Step(k, u, i) /\ i <= LastOf(pass)
    BY <1>2, <1>4
  <2> QED BY <1>4, <2>1, Taking
<1>6. /\ TypesIn(pass, at, s_flag, s_base, s_total, add, base, n_left, tile_left, seg_left, out)
      /\ ResultsIn(pass, at, tile_left, seg_left, out)
  BY DEF TileInv
<1>7. s_flag \in Shared /\ tile_left \in [Tiles -> Int]
  BY <1>6 DEF TypesIn
<1>8. PICK x \in Int : x = s_flag[Memory(k)][u] /\ (u = Block - 1 => x = LeftTo(k, Block) - LeftTo(k, 0))
  <2>1. s_flag[Memory(k)][u] = LeftTo(k, u + 1) - LeftTo(k, 0)
    <3>1. CountedTo(s_flag, k, u)
      BY <1>3, <1>4, <1>5, Scanned
    <3> QED BY <3>1 DEF CountedTo
  <2>2. s_flag[Memory(k)][u] \in Int
    BY <1>7 DEF Shared, Memories
  <2>3. u = Block - 1 => u + 1 = Block
    BY <1>3, BlockOfLaunch
  <2> QED BY <2>1, <2>2, <2>3
<1>9. /\ tile_left' \in [Tiles -> Int]
      /\ \A n \in Tiles : n # k \/ u # Block - 1 => tile_left'[n] = tile_left[n]
      /\ u = Block - 1 => tile_left'[k] = x
  <2>1. tile_left' = IF u = Block - 1 THEN [tile_left EXCEPT ![k] = x] ELSE tile_left
    BY <1>2, <1>8
  <2> QED BY <1>7, <2>1
<1>10. CubesIn(pass, at', s_flag, s_base, s_total, add, base, n_left, tile_left')
  <2>1. SharesIn(pass, at, s_base, s_total, tile_left')
    BY <1>1 DEF SharesIn
  <2> QED BY <1>3, <1>4, <1>5, <2>1, LastKept
<1>11. ResultsIn(pass, at', tile_left', seg_left, out)
  <2>1. TotalsIn(pass, at, tile_left) /\ ToldIn(pass, at, seg_left) /\ SentIn(pass, at, out) /\ EdgesIn(out)
    BY <1>6 DEF ResultsIn
  <2>2. /\ \A s \in Segs : ToldOf(pass, at', s) => ToldOf(pass, at, s)
        /\ \A n \in Tiles : CountedIn(pass, at', n) =>
                              CountedIn(pass, at, n) \/ (n = k /\ u = Block - 1)
        /\ \A n \in Tiles, v \in Offsets : SentOf(pass, at', n, v) => SentOf(pass, at, n, v)
    BY <1>1, <1>3, <1>5, ResultsStep
  <2>3. TotalsIn(pass, at', tile_left')
    <3> SUFFICES ASSUME NEW n \in Tiles, CountedIn(pass, at', n)
                 PROVE  tile_left'[n] = LeftTo(n, Block) - LeftTo(n, 0)
      BY DEF TotalsIn
    <3>1. CASE n = k /\ u = Block - 1
      BY <1>8, <1>9, <3>1
    <3>2. CASE ~(n = k /\ u = Block - 1)
      <4>1. tile_left'[n] = tile_left[n]
        BY <1>9, <3>2
      <4> QED BY <2>1, <2>2, <3>2, <4>1 DEF TotalsIn
    <3> QED BY <3>1, <3>2
  <2>4. ToldIn(pass, at', seg_left)
    BY <2>1, <2>2 DEF ToldIn
  <2>5. SentIn(pass, at', out)
    BY <2>1, <2>2 DEF SentIn
  <2> QED BY <2>1, <2>3, <2>4, <2>5 DEF ResultsIn
<1>12. TypesIn(pass, at', s_flag, s_base, s_total, add, base, n_left, tile_left', seg_left, out)
  BY <1>5, <1>6, <1>9 DEF TypesIn
<1> QED BY <1>1, <1>10, <1>11, <1>12 DEF TileInvNext

(* A unit's row is scattered.                                              *)
LEMMA ScatterKeeps ==
  ASSUME TileInv, Scatter
  PROVE  TileInvNext /\ UNCHANGED fixed
<1>1. /\ pass = "scatter" /\ pass' = pass /\ UNCHANGED fixed
      /\ s_flag' = s_flag /\ s_base' = s_base /\ s_total' = s_total
      /\ add' = add /\ base' = base /\ n_left' = n_left
      /\ tile_left' = tile_left /\ seg_left' = seg_left
  BY DEF Scatter, fixed, shared, registers
<1>2. PICK k \in Tiles, u \in Units :
        /\ Step(k, u, LastInterval)
        /\ LET rank == s_flag[Memory(k)][u] - Flag(k, u)
           IN out' = IF Live(k, u)
                     THEN [out EXCEPT ![ScatterSlot(k, u, base[k][u], n_left[k][u], rank)] =
                             RowOf(k, u)]
                     ELSE out
  BY DEF Scatter
<1>3. Given /\ launch.coop
  BY <1>2 DEF TileInv, Step
<1>4. PICK i \in Nat \ {0} : /\ i = LastOf(pass) /\ i = LastInterval /\ i # LeadOf(pass) + 1
                             /\ i - 1 > LeadOf(pass)
  <2>1. LastInterval = LastOf(pass)
    BY DEF LastInterval, LastOf, Lead, LeadOf
  <2>2. Ups \in Nat /\ LeadOf(pass) \in Nat /\ LastOf(pass) = LeadOf(pass) + (2 * Ups + 2)
    BY <1>3, Intervals
  <2> QED BY <2>1, <2>2
<1>5. /\ Stepped(pass, at, k, u, i, at') /\ at' \in Ats
      /\ TogetherIn(pass, at') /\ InTurnIn(pass, at')
      /\ FlagsIn(pass, at, s_flag) /\ AddsIn(pass, at, add)
      /\ SharesIn(pass, at, s_base, s_total, tile_left) /\ TakenIn(pass, at, base, n_left)
  <2>1. Step(k, u, i) /\ i <= LastOf(pass)
    BY <1>2, <1>4
  <2> QED BY <1>4, <2>1, Taking
<1>6. /\ TypesIn(pass, at, s_flag, s_base, s_total, add, base, n_left, tile_left, seg_left, out)
      /\ ResultsIn(pass, at, tile_left, seg_left, out)
  BY DEF TileInv
<1>7. out \in [Positions -> Int] /\ u \in Offsets /\ u \in Nat
  BY <1>3, <1>6, BlockOfLaunch DEF TypesIn, Offsets
<1>8. Live(k, u) => out' = [out EXCEPT ![SlotOf(k, u)] = RowOf(k, u)]
  <2> SUFFICES ASSUME Live(k, u) PROVE out' = [out EXCEPT ![SlotOf(k, u)] = RowOf(k, u)]
    OBVIOUS
  <2>1. s_flag[Memory(k)][u] = LeftTo(k, u + 1) - LeftTo(k, 0)
    <3>1. CountedTo(s_flag, k, u)
      BY <1>3, <1>4, <1>5, Scanned
    <3> QED BY <3>1 DEF CountedTo
  <2>2. /\ LeftTo(k, u) \in Nat /\ LeftTo(k, 0) \in Nat /\ Flag(k, u) \in {0, 1}
        /\ LeftTo(k, u + 1) = LeftTo(k, u) + Flag(k, u)
    BY <1>3, <1>7, LeftStep
  <2>3. PICK r : r = s_flag[Memory(k)][u] - Flag(k, u)
    OBVIOUS
  <2>4. r = LeftTo(k, u) - LeftTo(k, 0)
    BY <2>1, <2>2, <2>3
  <2>5. PICK x, y : x = base[k][u] /\ y = n_left[k][u]
    OBVIOUS
  <2>6. x = LeftTo(k, 0) /\ y = AllLeft(k)
    <3>1. at[k][u] > LeadOf(pass)
      BY <1>4, <1>5 DEF Stepped
    <3> QED BY <1>1, <1>5, <2>5, <3>1 DEF TakenIn
  <2>7. ScatterSlot(k, u, x, y, r) = SlotOf(k, u)
    BY <1>3, <1>7, <2>4, <2>6, SlotsArePlaces
  <2> QED BY <1>2, <2>3, <2>5, <2>7
<1>9. ~Live(k, u) => out' = out
  BY <1>2
<1>10. CubesIn(pass, at', s_flag, s_base, s_total, add, base, n_left, tile_left)
  BY <1>3, <1>4, <1>5, LastKept
<1>11. out' \in [Positions -> Int] /\ ResultsIn(pass, at', tile_left, seg_left, out')
  <2>1. TotalsIn(pass, at, tile_left) /\ ToldIn(pass, at, seg_left) /\ SentIn(pass, at, out) /\ EdgesIn(out)
    BY <1>6 DEF ResultsIn
  <2>2. /\ \A s \in Segs : ToldOf(pass, at', s) => ToldOf(pass, at, s)
        /\ \A n \in Tiles : CountedIn(pass, at', n) => CountedIn(pass, at, n)
        /\ \A n \in Tiles, v \in Offsets : SentOf(pass, at', n, v) =>
                                             SentOf(pass, at, n, v) \/ (n = k /\ v = u)
    BY <1>1, <1>3, <1>4, <1>5, ResultsStep
  <2>3. TotalsIn(pass, at', tile_left) /\ ToldIn(pass, at', seg_left)
    BY <2>1, <2>2 DEF TotalsIn, ToldIn
  <2>4. /\ out' \in [Positions -> Int]
        /\ Live(k, u) => out'[SlotOf(k, u)] = RowOf(k, u)
        /\ \A n \in Tiles, v \in Offsets :
             Live(n, v) /\ out[SlotOf(n, v)] = RowOf(n, v) => out'[SlotOf(n, v)] = RowOf(n, v)
        /\ EdgesIn(out')
    <3>1. CASE Live(k, u)
      <4>1. RowSentIn(out, k, u, out')
        BY <1>3, <1>7, <1>8, <3>1, RowSent
      <4> QED BY <2>1, <3>1, <4>1 DEF RowSentIn
    <3>2. CASE ~Live(k, u)
      BY <1>7, <1>9, <2>1, <3>2
    <3> QED BY <3>1, <3>2
  <2>5. SentIn(pass, at', out')
    BY <2>1, <2>2, <2>4 DEF SentIn
  <2> QED BY <2>3, <2>4, <2>5 DEF ResultsIn
<1>12. TypesIn(pass, at', s_flag, s_base, s_total, add, base, n_left, tile_left, seg_left, out')
  BY <1>5, <1>6, <1>11 DEF TypesIn
<1> QED BY <1>1, <1>10, <1>11, <1>12 DEF TileInvNext

OnIn(a, k, b) ==
  /\ b \in Ats /\ a[k][0] \in Nat /\ b[k][0] = a[k][0] + 1
  /\ \A n \in Tiles : n # k => b[n][0] = a[n][0]

(* One unit goes one further in its tile.                                  *)
LEMMA WalkedOn ==
  ASSUME Given, ~launch.coop, NEW a \in Ats, NEW k \in Tiles, NEW b, b = [a EXCEPT ![k][0] = @ + 1]
  PROVE  OnIn(a, k, b)
<1>1. 0 \in Units /\ Units = {0}
  BY DEF Units
<1>2. \A n \in Tiles : a[n] \in [Units -> Nat] /\ a[n][0] \in Nat
  BY <1>1 DEF Ats
<1>3. a[k][0] + 1 \in Nat
  BY <1>2
<1> QED BY <1>1, <1>2, <1>3 DEF Ats, OnIn

(* A tile is counted by one unit.                                          *)
LEMMA CountSerialKeeps ==
  ASSUME TileInv, CountSerial
  PROVE  TileInvNext /\ UNCHANGED fixed
<1>1. /\ pass = "count" /\ pass' = pass /\ UNCHANGED fixed /\ ~launch.coop
      /\ s_flag' = s_flag /\ s_base' = s_base /\ s_total' = s_total
      /\ add' = add /\ base' = base /\ n_left' = n_left /\ seg_left' = seg_left /\ out' = out
  BY DEF CountSerial, fixed, shared, registers
<1>2. PICK k \in Tiles :
        /\ at[k][0] = 0
        /\ at' = [at EXCEPT ![k][0] = @ + 1]
        /\ tile_left' = [tile_left EXCEPT ![k] = LeftBefore(k, Block)]
  BY DEF CountSerial, Advance
<1>3. /\ Given
      /\ TypesIn(pass, at, s_flag, s_base, s_total, add, base, n_left, tile_left, seg_left, out)
      /\ ResultsIn(pass, at, tile_left, seg_left, out)
  BY DEF TileInv
<1>4. at \in Ats /\ tile_left \in [Tiles -> Int]
  BY <1>3 DEF TypesIn
<1>5. /\ at' \in Ats /\ at'[k][0] = 1
      /\ \A n \in Tiles : n # k => at'[n][0] = at[n][0]
  <2>1. OnIn(at, k, at')
    BY <1>1, <1>2, <1>3, <1>4, WalkedOn
  <2> QED BY <1>2, <2>1 DEF OnIn
<1>6. PICK x \in Int : x = LeftBefore(k, Block) /\ x = LeftTo(k, Block) - LeftTo(k, 0)
  <2>1. Block \in Nat /\ Block <= Block
    BY <1>3, BlockOfLaunch
  <2>2. LeftBefore(k, Block) = LeftTo(k, Block) - LeftTo(k, 0)
    BY <1>3, <2>1, SerialCounts
  <2>3. LeftTo(k, Block) \in Nat /\ LeftTo(k, 0) \in Nat
    BY <1>3, <2>1, LeftStep
  <2> QED BY <2>2, <2>3
<1>7. /\ tile_left' \in [Tiles -> Int] /\ tile_left'[k] = x
      /\ \A n \in Tiles : n # k => tile_left'[n] = tile_left[n]
  BY <1>2, <1>4, <1>6
<1>8. ResultsIn(pass, at', tile_left', seg_left, out)
  <2>1. TotalsIn(pass, at, tile_left) /\ EdgesIn(out)
    BY <1>3 DEF ResultsIn
  <2>2. TotalsIn(pass, at', tile_left')
    <3> SUFFICES ASSUME NEW n \in Tiles, CountedIn(pass, at', n)
                 PROVE  tile_left'[n] = LeftTo(n, Block) - LeftTo(n, 0)
      BY DEF TotalsIn
    <3>1. CASE n = k
      BY <1>6, <1>7, <3>1
    <3>2. CASE n # k
      <4>1. CountedIn(pass, at, n)
        BY <1>1, <1>5, <3>2 DEF CountedIn
      <4> QED BY <1>7, <2>1, <3>2, <4>1 DEF TotalsIn
    <3> QED BY <3>1, <3>2
  <2>3. ToldIn(pass, at', seg_left) /\ SentIn(pass, at', out)
    BY <1>1 DEF ToldIn, ToldOf, SentIn, SentOf
  <2> QED BY <2>1, <2>2, <2>3 DEF ResultsIn
<1>9. TypesIn(pass, at', s_flag, s_base, s_total, add, base, n_left, tile_left', seg_left, out)
  BY <1>3, <1>5, <1>7 DEF TypesIn
<1>10. CubesIn(pass, at', s_flag, s_base, s_total, add, base, n_left, tile_left')
  BY <1>1 DEF CubesIn
<1> QED BY <1>1, <1>8, <1>9, <1>10 DEF TileInvNext

(* And scattered by one, the total first.                                  *)
LEMMA ScatterSerialKeeps ==
  ASSUME TileInv, ScatterSerial
  PROVE  TileInvNext /\ UNCHANGED fixed
<1>1. /\ pass = "scatter" /\ pass' = pass /\ UNCHANGED fixed /\ ~launch.coop
      /\ s_flag' = s_flag /\ s_base' = s_base /\ s_total' = s_total
      /\ add' = add /\ base' = base /\ n_left' = n_left /\ tile_left' = tile_left
  BY DEF ScatterSerial, fixed, shared, registers
<1>2. PICK k \in Tiles :
       LET s == SegOf(k)
           total == SumOf(tile_left, TilesOf(s))
           tile_base == SumOf(tile_left, {t \in TilesOf(s) : t < k})
           u == at[k][0] - 1
       IN /\ u < Cardinality(TileOffsets(k))
          /\ Advance(k, 0)
          /\ IF u < 0
             THEN /\ seg_left' = IF k = FirstTile(s) THEN [seg_left EXCEPT ![s] = total]
                                 ELSE seg_left
                  /\ UNCHANGED out
             ELSE /\ out' = [out EXCEPT ![ScatterSlot(k, u, tile_base, total, LeftBefore(k, u))] =
                               RowOf(k, u)]
                  /\ UNCHANGED seg_left
  BY DEF ScatterSerial
<1>3. /\ Given
      /\ TypesIn(pass, at, s_flag, s_base, s_total, add, base, n_left, tile_left, seg_left, out)
      /\ ResultsIn(pass, at, tile_left, seg_left, out)
  BY DEF TileInv
<1>4. /\ at \in Ats /\ tile_left \in [Tiles -> Int] /\ seg_left \in [Segs -> Int]
      /\ out \in [Positions -> Int]
  BY <1>3 DEF TypesIn
<1>5. TotalsIn(pass, at, tile_left) /\ ToldIn(pass, at, seg_left) /\ SentIn(pass, at, out) /\ EdgesIn(out)
  BY <1>3 DEF ResultsIn
<1>6. PICK s \in Segs, u \in Int, c \in Nat :
        /\ s = SegOf(k) /\ u = at[k][0] - 1 /\ at[k][0] = u + 1 /\ at[k][0] \in Nat
        /\ c = Cardinality(TileOffsets(k)) /\ TileOffsets(k) = 0 .. c - 1
  <2>1. SegOf(k) \in Segs
    BY <1>3, TilesLaid DEF TileIs
  <2>2. at[k][0] \in Nat
    <3>1. 0 \in Units
      BY <1>3, BlockOfLaunch
    <3> QED BY <1>4, <3>1 DEF Ats
  <2>3. Cardinality(TileOffsets(k)) \in Nat /\ TileOffsets(k) = 0 .. Cardinality(TileOffsets(k)) - 1
    BY <1>3, SerialCounts
  <2>4. PICK u \in Int : u = at[k][0] - 1 /\ at[k][0] = u + 1
    BY <2>2
  <2> QED BY <2>1, <2>2, <2>3, <2>4
<1>6a. PICK x, y : /\ x = SumOf(tile_left, {t \in TilesOf(s) : t < k})
                  /\ y = SumOf(tile_left, TilesOf(s))
  OBVIOUS
<1>7. /\ u < c /\ at' = [at EXCEPT ![k][0] = @ + 1]
      /\ u < 0 => /\ seg_left' = IF k = FirstTile(s) THEN [seg_left EXCEPT ![s] = y] ELSE seg_left
                  /\ out' = out
      /\ ~(u < 0) => /\ out' = [out EXCEPT ![ScatterSlot(k, u, x, y, LeftBefore(k, u))] = RowOf(k, u)]
                     /\ seg_left' = seg_left
  BY <1>2, <1>6, <1>6a DEF Advance
<1>8. /\ at' \in Ats /\ at'[k][0] = u + 2
      /\ \A n \in Tiles : n # k => at'[n][0] = at[n][0]
  <2>1. OnIn(at, k, at')
    BY <1>1, <1>3, <1>4, <1>7, WalkedOn
  <2>2. (u + 1) + 1 = u + 2
    OBVIOUS
  <2> QED BY <1>6, <2>1, <2>2 DEF OnIn
<1>9. x = LeftTo(k, 0) /\ y = AllLeft(k) /\ y = Left(s, Begin(s + 1)) /\ y \in Int
  <2>1. \A n \in Tiles : TotalIs(n)
    BY <1>1, <1>5 DEF TotalsIn, CountedIn, TotalIs
  <2>2. x = LeftTo(k, 0) /\ y = AllLeft(k)
    BY <1>3, <1>4, <1>6, <1>6a, <2>1, TotalsAdd
  <2>3. y = Left(s, Begin(s + 1))
    BY <1>6, <2>2 DEF AllLeft
  <2>4. PICK e \in Int : e = Begin(s + 1) /\ Begin(s) <= e
    BY <1>3, SlicesApart
  <2>5. Grows(s, e, e)
    BY <1>3, <2>4, LeftGrows
  <2> QED BY <2>2, <2>3, <2>4, <2>5 DEF Grows
<1>10. TotalsIn(pass, at', tile_left)
  BY <1>1, <1>5 DEF TotalsIn, CountedIn
<1>11. ASSUME NEW t \in Segs, ToldOf(pass, at', t)
       PROVE  ToldOf(pass, at, t) \/ (u < 0 /\ k = FirstTile(t) /\ t = s)
  <2>1. at'[FirstTile(t)][0] > 0
    BY <1>1, <1>11 DEF ToldOf
  <2>2. FirstTile(t) \in Tiles /\ SegOf(FirstTile(t)) = t
    <3>1. FirstTile(t) \in TilesOf(t)
      BY <1>3, TilesLaid DEF SegTiles, TilesOf, Tiled
    <3> QED BY <1>3, <3>1, TilesLaid DEF SegTiles
  <2>3. CASE FirstTile(t) = k
    <3>1. t = s
      BY <1>6, <2>2, <2>3
    <3>2. u < 0 \/ at[k][0] > 0
      BY <1>6
    <3> QED BY <1>1, <2>3, <3>1, <3>2 DEF ToldOf
  <2>4. CASE FirstTile(t) # k
    BY <1>1, <1>8, <2>1, <2>2, <2>4 DEF ToldOf
  <2> QED BY <2>3, <2>4
<1>12. ASSUME NEW n \in Tiles, NEW v \in Offsets, SentOf(pass, at', n, v)
       PROVE  SentOf(pass, at, n, v) \/ (~(u < 0) /\ n = k /\ v = u)
  <2>1. v + 1 < at'[n][0] /\ v \in Nat
    BY <1>1, <1>3, <1>12, BlockOfLaunch DEF SentOf, Offsets
  <2>2. CASE n = k
    <3>1. v + 1 < at[k][0] \/ (~(u < 0) /\ v = u)
      BY <1>6, <1>8, <2>1, <2>2
    <3> QED BY <1>1, <2>2, <3>1 DEF SentOf
  <2>3. CASE n # k
    BY <1>1, <1>8, <2>1, <2>3 DEF SentOf
  <2> QED BY <2>2, <2>3
<1>13. /\ seg_left' \in [Segs -> Int] /\ out' \in [Positions -> Int]
       /\ ToldIn(pass, at', seg_left') /\ SentIn(pass, at', out') /\ EdgesIn(out')
  <2>1. CASE u < 0
    <3>1. out' = out /\ seg_left' = IF k = FirstTile(s) THEN [seg_left EXCEPT ![s] = y] ELSE seg_left
      BY <1>7, <2>1
    <3>2. seg_left' \in [Segs -> Int]
      BY <1>4, <1>9, <3>1
    <3>3. SentIn(pass, at', out)
      BY <1>5, <1>12, <2>1 DEF SentIn
    <3>4. ToldIn(pass, at', seg_left')
      <4> SUFFICES ASSUME NEW t \in Segs, ToldOf(pass, at', t)
                   PROVE  seg_left'[t] = Left(t, Begin(t + 1))
        BY DEF ToldIn
      <4>1. CASE k = FirstTile(t) /\ t = s
        BY <1>4, <1>9, <3>1, <4>1
      <4>2. CASE ~(k = FirstTile(t) /\ t = s)
        <5>1. ToldOf(pass, at, t)
          BY <1>11, <4>2
        <5>2. seg_left'[t] = seg_left[t]
          BY <1>4, <3>1, <4>2
        <5> QED BY <1>5, <5>1, <5>2 DEF ToldIn
      <4> QED BY <4>1, <4>2
    <3> QED BY <1>4, <1>5, <3>1, <3>2, <3>3, <3>4
  <2>2. CASE ~(u < 0)
    <3>1. /\ seg_left' = seg_left
          /\ out' = [out EXCEPT ![ScatterSlot(k, u, x, y, LeftBefore(k, u))] = RowOf(k, u)]
      BY <1>7, <2>2
    <3>2. u \in Nat /\ u \in Offsets /\ Live(k, u) /\ u <= Block
      <4>1. u \in TileOffsets(k) /\ u \in Nat
        <5>1. u < c /\ ~(u < 0) /\ u \in Int /\ c \in Nat
          BY <1>7, <2>2
        <5>2. u \in 0 .. c - 1 /\ u \in Nat
          BY <5>1
        <5> QED BY <1>6, <5>2
      <4> QED BY <1>3, <4>1, BlockOfLaunch DEF TileOffsets, Offsets
    <3>3. PICK r : r = LeftBefore(k, u) /\ r = LeftTo(k, u) - LeftTo(k, 0)
      BY <1>3, <3>2, SerialCounts
    <3>4. ScatterSlot(k, u, x, y, r) = SlotOf(k, u)
      BY <1>3, <1>9, <3>2, <3>3, SlotsArePlaces
    <3>5. out' = [out EXCEPT ![SlotOf(k, u)] = RowOf(k, u)]
      BY <3>1, <3>3, <3>4
    <3>6. /\ out' \in [Positions -> Int]
          /\ out'[SlotOf(k, u)] = RowOf(k, u)
          /\ \A n \in Tiles, v \in Offsets :
               Live(n, v) /\ out[SlotOf(n, v)] = RowOf(n, v) => out'[SlotOf(n, v)] = RowOf(n, v)
          /\ EdgesIn(out')
      <4>1. Given /\ out \in [Positions -> Int] /\ EdgesIn(out)
        BY <1>3, <1>4, <1>5
      <4>2. u \in Offsets /\ Live(k, u)
        BY <3>2
      <4>3. RowSentIn(out, k, u, out')
        BY <3>5, <4>1, <4>2, RowSent
      <4> QED BY <4>1, <4>3 DEF RowSentIn
    <3>7. SentIn(pass, at', out')
      BY <1>5, <1>12, <3>6 DEF SentIn
    <3>8. ToldIn(pass, at', seg_left)
      BY <1>5, <1>11, <2>2 DEF ToldIn
    <3> QED BY <1>4, <3>1, <3>6, <3>7, <3>8
  <2> QED BY <2>1, <2>2
<1>14. TypesIn(pass, at', s_flag, s_base, s_total, add, base, n_left, tile_left, seg_left', out')
  BY <1>3, <1>8, <1>13 DEF TypesIn
<1>15. CubesIn(pass, at', s_flag, s_base, s_total, add, base, n_left, tile_left)
  BY <1>1 DEF CubesIn
<1>16. ResultsIn(pass, at', tile_left, seg_left', out')
  BY <1>10, <1>13 DEF ResultsIn
<1> QED BY <1>1, <1>14, <1>15, <1>16 DEF TileInvNext

(* A launch ends when all of its tiles have, and the next begins.          *)
LEMMA EndLaunchKeeps ==
  ASSUME TileInv, EndLaunch
  PROVE  TileInvNext /\ UNCHANGED fixed
<1>1. /\ pass # "done" /\ \A k \in Tiles, u \in Units : Finished(k, u)
      /\ pass' = (IF pass = "count" THEN "scatter" ELSE "done")
      /\ at' = [k \in Tiles |-> [u \in Units |-> 0]]
      /\ UNCHANGED fixed /\ s_flag' = s_flag /\ s_base' = s_base /\ s_total' = s_total
      /\ add' = add /\ base' = base /\ n_left' = n_left
      /\ tile_left' = tile_left /\ seg_left' = seg_left /\ out' = out
  BY DEF EndLaunch, fixed, shared, registers
<1>2. /\ Given
      /\ TypesIn(pass, at, s_flag, s_base, s_total, add, base, n_left, tile_left, seg_left, out)
      /\ ResultsIn(pass, at, tile_left, seg_left, out)
  BY DEF TileInv
<1>3. TotalsIn(pass, at, tile_left) /\ ToldIn(pass, at, seg_left) /\ SentIn(pass, at, out) /\ EdgesIn(out)
  BY <1>2 DEF ResultsIn
<1>4. PICK kn, b : kn = pass' /\ b = at' /\ kn = (IF pass = "count" THEN "scatter" ELSE "done")
                   /\ b = [k \in Tiles |-> [u \in Units |-> 0]]
  BY <1>1
<1>5. b \in Ats /\ \A k \in Tiles, u \in Units : b[k][u] = 0
  BY <1>4 DEF Ats
<1>6. TypesIn(kn, b, s_flag, s_base, s_total, add, base, n_left, tile_left, seg_left, out)
  BY <1>2, <1>4, <1>5 DEF TypesIn
<1>7. CubesIn(kn, b, s_flag, s_base, s_total, add, base, n_left, tile_left)
  BY <1>2, <1>5, NothingDone
<1>8. /\ 0 \in Units /\ launch.coop \in BOOLEAN
      /\ launch.coop => /\ Block - 1 \in Units /\ Units = Offsets
                        /\ LastInterval = LastOf(pass) /\ LeadOf(pass) \in Nat
                        /\ LastOf(pass) \in Nat /\ LastOf(pass) > LeadOf(pass)
                        /\ LeadOf(kn) \in Nat /\ LastOf(kn) \in Nat /\ LastOf(kn) > 0
      /\ ~launch.coop => Units = {0}
  <2>1. 0 \in Units /\ launch.coop \in BOOLEAN /\ (launch.coop => Block - 1 \in Units /\ Units = Offsets)
    BY <1>2, BlockOfLaunch
  <2>2. ASSUME launch.coop
        PROVE  /\ LastInterval = LastOf(pass) /\ LeadOf(pass) \in Nat
               /\ LastOf(pass) \in Nat /\ LastOf(pass) > LeadOf(pass)
               /\ LeadOf(kn) \in Nat /\ LastOf(kn) \in Nat /\ LastOf(kn) > 0
    <3>1. LastInterval = LastOf(pass)
      BY DEF LastInterval, LastOf, Lead, LeadOf
    <3>2. /\ Ups \in Nat /\ LeadOf(pass) \in Nat /\ LastOf(pass) = LeadOf(pass) + (2 * Ups + 2)
          /\ LeadOf(kn) \in Nat /\ LastOf(kn) = LeadOf(kn) + (2 * Ups + 2)
      BY <1>2, <2>2, Intervals
    <3> QED BY <3>1, <3>2
  <2> QED BY <2>1, <2>2 DEF Units
<1>9. \A k \in Tiles, u \in Units :
        IF launch.coop THEN at[k][u] = LastOf(pass)
        ELSE at[k][u] = 1 + (IF pass = "scatter" THEN Cardinality(TileOffsets(k)) ELSE 0)
  BY <1>1, <1>8 DEF Finished
<1>10. CASE pass = "count"
  <2>1. kn = "scatter"
    BY <1>4, <1>10
  <2>2. \A k \in Tiles : CountedIn(pass, at, k)
    BY <1>8, <1>9, <1>10 DEF CountedIn
  <2>3. TotalsIn(kn, b, tile_left)
    BY <1>3, <2>2 DEF TotalsIn
  <2>4. ToldIn(kn, b, seg_left)
    <3>1. ASSUME NEW s \in Segs PROVE ~ToldOf(kn, b, s)
      <4>1. FirstTile(s) \in Tiles
        BY <1>2, TilesLaid DEF SegTiles, TilesOf, Tiled
      <4>2. b[FirstTile(s)][0] = 0
        BY <1>5, <1>8, <4>1
      <4> QED BY <1>8, <2>1, <4>2 DEF ToldOf
    <3> QED BY <3>1 DEF ToldIn
  <2>5. SentIn(kn, b, out)
    <3>1. ASSUME NEW k \in Tiles, NEW u \in Offsets PROVE ~SentOf(kn, b, k, u)
      <4>1. CASE launch.coop
        BY <1>5, <1>8, <2>1, <4>1 DEF SentOf
      <4>2. CASE ~launch.coop
        <5>1. b[k][0] = 0 /\ u \in Nat
          BY <1>2, <1>5, <1>8, BlockOfLaunch DEF Offsets
        <5> QED BY <2>1, <4>2, <5>1 DEF SentOf
      <4> QED BY <4>1, <4>2
    <3> QED BY <3>1 DEF SentIn
  <2>6. ResultsIn(kn, b, tile_left, seg_left, out)
    BY <1>3, <2>3, <2>4, <2>5 DEF ResultsIn
  <2> QED BY <1>1, <1>4, <1>6, <1>7, <2>6 DEF TileInvNext
<1>11. CASE pass = "scatter"
  <2>1. kn = "done"
    BY <1>4, <1>11
  <2>2. TotalsIn(kn, b, tile_left)
    BY <1>3, <1>11 DEF TotalsIn, CountedIn
  <2>3. ToldIn(kn, b, seg_left)
    <3>1. ASSUME NEW s \in Segs PROVE ToldOf(pass, at, s)
      <4>1. FirstTile(s) \in Tiles
        BY <1>2, TilesLaid DEF SegTiles, TilesOf, Tiled
      <4>2. CASE launch.coop
        BY <1>8, <1>9, <1>11, <4>1, <4>2 DEF ToldOf
      <4>3. CASE ~launch.coop
        <5>1. PICK k \in Tiles, c \in Nat : k = FirstTile(s) /\ c = Cardinality(TileOffsets(k))
          BY <1>2, <4>1, SerialCounts
        <5>2. at[k][0] = 1 + c
          BY <1>8, <1>9, <1>11, <4>3, <5>1
        <5> QED BY <1>11, <4>3, <5>1, <5>2 DEF ToldOf
      <4> QED BY <4>2, <4>3
    <3> QED BY <1>3, <3>1 DEF ToldIn
  <2>4. SentIn(kn, b, out)
    <3>1. ASSUME NEW k \in Tiles, NEW u \in Offsets, Live(k, u) PROVE SentOf(pass, at, k, u)
      <4>1. CASE launch.coop
        BY <1>8, <1>9, <1>11, <4>1 DEF SentOf
      <4>2. CASE ~launch.coop
        <5>1. PICK c \in Nat : c = Cardinality(TileOffsets(k)) /\ TileOffsets(k) = 0 .. c - 1
          BY <1>2, SerialCounts
        <5>2. at[k][0] = 1 + c
          BY <1>8, <1>9, <1>11, <4>2, <5>1
        <5>3. u \in TileOffsets(k)
          BY <3>1 DEF TileOffsets, Offsets
        <5>4. u + 1 < 1 + c
          <6>1. u \in 0 .. c - 1
            BY <5>1, <5>3
          <6> QED BY <5>1, <6>1
        <5> QED BY <1>11, <4>2, <5>2, <5>4 DEF SentOf
      <4> QED BY <4>1, <4>2
    <3> QED BY <1>3, <3>1 DEF SentIn
  <2>5. ResultsIn(kn, b, tile_left, seg_left, out)
    BY <1>3, <2>2, <2>3, <2>4 DEF ResultsIn
  <2> QED BY <1>1, <1>4, <1>6, <1>7, <2>5 DEF TileInvNext
<1> QED BY <1>1, <1>2, <1>10, <1>11 DEF TypesIn

(* The invariant holds after any step.                                     *)
LEMMA TileKeeps ==
  ASSUME TileInv, [Next]_vars
  PROVE  TileInv'
<1>1. Given
  BY DEF TileInv
<1>2. TileInvNext /\ UNCHANGED fixed
  <2>1. CASE SumCounts
    BY <2>1, SumCountsKeeps
  <2>2. CASE Reduce
    BY <2>2, ReduceKeeps
  <2>3. CASE WriteFlag
    BY <2>3, WriteFlagKeeps
  <2>4. CASE ScanRead
    BY <2>4, ScanReadKeeps
  <2>5. CASE ScanAdd
    BY <2>5, ScanAddKeeps
  <2>6. CASE WriteCount
    BY <2>6, WriteCountKeeps
  <2>7. CASE Scatter
    BY <2>7, ScatterKeeps
  <2>8. CASE CountSerial
    BY <2>8, CountSerialKeeps
  <2>9. CASE ScatterSerial
    BY <2>9, ScatterSerialKeeps
  <2>10. CASE EndLaunch
    BY <2>10, EndLaunchKeeps
  <2>11. CASE UNCHANGED vars
    <3>1. /\ UNCHANGED fixed /\ pass' = pass /\ at' = at /\ s_flag' = s_flag /\ s_base' = s_base
          /\ s_total' = s_total /\ add' = add /\ base' = base /\ n_left' = n_left
          /\ tile_left' = tile_left /\ seg_left' = seg_left /\ out' = out
      BY <2>11 DEF vars, fixed, shared, registers
    <3> QED BY <3>1 DEF TileInv, TileInvNext
  <2> QED BY <2>1, <2>2, <2>3, <2>4, <2>5, <2>6, <2>7, <2>8, <2>9, <2>10, <2>11 DEF Next, Run, Done
<1> QED BY <1>1, <1>2, TileInvPrimed

(* When the scatter has ended every row of a segment is in its place.      *)
LEMMA AllPlaced ==
  ASSUME TileInv
  PROVE  StablePartition
<1> SUFFICES ASSUME pass = "done"
             PROVE  /\ \A s \in Segs : Stably(s, out, seg_left[s])
                    /\ out[0] = None /\ out[LastPosition] = None
  BY DEF StablePartition
<1>1. Given /\ ToldIn(pass, at, seg_left) /\ SentIn(pass, at, out) /\ EdgesIn(out)
  BY DEF TileInv, ResultsIn
<1>2. ASSUME NEW s \in Segs PROVE Stably(s, out, seg_left[s])
  <2>1. PICK count : count = seg_left[s] /\ count = Left(s, Begin(s + 1))
    BY <1>1 DEF ToldIn, ToldOf
  <2>2. ASSUME NEW p \in Slice(s) PROVE out[Place(s, p)] = p
    <3>1. PICK k \in Tiles, u \in Offsets : SegOf(k) = s /\ Live(k, u) /\ RowOf(k, u) = p
      BY <1>1, EveryRow
    <3>2. out[SlotOf(k, u)] = RowOf(k, u)
      BY <1>1, <3>1 DEF SentIn, SentOf
    <3> QED BY <3>1, <3>2 DEF SlotOf
  <2>3. Stably(s, out, count)
    BY <1>1, <2>1, <2>2, Placed
  <2> QED BY <2>1, <2>3
<1> QED BY <1>1, <1>2 DEF EdgesIn

-----------------------------------------------------------------------------
(* The theorems about the device's partition. *)

(* What a launch leaves in shared memory, in registers and in the tables,  *)
(* interval by interval and with any order of the units between two        *)
(* barriers, is what the next interval takes it to be.                     *)
THEOREM TileInvariant == Spec => []TileInv
<1>1. Init => TileInv
  BY TileBegins
<1>2. TileInv /\ [Next]_vars => TileInv'
  BY TileKeeps
<1> QED BY <1>1, <1>2, PTL DEF Spec

(* count_tile_kernel and scatter_tile_kernel leave each segment stably     *)
(* partitioned, the left rows in their order before the right ones in      *)
(* theirs, with its left rows counted and nothing written elsewhere: for   *)
(* any segments and width of a cube, with barriers or with one unit a      *)
(* tile, and with the cubes side by side or in turn in one memory.         *)
THEOREM DevicePartitionStable == Spec => []StablePartition
<1>1. TileInv => StablePartition
  BY AllPlaced
<1> QED BY <1>1, TileInvariant, PTL

(* The host's partition of the same segments disturbs none of it.          *)
THEOREM DeviceBesideHost == HostSpec => []StablePartition
<1>1. HostInit => TileInv
  BY TileBegins DEF HostInit
<1>2. [HostNext]_<<vars, host>> => [Next]_vars
  <2>1. CASE Run /\ UNCHANGED host
    BY <2>1 DEF Next
  <2>2. CASE CountBlock \/ ScatterRow \/ CopyBack \/ PartitionSmall
    BY <2>2 DEF CountBlock, ScatterRow, CopyBack, PartitionSmall
  <2>3. CASE UNCHANGED <<vars, host>>
    BY <2>3
  <2> QED BY <2>1, <2>2, <2>3 DEF HostNext
<1>3. TileInv /\ [Next]_vars => TileInv'
  BY TileKeeps
<1>4. TileInv => StablePartition
  BY AllPlaced
<1> QED BY <1>1, <1>2, <1>3, <1>4, PTL DEF HostSpec

=============================================================================
