------------------------------ MODULE Fractions ------------------------------
(* Exact fractions <<numerator, denominator>>, in lowest terms.            *)
EXTENDS Integers

gcd[e \in Nat \X Nat] == IF e[2] = 0 THEN e[1] ELSE gcd[<<e[2], e[1] % e[2]>>]
Gcd(a, b) == gcd[<<a, b>>]
Size(n) == IF n < 0 THEN -n ELSE n

Frac(n, d) ==
  LET g == Gcd(Size(n), Size(d))
      s == IF d < 0 THEN -1 ELSE 1
  IN <<(s * n) \div g, (s * d) \div g>>

(* Numerators over the least common denominator.                           *)
Lifted(a, b) == a[1] * (b[2] \div Gcd(a[2], b[2]))

Zero == <<0, 1>>
Plus(a, b) == Frac(Lifted(a, b) + Lifted(b, a), a[2] * (b[2] \div Gcd(a[2], b[2])))
Minus(a, b) == Frac(Lifted(a, b) - Lifted(b, a), a[2] * (b[2] \div Gcd(a[2], b[2])))
Times(a, b) == Frac(a[1] * b[1], a[2] * b[2])
Scaled(n, a) == Frac(n * a[1], a[2])
Magnitude(a) == <<Size(a[1]), a[2]>>
Below(a, b) == Lifted(a, b) < Lifted(b, a)
AtMost(a, b) == Lifted(a, b) <= Lifted(b, a)
=============================================================================
