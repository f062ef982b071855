------------------------------ MODULE Fractions ------------------------------
(***************************************************************************)
(* Exact arithmetic for what the programs of this directory compute with   *)
(* floating point numbers.  A fraction is in lowest terms, and NaN, which  *)
(* is no number and makes every result NaN, is the one over nought.        *)
(***************************************************************************)
EXTENDS Integers

NaN == [num |-> 0, den |-> 0]

IsNaN(q) == q.den = 0

gcd[p \in Nat \X Nat] == IF p[2] = 0 THEN p[1] ELSE gcd[<<p[2], p[1] % p[2]>>]

\* The fraction of two integers; nothing divided by nothing, or by nought, is NaN.
Ratio(a, b) ==
    IF b = 0 THEN NaN
    ELSE LET s == IF b < 0 THEN -1 ELSE 1
             g == gcd[<<IF a < 0 THEN -a ELSE a, s * b>>]
         IN  [num |-> (s * a) \div g, den |-> (s * b) \div g]

Whole(n) == [num |-> n, den |-> 1]
Zero == Whole(0)
One == Whole(1)

Add(p, q) == Ratio(p.num * q.den + q.num * p.den, p.den * q.den)
Subtract(p, q) == Ratio(p.num * q.den - q.num * p.den, p.den * q.den)
Times(p, q) == Ratio(p.num * q.num, p.den * q.den)
Over(p, q) == IF IsNaN(q) THEN NaN ELSE Ratio(p.num * q.den, p.den * q.num)

AtMost(p, q) == p.num * q.den <= q.num * p.den
Smaller(p, q) == IF AtMost(p, q) THEN p ELSE q
Greater(p, q) == IF AtMost(p, q) THEN q ELSE p
=============================================================================
