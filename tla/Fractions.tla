----------------------------- MODULE Fractions -----------------------------
(***************************************************************************)
(* Fractions in lowest terms, for probabilities that must add up exactly.  *)
(***************************************************************************)
EXTENDS Integers, Sequences, SequencesExt, Folds

RECURSIVE Gcd(_, _)
Gcd(a, b) == IF b = 0 THEN a ELSE Gcd(b, a % b)

Frac(n, d) == LET g == Gcd(n, d) IN <<n \div g, d \div g>>
Zero == <<0, 1>>
One == <<1, 1>>

Plus(a, b) ==
    LET g == Gcd(a[2], b[2])
    IN  Frac(a[1] * (b[2] \div g) + b[1] * (a[2] \div g), a[2] * (b[2] \div g))
Minus(a, b) ==
    LET g == Gcd(a[2], b[2])
    IN  Frac(a[1] * (b[2] \div g) - b[1] * (a[2] \div g), a[2] * (b[2] \div g))
Times(a, b) ==
    LET f == Frac(a[1], b[2])
        g == Frac(b[1], a[2])
    IN  <<f[1] * g[1], f[2] * g[2]>>
Over(a, b) == Times(a, <<b[2], b[1]>>)
Less(a, b) ==
    LET g == Gcd(a[2], b[2])
    IN  a[1] * (b[2] \div g) < b[1] * (a[2] \div g)

\* Products of many fractions, which are compared in digits of base 1000, the
\* lowest first.
RECURSIVE Digits(_)
Digits(n) == IF n = 0 THEN <<>> ELSE <<n % 1000>> \o Digits(n \div 1000)
ScaledBy(big, n) ==
    LET added == FoldLeft(LAMBDA acc, d: [out |-> Append(acc.out, (d * n + acc.carry) % 1000),
                                          carry |-> (d * n + acc.carry) \div 1000],
                          [out |-> <<>>, carry |-> 0], big)
    IN  added.out \o Digits(added.carry)
Product(ns) == FoldLeft(ScaledBy, <<1>>, ns)
BigLess(a, b) ==
    \/ Len(a) < Len(b)
    \/ /\ Len(a) = Len(b)
       /\ \E i \in DOMAIN a: a[i] < b[i] /\ \A k \in i + 1 .. Len(a): a[k] = b[k]
ProductLess(as, bs) ==
    LET parts(fs, k) == [i \in DOMAIN fs |-> fs[i][k]]
    IN  BigLess(Product(parts(as, 1) \o parts(bs, 2)), Product(parts(bs, 1) \o parts(as, 2)))

SumOver(Op(_), S) == MapThenFoldSet(Plus, Zero, Op, LAMBDA T: CHOOSE x \in T: TRUE, S)
=============================================================================
