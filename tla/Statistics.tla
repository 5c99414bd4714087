------------------------------ MODULE Statistics ------------------------------
(***************************************************************************)
(* The few statistics the detectors share, over integers: a sample is a    *)
(* function whose values are whole numbers, in no order, and a comparison  *)
(* of a z-score with a limit is multiplied out, so that neither the mean   *)
(* nor the root of the variance is needed.                                 *)
(***************************************************************************)
EXTENDS Integers, Functions, FiniteSets

Size(s)      == Cardinality(DOMAIN s)
SumOf(s)     == SumFunction(s)
SquaresOf(s) == SumFunction([i \in DOMAIN s |-> s[i] * s[i]])
Distance(x)  == IF x < 0 THEN -x ELSE x

\* Size(s)^2 * (Size(s) - 1) times the sample variance, divided by Size(s).
Spread(s) == Size(s) * SquaresOf(s) - SumOf(s) * SumOf(s)

\* statistics.stdev is 0: all values are equal.
Constant(s) == Spread(s) = 0

\* _zscore has an answer.
MinPrior == 2
Judged(prior) == Size(prior) >= MinPrior

\* abs(_zscore(v, prior)) >= limit, for a limit of at most _Z_CAP.  A constant history
\* gives 0 or the cap.
AtLeast(limit, v, prior) ==
    LET n == Size(prior)
        off == Distance(n * v - SumOf(prior))
    IN IF Constant(prior) THEN off # 0
       ELSE (n - 1) * off * off >= limit * limit * n * Spread(prior)

\* The root of n, rounded down.
Root[n \in Nat] ==
    IF n = 0 THEN 0
    ELSE LET r == 2 * Root[n \div 4] IN IF (r + 1) * (r + 1) <= n THEN r + 1 ELSE r

\* 10 * abs(_zscore(v, prior)), rounded down.
ZCap == 50
TenfoldZ(v, prior) ==
    LET n == Size(prior)
        off == Distance(n * v - SumOf(prior))
    IN IF Constant(prior) THEN (IF off = 0 THEN 0 ELSE ZCap)
       ELSE Root[(100 * (n - 1) * off * off) \div (n * Spread(prior))]

Average(s) == SumOf(s) \div Size(s)

\* The values that are there.
Known(s, none) == Restrict(s, {i \in DOMAIN s : s[i] # none})
=============================================================================
