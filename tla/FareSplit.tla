----------------------------- MODULE FareSplit -----------------------------
(***************************************************************************)
(* The division of a price among passengers, in kopecks: a share is        *)
(* rounded to two decimals once for the gateway ("%.2f") and once for the  *)
(* payments table (NUMERIC(10,2)).  Each is a nearest number of kopecks;   *)
(* they treat ties differently.  A float32 holds shares exactly enough for *)
(* that as long as a price is below 8000 roubles and there are at most ten *)
(* passengers.                                                             *)
(***************************************************************************)
EXTENDS Integers

Abs(x) == IF x < 0 THEN -x ELSE x

\* A nearest number of kopecks to price / n.
IsShare(x, price, n) == 2 * Abs(n * x - price) <= n

Shares(price, n) == {x \in 0 .. price : IsShare(x, price, n)}

\* A sum that differs from the price by at most half a kopeck for each of n.
SplitsInto(price, n, sum) == 2 * Abs(sum - price) <= n
=============================================================================
