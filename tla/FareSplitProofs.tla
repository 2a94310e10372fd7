--------------------------- MODULE FareSplitProofs ---------------------------
\* What rounding can do to a price, for every price and number of passengers.
EXTENDS FareSplit, FiniteSetsExt, FiniteSetTheorems, WellFoundedInduction, TLAPS

\* Multiplication by a positive number keeps an order.
LEMMA Monotone ==
  ASSUME NEW n \in Nat \ {0}, NEW a \in Int, NEW b \in Int, a >= b
  PROVE  n * a >= n * b
<1> DEFINE d == a - b
<1>1. d \in Nat
  OBVIOUS
<1>2. n * d \in Nat
  BY <1>1, SMT
<1>3. n * a = n * b + n * d
  BY <1>1, SMT
<1> QED BY <1>2, <1>3, SMT

\* The bounds of a share without Abs.
LEMMA ShareBounds ==
  ASSUME NEW x \in Int, NEW price \in Int, NEW n \in Nat \ {0}, IsShare(x, price, n)
  PROVE  /\ 2 * (n * x) <= 2 * price + n
         /\ 2 * (n * x) >= 2 * price - n
<1> DEFINE p == n * x
<1>1. p \in Int
  BY SMT
<1>2. 2 * Abs(p - price) <= n
  BY DEF IsShare
<1> HIDE DEF p
<1>3. 2 * p <= 2 * price + n /\ 2 * p >= 2 * price - n
  BY <1>1, <1>2, SMT DEF Abs
<1> QED BY <1>3 DEF p

\* The amount sent to the gateway and the amount on record, each rounded in its
\* own way (service.go:47 and NUMERIC(10,2)), differ by at most one kopeck.
THEOREM RoundingsAgree ==
  ASSUME NEW price \in Int, NEW n \in Nat \ {0}, NEW x \in Int, NEW y \in Int,
         IsShare(x, price, n), IsShare(y, price, n)
  PROVE  x - y <= 1 /\ y - x <= 1
<1>1. ASSUME NEW a \in Int, NEW b \in Int, IsShare(a, price, n), IsShare(b, price, n)
      PROVE  a - b <= 1
  <2> SUFFICES ASSUME a >= b + 2 PROVE FALSE
    BY SMT
  <2>1. n * a >= n * (b + 2)
    BY Monotone
  <2>2. n * (b + 2) = n * b + 2 * n
    BY SMT
  <2>3. 2 * (n * a) <= 2 * price + n
    BY <1>1, ShareBounds
  <2>4. 2 * (n * b) >= 2 * price - n
    BY <1>1, ShareBounds
  <2> DEFINE p == n * a
             q == n * b
  <2>5. p \in Int /\ q \in Int
    BY SMT
  <2>6. p >= q + 2 * n /\ 2 * p <= 2 * price + n /\ 2 * q >= 2 * price - n
    BY <2>1, <2>2, <2>3, <2>4
  <2> HIDE DEF p, q
  <2> QED BY <2>5, <2>6, SMT
<1> QED BY <1>1

\* Sets of natural numbers have a least element.
LEMMA Minimum ==
  ASSUME NEW N, N \subseteq Nat, N # {}
  PROVE  \E m \in N : \A n \in N : m <= n
<1>1. \E x \in N : \A y \in N : <<y, x>> \notin OpToRel(<, Nat)
  BY NatLessThanWellFounded, WFMin
<1>2. PICK x \in N : \A y \in N : <<y, x>> \notin OpToRel(<, Nat)
  BY <1>1
<1>3. ASSUME NEW y \in N PROVE x <= y
  <2>1. ~(y < x)
    <3> SUFFICES ASSUME y < x PROVE FALSE
      OBVIOUS
    <3>1. <<y, x>> \in Nat \X Nat /\ <<y, x>>[1] < <<y, x>>[2]
      OBVIOUS
    <3> QED BY <1>2, <3>1 DEF OpToRel
  <2> QED BY <2>1
<1> QED BY <1>3

\* Every price can be divided: some number of kopecks between nothing and the whole
\* price is nearest, so that neither rounding ever has nothing to return.
THEOREM EveryPriceHasAShare ==
  ASSUME NEW price \in Nat, NEW n \in Nat \ {0}
  PROVE  Shares(price, n) # {}
<1> DEFINE enough == {x \in Nat : 2 * (n * x) + n >= 2 * price}
<1>1. price \in enough
  <2>1. price * n >= price * 1
    <3>1. CASE price = 0
      BY <3>1, SMT
    <3>2. CASE price # 0
      BY <3>2, Monotone
    <3> QED BY <3>1, <3>2
  <2> DEFINE q == n * price
  <2>2. q \in Int /\ q >= price
    BY <2>1, SMT
  <2>3. 2 * q + n >= 2 * price
    <3> HIDE DEF q
    <3> QED BY <2>2, SMT
  <2> QED BY <2>3
<1>2. PICK x \in enough : \A y \in enough : x <= y
  BY <1>1, Minimum
<1>3. x \in 0 .. price
  BY <1>1, <1>2
<1>4. 2 * (n * x) - n <= 2 * price
  <2>1. CASE x = 0
    <3>1. n * x = 0
      BY <2>1, SMT
    <3> QED BY <3>1, SMT
  <2>2. CASE x # 0
    <3>1. x - 1 \in Nat /\ x - 1 \notin enough
      BY <1>2, <2>2, SMT
    <3>2. ~(2 * (n * (x - 1)) + n >= 2 * price)
      BY <3>1
    <3>3. n * (x - 1) = n * x - n /\ n * x \in Int
      BY <1>3, SMT
    <3> DEFINE q == n * x
    <3>4. q \in Int /\ ~(2 * (q - n) + n >= 2 * price)
      BY <3>2, <3>3
    <3>5. 2 * q - n <= 2 * price
      <4> HIDE DEF q
      <4> QED BY <3>4, SMT
    <3> QED BY <3>5
  <2> QED BY <2>1, <2>2
<1>5. IsShare(x, price, n)
  <2> DEFINE q == n * x
  <2>1. q \in Int
    BY <1>3, SMT
  <2>2. 2 * q + n >= 2 * price /\ 2 * q - n <= 2 * price
    BY <1>2, <1>4
  <2>3. 2 * Abs(q - price) <= n
    <3> HIDE DEF q
    <3> QED BY <2>1, <2>2, SMT DEF Abs
  <2> QED BY <2>3 DEF IsShare
<1> QED BY <1>3, <1>5 DEF Shares

\* A passenger more never costs the others a kopeck: however the two shares are
\* rounded, that of the larger company is no larger.
THEOREM CompanyIsNotDearer ==
  ASSUME NEW price \in Nat, NEW n \in Nat \ {0}, NEW m \in Nat, m > n,
         NEW x \in Int, NEW y \in Nat, IsShare(x, price, n), IsShare(y, price, m)
  PROVE  y <= x
<1> SUFFICES ASSUME y >= x + 1 PROVE FALSE
  BY SMT
<1> DEFINE d == 2 * y - 1
<1>1. m \in Nat \ {0} /\ d \in Int /\ d >= 2 * x + 1
  BY SMT
<1>2. n * d >= 2 * price
  <2>1. n * d >= n * (2 * x + 1)
    BY <1>1, Monotone
  <2>2. n * (2 * x + 1) = 2 * (n * x) + n
    BY SMT
  <2>3. 2 * (n * x) >= 2 * price - n
    BY ShareBounds
  <2> DEFINE q == n * x
             e == n * d
  <2>4. q \in Int /\ e \in Int
    BY <1>1, SMT
  <2>5. e >= 2 * q + n /\ 2 * q >= 2 * price - n
    BY <2>1, <2>2, <2>3
  <2>6. e >= 2 * price
    <3> HIDE DEF q, e
    <3> QED BY <2>4, <2>5, SMT
  <2> QED BY <2>6
<1>3. m * d <= 2 * price
  <2>1. 2 * (m * y) <= 2 * price + m
    BY <1>1, ShareBounds
  <2>2. m * d = 2 * (m * y) - m
    BY <1>1, SMT
  <2> DEFINE q == m * y
             e == m * d
  <2>3. q \in Int /\ e \in Int /\ e = 2 * q - m /\ 2 * q <= 2 * price + m
    BY <1>1, <2>1, <2>2, SMT
  <2>4. e <= 2 * price
    <3> HIDE DEF q, e, d
    <3> QED BY <2>3, SMT
  <2> QED BY <2>4
<1> HIDE DEF d
<1>4. CASE d >= 1
  <2>1. d \in Nat \ {0} /\ m >= n + 1
    BY <1>1, <1>4, SMT
  <2>2. d * m >= d * (n + 1)
    BY <2>1, Monotone
  <2>3. d * (n + 1) = n * d + d /\ d * m = m * d
    BY <1>1, SMT
  <2> DEFINE e == n * d
             f == m * d
  <2>4. e \in Int /\ f \in Int /\ f >= e + d /\ e >= 2 * price /\ f <= 2 * price
    BY <1>1, <1>2, <1>3, <2>2, <2>3, SMT
  <2> HIDE DEF e, f
  <2> QED BY <1>1, <1>4, <2>4, SMT
<1>5. CASE d < 1
  <2>1. d <= -1
    BY <1>5, SMT DEF d
  <2>2. n * (-1) >= n * d
    BY <1>1, <2>1, Monotone
  <2>3. n * (-1) = -n
    BY SMT
  <2> DEFINE e == n * d
  <2>4. e \in Int /\ e >= 2 * price /\ -n >= e
    BY <1>1, <1>2, <2>2, <2>3, SMT
  <2> HIDE DEF e
  <2> QED BY <2>4, SMT
<1> QED BY <1>1, <1>4, <1>5, SMT

-----------------------------------------------------------------------------
(* A sum over a set of users, as MapThenSumSet makes it, is defined by a     *)
(* recursive function on the subsets.  That the function exists and what it  *)
(* returns is proved without induction: a smallest subset on which it were   *)
(* something else cannot be empty and cannot be bigger.                      *)

\* MapThenSumSet, of which the recursive function and the choice are named here.
Chosen(s) == CHOOSE u \in s : TRUE

Summing(a, S, h) ==
  h = [s \in SUBSET S |-> IF s = {} THEN 0 ELSE a[Chosen(s)] + h[s \ {Chosen(s)}]]

Total(a, S) == (CHOOSE h : Summing(a, S, h))[S]

\* They are the same.
LEMMA TotalIsSum ==
  ASSUME NEW a, NEW S
  PROVE  MapThenSumSet(LAMBDA u : a[u], S) = Total(a, S)
BY DEF MapThenSumSet, MapThenFoldSet, Total, Summing, Chosen

\* The sum of amounts that are x for the members of C and nothing for the others.
LEMMA TotalOfEqualShares ==
  ASSUME NEW S, IsFiniteSet(S), NEW C \in SUBSET S, NEW x \in Int, NEW a,
         \A u \in S : a[u] = IF u \in C THEN x ELSE 0
  PROVE  Total(a, S) = Cardinality(C) * x
<1> DEFINE n(s) == Cardinality(s \cap C)
           g == [s \in SUBSET S |-> n(s) * x]
<1>1. ASSUME NEW s \in SUBSET S, s # {}
      PROVE  /\ Chosen(s) \in s
             /\ s \ {Chosen(s)} \in SUBSET S
             /\ n(s) * x = a[Chosen(s)] + n(s \ {Chosen(s)}) * x
             /\ Cardinality(s \ {Chosen(s)}) = Cardinality(s) - 1
  <2> DEFINE u == Chosen(s)
             t == s \ {u}
  <2>1. u \in s
    BY <1>1 DEF Chosen
  <2> HIDE DEF u
  <2>2. IsFiniteSet(s) /\ IsFiniteSet(s \cap C) /\ IsFiniteSet(t \cap C)
    BY FS_Subset
  <2>3. Cardinality(t) = Cardinality(s) - 1
    BY <2>1, <2>2, FS_RemoveElement
  <2>4. CASE u \in C
    <3>1. t \cap C = (s \cap C) \ {u} /\ u \in s \cap C
      BY <2>1, <2>4
    <3>2. n(t) = n(s) - 1 /\ n(s) \in Nat
      <4> DEFINE p == s \cap C
      <4>1. IsFiniteSet(p) /\ u \in p /\ t \cap C = p \ {u}
        BY <2>2, <3>1
      <4> HIDE DEF p, t
      <4>2. Cardinality(p \ {u}) = Cardinality(p) - 1 /\ Cardinality(p) \in Nat
        BY <4>1, FS_RemoveElement, FS_CardinalityType
      <4> QED BY <4>1, <4>2 DEF p
    <3>3. a[u] = x
      BY <2>1, <2>4
    <3> QED BY <2>1, <2>3, <3>2, <3>3, SMT DEF u
  <2>5. CASE u \notin C
    <3>1. t \cap C = s \cap C
      BY <2>5
    <3>2. n(t) = n(s) /\ n(s) \in Nat
      BY <2>2, <3>1, FS_CardinalityType
    <3>3. a[u] = 0
      BY <2>1, <2>5
    <3> QED BY <2>1, <2>3, <3>2, <3>3, SMT DEF u
  <2> QED BY <2>4, <2>5
<1>2. Summing(a, S, g)
  <2>1. n({}) * x = 0
    <3>1. n({}) = 0
      BY FS_EmptySet
    <3> QED BY <3>1, SMT
  <2> HIDE DEF n
  <2> QED BY <1>1, <2>1, Zenon DEF Summing
<1>3. ASSUME NEW h, Summing(a, S, h) PROVE h = g
  <2> DEFINE D == {s \in SUBSET S : h[s] # g[s]}
             N == {Cardinality(s) : s \in D}
  <2>1. D = {}
    <3> SUFFICES ASSUME D # {} PROVE FALSE
      OBVIOUS
    <3>1. N # {} /\ N \subseteq Nat
      <4>1. \A s \in SUBSET S : Cardinality(s) \in Nat
        BY FS_Subset, FS_CardinalityType
      <4> HIDE DEF g
      <4> QED BY <4>1
    <3>2. PICK m \in N : \A k \in N : m <= k
      <4> HIDE DEF N
      <4> QED BY <3>1, Minimum
    <3>3. PICK s \in D : Cardinality(s) = m
      OBVIOUS
    <3>4. h[s] # g[s] /\ s \in SUBSET S
      OBVIOUS
    <3>5. h[{}] = 0 /\ g[{}] = 0
      BY <1>2, <1>3 DEF Summing
    <3>6. s # {}
      BY <3>4, <3>5
    <3> DEFINE t == s \ {Chosen(s)}
    <3>7. h[s] = a[Chosen(s)] + h[t] /\ g[s] = a[Chosen(s)] + g[t]
      BY <1>2, <1>3, <3>4, <3>6, Zenon DEF Summing
    <3>8. t \in SUBSET S /\ Cardinality(t) = m - 1
      BY <1>1, <3>3, <3>4, <3>6
    <3>9. t \in D
      BY <3>4, <3>7, <3>8
    <3>10. m <= m - 1 /\ m \in Nat
      BY <3>1, <3>2, <3>8, <3>9
    <3> QED BY <3>10
  <2>2. \A s \in SUBSET S : h[s] = g[s]
    BY <2>1
  <2> QED BY <2>2, <1>3, Zenon DEF Summing
<1>4. (CHOOSE h : Summing(a, S, h)) = g
  BY <1>2, <1>3, Zenon
<1>5. S \cap C = C
  OBVIOUS
<1> QED BY <1>4, <1>5, Zenon DEF Total

\* When all of the passengers C pay the same share of a price and the others nothing,
\* what the users S pay adds up to the price, to half a kopeck for each passenger.
THEOREM EqualSharesAddUp ==
  ASSUME NEW S, IsFiniteSet(S), NEW C \in SUBSET S, NEW price \in Int, NEW x \in Int,
         IsShare(x, price, Cardinality(C)),
         NEW a, \A u \in S : a[u] = IF u \in C THEN x ELSE 0
  PROVE  SplitsInto(price, Cardinality(C), MapThenSumSet(LAMBDA u : a[u], S))
<1>1. Total(a, S) = Cardinality(C) * x
  BY TotalOfEqualShares
<1>2. MapThenSumSet(LAMBDA u : a[u], S) = Total(a, S)
  BY TotalIsSum
<1>3. SplitsInto(price, Cardinality(C), Cardinality(C) * x)
  BY DEF IsShare, SplitsInto
<1> QED BY <1>1, <1>2, <1>3
=============================================================================
