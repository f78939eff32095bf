---------------------------- MODULE RatingProofs ----------------------------
(***************************************************************************)
(* Proofs about the rating engine, for every table and risk: the fractions   *)
(* behave as numbers do, the trail grows stage by stage, and the promises of *)
(* RatingReview follow.                                                     *)
(***************************************************************************)
EXTENDS RatingReview, WellFoundedInduction, TLAPS

-----------------------------------------------------------------------------
\* A set that holds 0 and, with each number, the next one holds every number.
LEMMA Induction ==
    ASSUME NEW S, 0 \in S, \A n \in Nat : n \in S => n + 1 \in S
    PROVE  \A n \in Nat : n \in S
<1> DEFINE T == Nat \ S
           R == OpToRel(<, Nat)
<1> SUFFICES ASSUME T # {} PROVE FALSE
  OBVIOUS
<1>1. IsWellFoundedOn(R, Nat)
  BY NatLessThanWellFounded
<1>2. PICK x \in T : \A y \in T : ~(<<y, x>> \in R)
  <2>1. T \subseteq Nat
    OBVIOUS
  <2> HIDE DEF T, R
  <2> QED
    BY <1>1, <2>1, WFMin
<1>3. \A y \in Nat : y < x => <<y, x>> \in R
  BY DEF OpToRel
<1>4. x - 1 \in Nat /\ x - 1 < x /\ (x - 1) + 1 = x
  OBVIOUS
<1>5. x - 1 \in S
  BY <1>2, <1>3, <1>4
<1> QED
  BY <1>4, <1>5

-----------------------------------------------------------------------------
\* Division.

\* A positive factor on both sides may be cancelled.
LEMMA Cancel ==
    ASSUME NEW a \in Nat, NEW b \in Nat, NEW k \in Nat \ {0}
    PROVE  /\ k * a = k * b => a = b
           /\ k * a <= k * b => a <= b
           /\ a <= b => k * a <= k * b
OBVIOUS

\* A product of naturals is a natural.
LEMMA Product == ASSUME NEW a \in Nat, NEW b \in Nat PROVE a * b \in Nat
OBVIOUS

\* The factors of a product come in any order.
LEMMA Reorder ==
    ASSUME NEW a \in Nat, NEW b \in Nat, NEW c \in Nat
    PROVE  (a * b) * c = (a * c) * b /\ (a * b) * c = a * (b * c)
OBVIOUS

\* A factor may be multiplied out.
LEMMA Distribute ==
    ASSUME NEW a \in Nat, NEW b \in Nat, NEW c \in Nat
    PROVE  (a + b) * c = a * c + b * c
OBVIOUS

\* A product of positive numbers is positive.
LEMMA Positive == ASSUME NEW a \in Nat \ {0}, NEW b \in Nat \ {0} PROVE a * b \in Nat \ {0}
OBVIOUS

\* Quotient and remainder.
LEMMA Quotient ==
    ASSUME NEW a \in Nat, NEW b \in Nat \ {0}
    PROVE  /\ a \div b \in Nat /\ a % b \in Nat /\ a % b < b
           /\ a % b = a - b * (a \div b) /\ b * (a \div b) \in Nat
<1>1. a \div b \in Nat
  OBVIOUS
<1>2. a % b \in Nat /\ a % b < b
  OBVIOUS
<1>3. a % b = a - b * (a \div b)
  OBVIOUS
<1>4. b * (a \div b) \in Nat
  BY <1>1
<1> QED
  BY <1>1, <1>2, <1>3, <1>4

\* An exact quotient.
LEMMA Exactly ==
    ASSUME NEW a \in Nat, NEW b \in Nat \ {0}
    PROVE  (b * a) \div b = a
OBVIOUS

-----------------------------------------------------------------------------
\* Euclid's algorithm.

divides(k, n) == \E x \in Nat : n = k * x

common(a, b) == {k \in Nat : divides(k, a) /\ divides(k, b)}

\* A number and the next remainder have the same common divisors.
LEMMA SameDivisors ==
    ASSUME NEW a \in Nat, NEW b \in Nat \ {0}
    PROVE  common(a, b) = common(b, a % b)
<1> DEFINE q == a \div b
           r == a % b
<1>1. q \in Nat /\ r \in Nat /\ r = a - b * q
  BY Quotient
<1> HIDE DEF q, r
<1>2. ASSUME NEW k \in Nat, divides(k, b), divides(k, a) PROVE divides(k, r)
  <2>1. PICK x \in Nat : a = k * x
    BY <1>2 DEF divides
  <2>2. PICK y \in Nat : b = k * y
    BY <1>2 DEF divides
  <2>3. b * q = k * (y * q) /\ y * q \in Nat
    BY <1>1, <2>2
  <2>4. r = k * x - k * (y * q)
    BY <1>1, <2>1, <2>3
  <2>5. CASE y * q <= x
    <3>1. x - y * q \in Nat /\ k * (x - y * q) = k * x - k * (y * q)
      BY <2>3, <2>5
    <3> QED
      BY <3>1, <2>4 DEF divides
  <2>6. CASE x < y * q
    <3>1. k * x <= k * (y * q)
      BY <2>3, <2>6
    <3>2. r = 0
      BY <3>1, <2>4, <1>1, <2>3
    <3> QED
      BY <3>2 DEF divides
  <2> QED
    BY <2>3, <2>5, <2>6
<1>3. ASSUME NEW k \in Nat, divides(k, b), divides(k, r) PROVE divides(k, a)
  <2>1. PICK z \in Nat : r = k * z
    BY <1>3 DEF divides
  <2>2. PICK y \in Nat : b = k * y
    BY <1>3 DEF divides
  <2>3. b * q = k * (y * q) /\ y * q \in Nat
    BY <1>1, <2>2
  <2>4. a = k * (y * q) + k * z
    BY <1>1, <2>1, <2>3
  <2>5. a = k * (y * q + z) /\ y * q + z \in Nat
    BY <2>3, <2>4
  <2> QED
    BY <2>5 DEF divides
<1> QED
  BY <1>2, <1>3 DEF common, q, r

\* Numbers that divide each other are equal.
LEMMA MutualDivisors ==
    ASSUME NEW a \in Nat, NEW b \in Nat, divides(a, b), divides(b, a)
    PROVE  a = b
<1>1. PICK x \in Nat : b = a * x
  BY DEF divides
<1>2. PICK y \in Nat : a = b * y
  BY DEF divides
<1>3. CASE a = 0
  BY <1>1, <1>3
<1>4. CASE a # 0
  <2>1. y # 0 /\ x # 0 /\ b # 0
    BY <1>1, <1>2, <1>4
  <2>2. x >= 1 => a * x >= a
    OBVIOUS
  <2>3. y >= 1 => b * y >= b
    BY <2>1
  <2> QED
    BY <1>1, <1>2, <2>1, <2>2, <2>3
<1> QED
  BY <1>3, <1>4

\* The greatest common divisor, by divisibility, solves Euclid's equation: so the
\* recursive definition has a solution.
LEMMA Euclid ==
    \A a, b \in Nat : gcd[<<a, b>>] = IF b = 0 THEN a ELSE gcd[<<b, a % b>>]
<1> DEFINE greatest(D) == CHOOSE m \in D : \A k \in D : divides(k, m)
           g == [p \in Nat \X Nat |-> greatest(common(p[1], p[2]))]
<1>1. ASSUME NEW a \in Nat PROVE greatest(common(a, 0)) = a
  <2>1. \A k \in Nat : divides(k, 0)
    BY DEF divides
  <2>2. divides(a, a)
    BY DEF divides
  <2>3. a \in common(a, 0) /\ \A k \in common(a, 0) : divides(k, a)
    BY <2>1, <2>2 DEF common
  <2>4. \A m \in common(a, 0) : divides(a, m) => m = a
    BY MutualDivisors DEF common
  <2> HIDE DEF common
  <2> QED
    BY <2>3, <2>4
<1>2. \A a \in Nat, b \in Nat \ {0} : a % b \in Nat
  BY Quotient
<1>3. \A a, b \in Nat : b # 0 => greatest(common(a, b)) = greatest(common(b, a % b))
  BY SameDivisors
<1>4. g = [p \in Nat \X Nat |->
              IF p[2] = 0 THEN p[1] ELSE g[<<p[2], p[1] % p[2]>>]]
  <2> HIDE DEF greatest
  <2>1. \A a, b \in Nat : g[<<a, b>>] = greatest(common(a, b))
    OBVIOUS
  <2>2. ASSUME NEW a \in Nat, NEW b \in Nat
        PROVE  g[<<a, b>>] = IF b = 0 THEN a ELSE g[<<b, a % b>>]
    BY <1>1, <1>2, <1>3, <2>1
  <2>3. \A p \in Nat \X Nat :
           g[p] = IF p[2] = 0 THEN p[1] ELSE g[<<p[2], p[1] % p[2]>>]
    <3> TAKE p \in Nat \X Nat
    <3>1. p = <<p[1], p[2]>> /\ p[1] \in Nat /\ p[2] \in Nat
      OBVIOUS
    <3> HIDE DEF g
    <3> QED
      BY <2>2, <3>1
  <2> QED
    BY <2>3
<1> HIDE DEF g
<1>5. gcd = [p \in Nat \X Nat |->
                IF p[2] = 0 THEN p[1] ELSE gcd[<<p[2], p[1] % p[2]>>]]
  BY <1>4 DEF gcd
<1> QED
  BY <1>5

\* gcd divides both its arguments.
LEMMA GcdDivides ==
    ASSUME NEW a \in Nat, NEW b \in Nat
    PROVE  /\ gcd[<<a, b>>] \in Nat
           /\ divides(gcd[<<a, b>>], a) /\ divides(gcd[<<a, b>>], b)
<1> DEFINE Good(x, y) == gcd[<<x, y>>] \in common(x, y)
           S == {n \in Nat : \A x \in Nat, y \in 0 .. n : Good(x, y)}
<1>1. 0 \in S
  <2>1. ASSUME NEW x \in Nat PROVE Good(x, 0)
    <3>1. gcd[<<x, 0>>] = x
      BY Euclid
    <3>2. x = x * 1 /\ 0 = x * 0
      OBVIOUS
    <3> QED
      BY <3>1, <3>2 DEF common, divides
  <2> QED
    BY <2>1
<1>2. ASSUME NEW n \in Nat, n \in S PROVE n + 1 \in S
  <2>1. ASSUME NEW x \in Nat PROVE Good(x, n + 1)
    <3>1. x % (n + 1) \in 0 .. n
      BY Quotient
    <3>2. Good(n + 1, x % (n + 1))
      BY <1>2, <3>1
    <3>3. gcd[<<x, n + 1>>] = gcd[<<n + 1, x % (n + 1)>>]
      BY Euclid
    <3> QED
      BY <3>2, <3>3, SameDivisors
  <2>2. \A y \in 0 .. n + 1 : y \in 0 .. n \/ y = n + 1
    OBVIOUS
  <2> QED
    BY <1>2, <2>1, <2>2
<1>3. b \in S
  <2> HIDE DEF S
  <2> QED
    BY <1>1, <1>2, Induction
<1> QED
  BY <1>3 DEF common

-----------------------------------------------------------------------------
\* Fractions.  Two are the same number when they agree crosswise.

\* frac reduces a fraction to lowest terms without changing its value.
LEMMA FracValue ==
    ASSUME NEW n \in Nat, NEW d \in Nat \ {0}
    PROVE  /\ frac(n, d) \in Frac
           /\ frac(n, d).num * d = n * frac(n, d).den
<1> DEFINE g == gcd[<<n, d>>]
<1>1. g \in Nat /\ divides(g, n) /\ divides(g, d)
  BY GcdDivides
<1> HIDE DEF g
<1>2. PICK x \in Nat : n = g * x
  BY <1>1 DEF divides
<1>3. PICK y \in Nat : d = g * y
  BY <1>1 DEF divides
<1>4. g # 0 /\ y # 0
  BY <1>1, <1>3
<1>5. n \div g = x /\ d \div g = y
  BY <1>1, <1>2, <1>3, <1>4, Exactly
<1>6. frac(n, d) = [num |-> x, den |-> y]
  BY <1>5 DEF frac, g
<1>7. x * d = n * y
  BY <1>1, <1>2, <1>3
<1> QED
  BY <1>4, <1>6, <1>7 DEF Frac

\* A product of numbers of the form n / d.
LEMMA TimesValue ==
    ASSUME NEW a \in Frac, NEW b \in Frac
    PROVE  /\ times(a, b) \in Frac
           /\ times(a, b).num * (a.den * b.den) = (a.num * b.num) * times(a, b).den
<1> DEFINE x == frac(a.num, b.den)
           y == frac(b.num, a.den)
           r == times(a, b)
<1>0. a.num \in Nat /\ a.den \in Nat \ {0} /\ b.num \in Nat /\ b.den \in Nat \ {0}
  BY DEF Frac
<1>1. x \in Frac /\ x.num * b.den = a.num * x.den
  BY <1>0, FracValue
<1>2. y \in Frac /\ y.num * a.den = b.num * y.den
  BY <1>0, FracValue
<1>3. x.num \in Nat /\ x.den \in Nat \ {0} /\ y.num \in Nat /\ y.den \in Nat \ {0}
  BY <1>1, <1>2 DEF Frac
<1>4. x.num * y.num \in Nat /\ x.den * y.den \in Nat \ {0}
  BY <1>3, Product, Positive
<1>5. r = frac(x.num * y.num, x.den * y.den)
  BY DEF times
<1> HIDE DEF x, y, r
<1>6. r \in Frac /\ r.num * (x.den * y.den) = (x.num * y.num) * r.den
  BY <1>4, <1>5, FracValue
<1>7. r.num \in Nat /\ r.den \in Nat \ {0}
  BY <1>6 DEF Frac
<1> DEFINE k == x.den * y.den
<1>8. k * (r.num * (a.den * b.den)) = (r.num * (x.den * y.den)) * (a.den * b.den)
  BY <1>0, <1>3, <1>7
<1>9. (x.num * y.num) * (a.den * b.den) = (x.num * b.den) * (y.num * a.den)
  BY <1>0, <1>3
<1>10. (a.num * x.den) * (b.num * y.den) = k * (a.num * b.num)
  BY <1>0, <1>3
<1>11. k * (r.num * (a.den * b.den)) = k * ((a.num * b.num) * r.den)
  <2>1. ((x.num * y.num) * r.den) * (a.den * b.den)
           = ((x.num * y.num) * (a.den * b.den)) * r.den
    <3>1. a.den * b.den \in Nat
      BY <1>0, Product
    <3> QED
      BY <1>4, <1>7, <3>1, Reorder
  <2>2. (k * (a.num * b.num)) * r.den = k * ((a.num * b.num) * r.den)
    <3>1. a.num * b.num \in Nat /\ k \in Nat
      BY <1>0, <1>4, Product
    <3> HIDE DEF k
    <3> QED
      BY <1>7, <3>1, Reorder
  <2> QED
    BY <1>1, <1>2, <1>6, <1>8, <1>9, <1>10, <2>1, <2>2
<1>12. r.num * (a.den * b.den) = (a.num * b.num) * r.den
  <2>1. r.num * (a.den * b.den) \in Nat /\ (a.num * b.num) * r.den \in Nat
    BY <1>0, <1>7, Product
  <2>2. k \in Nat \ {0}
    BY <1>4
  <2> HIDE DEF k
  <2> QED
    BY <1>11, <2>1, <2>2, Cancel
<1> QED
  BY <1>6, <1>12 DEF r

\* plus adds fractions, whatever it cancels.
LEMMA PlusValue ==
    ASSUME NEW a \in Frac, NEW b \in Frac
    PROVE  /\ plus(a, b) \in Frac
           /\ plus(a, b).num * (a.den * b.den)
                 = (a.num * b.den + b.num * a.den) * plus(a, b).den
<1> DEFINE g == gcd[<<a.den, b.den>>]
           r == plus(a, b)
<1>0. a.num \in Nat /\ a.den \in Nat \ {0} /\ b.num \in Nat /\ b.den \in Nat \ {0}
  BY DEF Frac
<1>1. g \in Nat /\ divides(g, a.den) /\ divides(g, b.den)
  BY <1>0, GcdDivides
<1>2. r = frac(a.num * (b.den \div g) + b.num * (a.den \div g), a.den * (b.den \div g))
  BY DEF plus
<1> HIDE DEF g, r
<1>3. PICK u \in Nat : a.den = g * u
  BY <1>1 DEF divides
<1>4. PICK v \in Nat : b.den = g * v
  BY <1>1 DEF divides
<1>5. g # 0 /\ u # 0 /\ v # 0
  BY <1>0, <1>1, <1>3, <1>4
<1>6. a.den \div g = u /\ b.den \div g = v
  BY <1>1, <1>3, <1>4, <1>5, Exactly
<1> DEFINE n == a.num * v + b.num * u
           d == a.den * v
<1>7. n \in Nat /\ d \in Nat \ {0}
  <2>1. a.num * v \in Nat /\ b.num * u \in Nat
    BY <1>0, Product
  <2> QED
    BY <1>0, <1>5, <2>1, Positive
<1>8. r \in Frac /\ r.num * d = n * r.den
  BY <1>2, <1>6, <1>7, FracValue
<1>9. r.num \in Nat /\ r.den \in Nat \ {0}
  BY <1>8 DEF Frac
<1>10. r.num * (a.den * b.den) = g * (r.num * d)
  BY <1>0, <1>1, <1>4, <1>9
<1>11. (a.num * b.den + b.num * a.den) * r.den = g * (n * r.den)
  <2>1. a.num * b.den = g * (a.num * v) /\ b.num * a.den = g * (b.num * u)
    BY <1>0, <1>1, <1>3, <1>4
  <2>2. g * (a.num * v) + g * (b.num * u) = g * n
    BY <1>0, <1>1
  <2>3. (g * n) * r.den = g * (n * r.den)
    BY <1>1, <1>7, <1>9
  <2> QED
    BY <2>1, <2>2, <2>3
<1> QED
  BY <1>8, <1>10, <1>11 DEF r

\* a is the number n / d.
is(a, n, d) ==
    /\ a \in Frac /\ n \in Nat /\ d \in Nat \ {0}
    /\ a.num * d = n * a.den

\* Equal crosswise is transitive.
LEMMA Cross ==
    ASSUME NEW x \in Nat, NEW y \in Nat \ {0}, NEW n \in Nat, NEW d \in Nat \ {0},
           NEW p \in Nat, NEW q \in Nat \ {0}, x * d = n * y, n * q = p * d
    PROVE  x * q = p * y
<1>1. d * (x * q) = (x * d) * q
  OBVIOUS
<1>2. (n * y) * q = (n * q) * y
  OBVIOUS
<1>3. (p * d) * y = d * (p * y)
  OBVIOUS
<1>4. d * (x * q) = d * (p * y)
  BY <1>1, <1>2, <1>3
<1>5. x * q \in Nat /\ p * y \in Nat
  BY Product
<1> QED
  BY <1>4, <1>5, Cancel

\* The reduced fraction is the number it was made from.
LEMMA IsFrac ==
    ASSUME NEW n \in Nat, NEW d \in Nat \ {0}
    PROVE  is(frac(n, d), n, d)
BY FracValue DEF is

\* A fraction is its own numerator over its own denominator.
LEMMA IsSelf == ASSUME NEW a \in Frac PROVE is(a, a.num, a.den)
BY DEF is, Frac

\* The same number written otherwise.
LEMMA IsAlso ==
    ASSUME NEW a, NEW n, NEW d, is(a, n, d),
           NEW p \in Nat, NEW q \in Nat \ {0}, n * q = p * d
    PROVE  is(a, p, q)
<1>1. a.num \in Nat /\ a.den \in Nat \ {0}
  BY DEF is, Frac
<1>2. n \in Nat /\ d \in Nat \ {0} /\ a.num * d = n * a.den
  BY DEF is
<1>3. a.num * q = p * a.den
  <2> DEFINE x == a.num
             y == a.den
  <2>1. /\ x \in Nat /\ y \in Nat \ {0} /\ n \in Nat /\ d \in Nat \ {0}
        /\ x * d = n * y
    BY <1>1, <1>2
  <2> HIDE DEF x, y
  <2>2. x * q = p * y
    BY <2>1, Cross
  <2> QED
    BY <2>2 DEF x, y
<1> QED
  BY <1>3 DEF is

\* Fractions are multiplied numerator by numerator.
LEMMA IsTimes ==
    ASSUME NEW a, NEW n, NEW d, is(a, n, d), NEW b, NEW p, NEW q, is(b, p, q)
    PROVE  is(times(a, b), n * p, d * q)
<1>1. a.num \in Nat /\ a.den \in Nat \ {0} /\ b.num \in Nat /\ b.den \in Nat \ {0}
  BY DEF is, Frac
<1>2. n \in Nat /\ d \in Nat \ {0} /\ p \in Nat /\ q \in Nat \ {0}
  BY DEF is
<1>3. is(times(a, b), a.num * b.num, a.den * b.den)
  BY <1>1, TimesValue, Product, Positive DEF is
<1>4. (a.num * b.num) * (d * q) = (a.num * d) * (b.num * q)
  BY <1>1, <1>2
<1>5. (n * a.den) * (p * b.den) = (n * p) * (a.den * b.den)
  BY <1>1, <1>2
<1>6. (a.num * b.num) * (d * q) = (n * p) * (a.den * b.den)
  BY <1>4, <1>5 DEF is
<1>7. n * p \in Nat /\ d * q \in Nat \ {0}
  BY <1>2, Product, Positive
<1> QED
  BY <1>3, <1>6, <1>7, IsAlso

\* The numerators of two numbers over a common denominator, scaled.
LEMMA Scaled ==
    ASSUME NEW a, NEW n, NEW d, is(a, n, d), NEW b, NEW p, NEW q, is(b, p, q)
    PROVE  /\ {a.num * b.den, b.num * a.den, n * q, p * d} \subseteq Nat
           /\ d * q \in Nat \ {0} /\ a.den * b.den \in Nat \ {0}
           /\ (a.num * b.den) * (d * q) = (n * q) * (a.den * b.den)
           /\ (b.num * a.den) * (d * q) = (p * d) * (a.den * b.den)
<1>1. a.num \in Nat /\ a.den \in Nat \ {0} /\ b.num \in Nat /\ b.den \in Nat \ {0}
  BY DEF is, Frac
<1>2. n \in Nat /\ d \in Nat \ {0} /\ p \in Nat /\ q \in Nat \ {0}
  BY DEF is
<1>3. (a.num * b.den) * (d * q) = (n * q) * (a.den * b.den)
  <2>1. (a.num * b.den) * (d * q) = (a.num * d) * (b.den * q)
    BY <1>1, <1>2
  <2>2. (n * a.den) * (b.den * q) = (n * q) * (a.den * b.den)
    BY <1>1, <1>2
  <2> QED
    BY <2>1, <2>2 DEF is
<1>4. (b.num * a.den) * (d * q) = (p * d) * (a.den * b.den)
  <2>1. (b.num * a.den) * (d * q) = (b.num * q) * (a.den * d)
    BY <1>1, <1>2
  <2>2. (p * b.den) * (a.den * d) = (p * d) * (a.den * b.den)
    BY <1>1, <1>2
  <2> QED
    BY <2>1, <2>2 DEF is
<1>5. /\ n * q \in Nat /\ p * d \in Nat /\ d * q \in Nat \ {0}
      /\ a.num * b.den \in Nat /\ b.num * a.den \in Nat /\ a.den * b.den \in Nat \ {0}
  BY <1>1, <1>2, Product, Positive
<1> QED
  BY <1>3, <1>4, <1>5

\* Fractions are added over a common denominator.
LEMMA IsPlus ==
    ASSUME NEW a, NEW n, NEW d, is(a, n, d), NEW b, NEW p, NEW q, is(b, p, q)
    PROVE  is(plus(a, b), n * q + p * d, d * q)
<1> DEFINE left == a.num * b.den
           right == b.num * a.den
           e == d * q
           v == n * q
           w == p * d
           f == a.den * b.den
<1>1. /\ {left, right, v, w} \subseteq Nat /\ e \in Nat \ {0} /\ f \in Nat \ {0}
      /\ left * e = v * f /\ right * e = w * f
  BY Scaled
<1>2. is(plus(a, b), left + right, f)
  BY <1>1, PlusValue DEF is
<1> HIDE DEF left, right, e, v, w, f
<1>3. (left + right) * e = (v + w) * f
  BY <1>1, Distribute
<1>4. is(plus(a, b), v + w, e)
  BY <1>1, <1>2, <1>3, IsAlso
<1> QED
  BY <1>4 DEF v, w, e

-----------------------------------------------------------------------------
\* The order of fractions.

leq(a, b) == a.num * b.den <= b.num * a.den

\* What is not less is at least as much.
LEMMA NotLess ==
    ASSUME NEW a \in Frac, NEW b \in Frac
    PROVE  ~less(b, a) <=> leq(a, b)
<1>1. a.num * b.den \in Nat /\ b.num * a.den \in Nat
  BY Product DEF Frac
<1> QED
  BY <1>1 DEF less, leq

\* Fractions may be compared in any terms.
LEMMA LeqIs ==
    ASSUME NEW a, NEW n, NEW d, is(a, n, d), NEW b, NEW p, NEW q, is(b, p, q)
    PROVE  leq(a, b) <=> n * q <= p * d
<1> DEFINE left == a.num * b.den
           right == b.num * a.den
           e == d * q
           v == n * q
           w == p * d
           f == a.den * b.den
<1>1. /\ {left, right, v, w} \subseteq Nat /\ e \in Nat \ {0} /\ f \in Nat \ {0}
      /\ left * e = v * f /\ right * e = w * f
  BY Scaled
<1> HIDE DEF left, right, e, v, w, f
<1>2. e * left = left * e /\ e * right = right * e /\ f * v = v * f /\ f * w = w * f
  BY <1>1
<1>3. left <= right <=> v <= w
  BY <1>1, <1>2, Cancel
<1> QED
  BY <1>3 DEF left, right, v, w, leq

\* Products and sums of naturals are monotonic.
LEMMA Monotonic ==
    ASSUME NEW a \in Nat, NEW b \in Nat, NEW c \in Nat, NEW d \in Nat,
           a <= b, c <= d
    PROVE  a * c <= b * d
<1>1. a * c <= b * c
  OBVIOUS
<1>2. b * c <= b * d
  OBVIOUS
<1> QED
  BY <1>1, <1>2, Product

\* Multiplication is monotone.
LEMMA TimesGrows ==
    ASSUME NEW a \in Frac, NEW b \in Frac, NEW c \in Frac, NEW d \in Frac,
           leq(a, b), leq(c, d)
    PROVE  leq(times(a, c), times(b, d))
<1>1. /\ {a.num, b.num, c.num, d.num} \subseteq Nat
      /\ {a.den, b.den, c.den, d.den} \subseteq Nat \ {0}
  BY DEF Frac
<1>2. /\ is(times(a, c), a.num * c.num, a.den * c.den)
      /\ is(times(b, d), b.num * d.num, b.den * d.den)
  BY IsSelf, IsTimes
<1>3. (a.num * b.den) * (c.num * d.den) <= (b.num * a.den) * (d.num * c.den)
  BY <1>1, Monotonic, Product DEF leq
<1>4. /\ (a.num * b.den) * (c.num * d.den) = (a.num * c.num) * (b.den * d.den)
      /\ (b.num * a.den) * (d.num * c.den) = (b.num * d.num) * (a.den * c.den)
  BY <1>1
<1> QED
  BY <1>2, <1>3, <1>4, LeqIs

\* Addition is monotone.
LEMMA PlusGrows ==
    ASSUME NEW a \in Frac, NEW b \in Frac, NEW c \in Frac, NEW d \in Frac,
           leq(a, b), leq(c, d)
    PROVE  leq(plus(a, c), plus(b, d))
<1>1. /\ {a.num, b.num, c.num, d.num} \subseteq Nat
      /\ {a.den, b.den, c.den, d.den} \subseteq Nat \ {0}
  BY DEF Frac
<1>2. /\ is(plus(a, c), a.num * c.den + c.num * a.den, a.den * c.den)
      /\ is(plus(b, d), b.num * d.den + d.num * b.den, b.den * d.den)
  BY IsSelf, IsPlus
<1> DEFINE A == a.num * c.den
           C == c.num * a.den
           B == b.num * d.den
           D == d.num * b.den
           e == b.den * d.den
           f == a.den * c.den
<1>3. A * e <= B * f
  <2>1. (a.num * b.den) * (c.den * d.den) <= (b.num * a.den) * (c.den * d.den)
    BY <1>1, Monotonic, Product DEF leq
  <2>2. /\ (a.num * b.den) * (c.den * d.den) = A * e
        /\ (b.num * a.den) * (c.den * d.den) = B * f
    BY <1>1
  <2> QED
    BY <2>1, <2>2
<1>4. C * e <= D * f
  <2>1. (c.num * d.den) * (a.den * b.den) <= (d.num * c.den) * (a.den * b.den)
    BY <1>1, Monotonic, Product DEF leq
  <2>2. /\ (c.num * d.den) * (a.den * b.den) = C * e
        /\ (d.num * c.den) * (a.den * b.den) = D * f
    BY <1>1
  <2> QED
    BY <2>1, <2>2
<1>5. {A, B, C, D, e, f} \subseteq Nat
  BY <1>1, Product
<1>6. (A + C) * e <= (B + D) * f
  <2> HIDE DEF A, B, C, D, e, f
  <2>1. A * e \in Nat /\ C * e \in Nat /\ B * f \in Nat /\ D * f \in Nat
    BY <1>5, Product
  <2> QED
    BY <1>3, <1>4, <1>5, <2>1, Distribute
<1> QED
  BY <1>2, <1>6, LeqIs

\* The order is transitive,
LEMMA LeqTransitive ==
    ASSUME NEW a \in Frac, NEW b \in Frac, NEW c \in Frac, leq(a, b), leq(b, c)
    PROVE  leq(a, c)
<1>1. /\ {a.num, b.num, c.num} \subseteq Nat
      /\ {a.den, b.den, c.den} \subseteq Nat \ {0}
  BY DEF Frac
<1>2. (a.num * b.den) * c.den <= (b.num * a.den) * c.den
  BY <1>1, Monotonic, Product DEF leq
<1>3. (b.num * c.den) * a.den <= (c.num * b.den) * a.den
  BY <1>1, Monotonic, Product DEF leq
<1>4. b.den * (a.num * c.den) <= b.den * (c.num * a.den)
  <2>1. /\ (a.num * b.den) * c.den = b.den * (a.num * c.den)
        /\ (b.num * a.den) * c.den = (b.num * c.den) * a.den
        /\ (c.num * b.den) * a.den = b.den * (c.num * a.den)
    BY <1>1
  <2>2. {b.den * (a.num * c.den), (b.num * a.den) * c.den, b.den * (c.num * a.den)}
           \subseteq Nat
    BY <1>1, Product
  <2> QED
    BY <1>2, <1>3, <2>1, <2>2
<1>5. a.num * c.den \in Nat /\ c.num * a.den \in Nat
  BY <1>1, Product
<1> QED
  BY <1>1, <1>4, <1>5, Cancel DEF leq

\* and reflexive.
LEMMA LeqReflexive == ASSUME NEW a \in Frac PROVE leq(a, a)
BY Product DEF leq, Frac

\* One is 1 and Zero is 0.
LEMMA OneAndZero == is(One, 1, 1) /\ is(Zero, 0, 1)
BY IsFrac DEF One, Zero

\* A factor from 1 up raises a number, one from 1 down lowers it.
LEMMA Loading ==
    ASSUME NEW a \in Frac, NEW b \in Frac
    PROVE  /\ leq(One, b) => leq(a, times(a, b))
           /\ leq(b, One) => leq(times(a, b), a)
<1>1. /\ a.num \in Nat /\ a.den \in Nat \ {0}
      /\ is(a, a.num, a.den) /\ is(a, a.num * 1, a.den * 1)
  BY IsSelf DEF Frac
<1>2. One \in Frac /\ is(times(a, One), a.num * 1, a.den * 1) /\ times(a, One) \in Frac
  <2>1. is(times(a, One), a.num * 1, a.den * 1)
    BY Zenon, <1>1, OneAndZero, IsTimes
  <2> QED
    BY <2>1, OneAndZero DEF is
<1>3. leq(a, times(a, One)) /\ leq(times(a, One), a)
  BY <1>1, <1>2, LeqIs
<1>4. leq(a, a) /\ times(a, b) \in Frac
  BY LeqReflexive, TimesValue
<1>5. leq(One, b) => leq(times(a, One), times(a, b))
  BY <1>2, <1>4, TimesGrows
<1>6. leq(b, One) => leq(times(a, b), times(a, One))
  BY <1>2, <1>4, TimesGrows
<1> QED
  BY <1>2, <1>3, <1>4, <1>5, <1>6, LeqTransitive

-----------------------------------------------------------------------------
\* Rounding.

\* m is n / d rounded half up.
rounds(m, n, d) == m \in Nat /\ 2 * (m * d) <= 2 * n + d /\ 2 * n < 2 * (m * d) + d

\* _to_minor rounds to the nearest cent, halves up.
LEMMA Rounding ==
    ASSUME NEW a, NEW n, NEW d, is(a, n, d)
    PROVE  rounds(_to_minor(a), n, d)
<1> DEFINE q == a.num \div a.den
           r == a.num % a.den
           m == _to_minor(a)
<1>1. a.num \in Nat /\ a.den \in Nat \ {0} /\ n \in Nat /\ d \in Nat \ {0}
  BY DEF is, Frac
<1>2. q \in Nat /\ r \in Nat /\ r < a.den /\ r = a.num - a.den * q /\ a.den * q \in Nat
  BY <1>1, Quotient
<1>3. m = q + (IF 2 * r >= a.den THEN 1 ELSE 0)
  BY DEF _to_minor
<1> HIDE DEF q, r, m
<1>4. rounds(m, a.num, a.den)
  <2>1. CASE 2 * r >= a.den
    <3>1. m = q + 1 /\ m \in Nat
      BY <1>2, <1>3, <2>1
    <3>2. m * a.den = a.den * q + a.den
      BY <1>1, <1>2, <3>1
    <3> DEFINE w == a.den * q
               z == m * a.den
    <3>3. w \in Nat /\ z = w + a.den /\ r = a.num - w
      BY <1>2, <3>2
    <3> HIDE DEF w, z
    <3>4. 2 * z <= 2 * a.num + a.den /\ 2 * a.num < 2 * z + a.den
      BY <1>1, <1>2, <2>1, <3>3
    <3> QED
      BY <3>1, <3>4 DEF rounds, z
  <2>2. CASE 2 * r < a.den
    <3>1. m = q /\ m * a.den = a.den * q
      BY <1>1, <1>2, <1>3, <2>2
    <3> QED
      BY <1>1, <1>2, <2>2, <3>1 DEF rounds
  <2> QED
    BY <1>1, <1>2, <2>1, <2>2
<1>5. m \in Nat
  BY <1>4 DEF rounds
<1> DEFINE A == a.den * n
           M == a.den * (m * d)
           E == a.den * d
<1>6. {A, M, E} \subseteq Nat /\ E # 0 /\ a.num * d = A /\ (m * a.den) * d = M
  <2>1. n * a.den = A /\ (m * a.den) * d = M
    BY <1>1, <1>5
  <2>2. {A, M, E} \subseteq Nat /\ E # 0
    BY <1>1, <1>5, Product, Positive
  <2> QED
    BY <2>1, <2>2 DEF is
<1>7. 2 * M <= 2 * A + E /\ 2 * A < 2 * M + E
  <2>1. /\ (2 * (m * a.den)) * d <= (2 * a.num + a.den) * d
        /\ (2 * a.num + 1) * d <= (2 * (m * a.den) + a.den) * d
    <3>1. /\ 2 * (m * a.den) <= 2 * a.num + a.den
          /\ 2 * a.num + 1 <= 2 * (m * a.den) + a.den
          /\ m * a.den \in Nat
      BY <1>1, <1>4, <1>5, Product DEF rounds
    <3> QED
      BY <1>1, <3>1, Monotonic
  <2>2. /\ (2 * (m * a.den)) * d = 2 * ((m * a.den) * d)
        /\ (2 * a.num + a.den) * d = 2 * (a.num * d) + E
        /\ (2 * a.num + 1) * d = 2 * (a.num * d) + d
        /\ (2 * (m * a.den) + a.den) * d = 2 * ((m * a.den) * d) + E
    BY <1>1, <1>5
  <2> HIDE DEF A, M, E
  <2> QED
    BY <1>1, <1>6, <2>1, <2>2
<1>8. 2 * (m * d) <= 2 * n + d /\ 2 * n < 2 * (m * d) + d
  <2>1. /\ 2 * M = a.den * (2 * (m * d)) /\ 2 * A + E = a.den * (2 * n + d)
        /\ 2 * A = a.den * (2 * n) /\ 2 * M + E = a.den * (2 * (m * d) + d)
    BY <1>1, <1>5
  <2>2. m * d \in Nat
    BY <1>1, <1>5, Product
  <2> DEFINE x == 2 * (m * d)
             y == 2 * n + d
             z == 2 * n
             w == 2 * (m * d) + d
  <2>3. {x, y, z, w} \subseteq Nat
    BY <1>1, <2>2
  <2>4. a.den * x <= a.den * y /\ ~(a.den * w <= a.den * z)
    BY <1>6, <1>7, <2>1
  <2> HIDE DEF x, y, z, w
  <2>5. x <= y /\ ~(w <= z)
    BY <1>1, <2>3, <2>4, Cancel
  <2>6. z < w
    BY <2>3, <2>5
  <2> QED
    BY <2>5, <2>6 DEF x, y, z, w
<1> QED
  BY <1>5, <1>8 DEF rounds, m

\* A larger number does not round to less.
LEMMA RoundsUp ==
    ASSUME NEW m, NEW n \in Nat, NEW d \in Nat \ {0}, rounds(m, n, d),
           NEW k, NEW p \in Nat, NEW q \in Nat \ {0}, rounds(k, p, q),
           n * q <= p * d
    PROVE  m <= k
<1> SUFFICES ASSUME k + 1 <= m PROVE FALSE
  BY DEF rounds
<1>1. m \in Nat /\ k \in Nat /\ m * d \in Nat /\ k * q \in Nat
  BY Product DEF rounds
<1> DEFINE N == n * q
           P == p * d
           D == d * q
           K == (k * d) * q
           M == (m * d) * q
<1>2. 2 * M <= 2 * N + D
  <2>1. (2 * (m * d)) * q <= (2 * n + d) * q
    BY <1>1, Monotonic DEF rounds
  <2>2. (2 * (m * d)) * q = 2 * M /\ (2 * n + d) * q = 2 * N + D
    BY <1>1
  <2> QED
    BY <2>1, <2>2
<1>3. 2 * P + d <= 2 * K + D
  <2>1. (2 * p + 1) * d <= (2 * (k * q) + q) * d
    BY <1>1, Monotonic DEF rounds
  <2>2. (2 * p + 1) * d = 2 * P + d /\ (2 * (k * q) + q) * d = 2 * K + D
    BY <1>1
  <2> QED
    BY <2>1, <2>2
<1>4. K + D <= M
  <2>1. ((k + 1) * d) * q <= (m * d) * q
    BY <1>1, Monotonic, Product
  <2>2. ((k + 1) * d) * q = K + D
    BY <1>1
  <2> QED
    BY <2>1, <2>2
<1>5. {N, P, D, K, M} \subseteq Nat /\ N <= P
  BY <1>1, Product
<1> HIDE DEF N, P, D, K, M
<1> QED
  BY <1>2, <1>3, <1>4, <1>5

\* Rounding never turns two premiums round.
LEMMA MinorGrows ==
    ASSUME NEW a \in Frac, NEW b \in Frac, leq(a, b)
    PROVE  /\ _to_minor(a) \in Nat /\ _to_minor(b) \in Nat
           /\ _to_minor(a) <= _to_minor(b)
<1>1. /\ a.num \in Nat /\ a.den \in Nat \ {0} /\ b.num \in Nat /\ b.den \in Nat \ {0}
      /\ a.num * b.den <= b.num * a.den
  BY DEF Frac, leq
<1>2. rounds(_to_minor(a), a.num, a.den) /\ rounds(_to_minor(b), b.num, b.den)
  BY IsSelf, Rounding
<1> DEFINE n == a.num
           d == a.den
           p == b.num
           q == b.den
<1> HIDE DEF n, d, p, q
<1>3. _to_minor(a) <= _to_minor(b)
  <2>1. /\ n \in Nat /\ d \in Nat \ {0} /\ p \in Nat /\ q \in Nat \ {0} /\ n * q <= p * d
        /\ rounds(_to_minor(a), n, d) /\ rounds(_to_minor(b), p, q)
    BY <1>1, <1>2 DEF n, d, p, q
  <2> QED
    BY <2>1, RoundsUp
<1> QED
  BY <1>2, <1>3 DEF rounds

\* Two fractions of one number.
LEMMA IsBoth ==
    ASSUME NEW a, NEW b, NEW n, NEW d, is(a, n, d), is(b, n, d)
    PROVE  /\ is(a, b.num, b.den) /\ leq(a, b) /\ leq(b, a)
           /\ _to_minor(a) = _to_minor(b)
<1>1. /\ b.num \in Nat /\ b.den \in Nat \ {0} /\ n \in Nat /\ d \in Nat \ {0}
      /\ a \in Frac /\ b \in Frac
  BY DEF is, Frac
<1>2. b.num * d = n * b.den
  BY DEF is
<1>3. is(a, b.num, b.den)
  <2> DEFINE p == b.num
             q == b.den
  <2>1. p \in Nat /\ q \in Nat \ {0} /\ n * q = p * d
    BY <1>1, <1>2
  <2> HIDE DEF p, q
  <2>2. is(a, p, q)
    BY <2>1, IsAlso
  <2> QED
    BY <2>2 DEF p, q
<1>4. leq(a, b) /\ leq(b, a)
  <2>1. n * d <= n * d
    BY <1>1, Product
  <2> QED
    BY <2>1, LeqIs
<1>5. _to_minor(a) <= _to_minor(b) /\ _to_minor(b) <= _to_minor(a)
      /\ _to_minor(a) \in Nat /\ _to_minor(b) \in Nat
  BY <1>1, <1>4, MinorGrows
<1> QED
  BY <1>3, <1>4, <1>5

-----------------------------------------------------------------------------
\* Fractions that are one number may stand for each other.

equal(a, b) == is(a, b.num, b.den) /\ b \in Frac

\* Two fractions that are the same number are equal.
LEMMA EqualIs ==
    ASSUME NEW a, NEW b, NEW n, NEW d, is(a, n, d), is(b, n, d)
    PROVE  equal(a, b)
<1>1. is(a, b.num, b.den)
  BY IsBoth
<1> QED
  BY <1>1 DEF equal, is

\* Equal fractions are alike in order and in cents.
LEMMA EqualFacts ==
    ASSUME NEW a, NEW b, equal(a, b)
    PROVE  /\ a \in Frac /\ b \in Frac /\ equal(b, a)
           /\ leq(a, b) /\ leq(b, a) /\ _to_minor(a) = _to_minor(b)
<1>1. is(a, b.num, b.den) /\ is(b, b.num, b.den) /\ a \in Frac /\ b \in Frac
  BY IsSelf DEF equal, is
<1>2. leq(a, b) /\ leq(b, a) /\ _to_minor(a) = _to_minor(b)
  BY <1>1, IsBoth
<1> QED
  BY <1>1, <1>2, EqualIs

\* A fraction equals itself.
LEMMA EqualReflexive == ASSUME NEW a \in Frac PROVE equal(a, a)
BY IsSelf DEF equal

\* Equality is transitive.
LEMMA EqualTransitive ==
    ASSUME NEW a, NEW b, NEW c, equal(a, b), equal(b, c)
    PROVE  equal(a, c)
<1>1. is(a, b.num, b.den) /\ is(c, b.num, b.den)
  BY EqualFacts DEF equal
<1> QED
  BY <1>1, EqualIs

\* Equal factors have equal products.
LEMMA EqualTimes ==
    ASSUME NEW a, NEW b, NEW c, NEW d, equal(a, b), equal(c, d)
    PROVE  equal(times(a, c), times(b, d))
<1>1. /\ is(a, b.num, b.den) /\ is(b, b.num, b.den)
      /\ is(c, d.num, d.den) /\ is(d, d.num, d.den)
  BY IsSelf DEF equal
<1>2. /\ is(times(a, c), b.num * d.num, b.den * d.den)
      /\ is(times(b, d), b.num * d.num, b.den * d.den)
  BY <1>1, IsTimes
<1> QED
  BY <1>2, EqualIs

\* Equal terms have equal sums.
LEMMA EqualPlus ==
    ASSUME NEW a, NEW b, NEW c, NEW d, equal(a, b), equal(c, d)
    PROVE  equal(plus(a, c), plus(b, d))
<1>1. /\ is(a, b.num, b.den) /\ is(b, b.num, b.den)
      /\ is(c, d.num, d.den) /\ is(d, d.num, d.den)
  BY IsSelf DEF equal
<1>2. /\ is(plus(a, c), b.num * d.den + d.num * b.den, b.den * d.den)
      /\ is(plus(b, d), b.num * d.den + d.num * b.den, b.den * d.den)
  BY <1>1, IsPlus
<1> QED
  BY <1>2, EqualIs

\* Two factors may change places.
LEMMA EqualSwap ==
    ASSUME NEW a \in Frac, NEW b \in Frac
    PROVE  equal(times(a, b), times(b, a))
<1>1. /\ is(times(a, b), a.num * b.num, a.den * b.den)
      /\ is(times(b, a), b.num * a.num, b.den * a.den)
  BY IsSelf, IsTimes
<1>2. b.num * a.num = a.num * b.num /\ b.den * a.den = a.den * b.den
  BY DEF Frac
<1> QED
  BY <1>1, <1>2, EqualIs

\* A product may be taken in any grouping.
LEMMA EqualRegroup ==
    ASSUME NEW a \in Frac, NEW b \in Frac, NEW c \in Frac
    PROVE  equal(times(times(a, b), c), times(a, times(b, c)))
<1>1. /\ is(times(times(a, b), c), (a.num * b.num) * c.num, (a.den * b.den) * c.den)
      /\ is(times(a, times(b, c)), a.num * (b.num * c.num), a.den * (b.den * c.den))
  <2>1. /\ is(times(a, b), a.num * b.num, a.den * b.den)
        /\ is(times(b, c), b.num * c.num, b.den * c.den)
    BY IsSelf, IsTimes
  <2> QED
    BY <2>1, IsSelf, IsTimes
<1>2. /\ (a.num * b.num) * c.num = a.num * (b.num * c.num)
      /\ (a.den * b.den) * c.den = a.den * (b.den * c.den)
  BY Reorder DEF Frac
<1> QED
  BY <1>1, <1>2, EqualIs

\* Multiplying by One changes nothing.
LEMMA EqualOne == ASSUME NEW a \in Frac PROVE equal(times(a, One), a)
<1>1. is(times(a, One), a.num * 1, a.den * 1)
  BY Zenon, OneAndZero, IsSelf, IsTimes
<1>2. a.num * 1 = a.num /\ a.den * 1 = a.den
  BY DEF Frac
<1> QED
  BY <1>1, <1>2, IsSelf, EqualIs

\* Adding a part of a number multiplies it by one and that part.
LEMMA EqualAdded ==
    ASSUME NEW a \in Frac, NEW f \in Frac, NEW i \in Frac
    PROVE  equal(plus(plus(a, f), times(a, i)), plus(times(a, plus(One, i)), f))
<1> DEFINE n == a.num
           d == a.den
           p == f.num
           q == f.den
           u == i.num
           v == i.den
<1>1. {n, p, u} \subseteq Nat /\ {d, q, v} \subseteq Nat \ {0}
  BY DEF Frac
<1>2. is(a, n, d) /\ is(f, p, q) /\ is(i, u, v) /\ is(One, 1, 1)
  BY IsSelf, OneAndZero
<1> HIDE DEF n, d, p, q, u, v
<1>3. is(plus(a, f), n * q + p * d, d * q) /\ is(times(a, i), n * u, d * v)
  BY <1>2, IsPlus, IsTimes
<1>4. is(plus(plus(a, f), times(a, i)),
         (n * q + p * d) * (d * v) + (n * u) * (d * q), (d * q) * (d * v))
  BY Zenon, <1>3, IsPlus
<1>5. is(plus(One, i), 1 * v + u * 1, 1 * v)
  BY Zenon, <1>2, IsPlus
<1>6. is(plus(One, i), v + u, v)
  <2>1. 1 * v + u * 1 = v + u /\ 1 * v = v
    BY <1>1
  <2> QED
    BY <1>5, <2>1
<1>7. is(plus(times(a, plus(One, i)), f),
         (n * (v + u)) * q + p * (d * v), (d * v) * q)
  <2>1. is(times(a, plus(One, i)), n * (v + u), d * v)
    BY Zenon, <1>2, <1>6, IsTimes
  <2> QED
    BY Zenon, <1>2, <2>1, IsPlus
<1> DEFINE X == (n * (v + u)) * q + p * (d * v)
           Y == (d * v) * q
<1>8. X \in Nat /\ Y \in Nat \ {0}
  <2>1. X \in Nat
    <3>1. (n * (v + u)) * q \in Nat /\ p * (d * v) \in Nat
      BY <1>1, Product
    <3> QED
      BY <3>1
  <2>2. Y \in Nat \ {0}
    BY <1>1, Positive
  <2> QED
    BY <2>1, <2>2
<1>9. is(plus(plus(a, f), times(a, i)), d * X, d * Y)
  <2>1. (n * q + p * d) * (d * v) + (n * u) * (d * q) = d * X
    BY <1>1
  <2>2. (d * q) * (d * v) = d * Y
    BY <1>1
  <2> QED
    BY <1>4, <2>1, <2>2
<1>10. is(plus(plus(a, f), times(a, i)), X, Y)
  <2> HIDE DEF X, Y
  <2>1. (d * X) * Y = X * (d * Y)
    BY <1>1, <1>8
  <2> QED
    BY <1>8, <1>9, <2>1, IsAlso
<1> QED
  BY <1>7, <1>10, EqualIs

-----------------------------------------------------------------------------
\* The trail.

Stage == {"loss_cost", "technical", "commercial", "taxes"}

\* The engine's own labels are listed: the provers cannot tell a literal is a STRING.
Label ==
    STRING \union {"base_rate", "occupancy_factor", "expense_loading", "risk_margin",
                   "cat_provision", "commercial_adjustment", "policy_fee", "ipt"}

Line == [label : Label, stage : Stage, subtotal : Frac]

\* The trail new goes on from trail with lines of one stage.
grown(trail, new, stage) ==
    /\ trail \in Seq(Line) /\ new \in Seq(Line)
    /\ Len(trail) <= Len(new)
    /\ \A i \in 1 .. Len(trail) : new[i] = trail[i]
    /\ \A i \in Len(trail) + 1 .. Len(new) : new[i].stage = stage

\* line appends one line, whose subtotal is the one given.
LEMMA OneLine ==
    ASSUME NEW trail \in Seq(Line), NEW label \in Label, NEW stage \in Stage,
           NEW a \in Frac
    PROVE  /\ grown(trail, line(trail, label, stage, a), stage)
           /\ subtotal_of(line(trail, label, stage, a)) = a
           /\ Len(line(trail, label, stage, a)) = Len(trail) + 1
<1> DEFINE new == [label |-> label, stage |-> stage, subtotal |-> a]
<1>1. new \in Line
  BY DEF Line
<1>2. line(trail, label, stage, a) = Append(trail, new)
  BY DEF line
<1> HIDE DEF new
<1>3. /\ Append(trail, new) \in Seq(Line) /\ Len(Append(trail, new)) = Len(trail) + 1
      /\ Append(trail, new)[Len(trail) + 1] = new
      /\ \A i \in 1 .. Len(trail) : Append(trail, new)[i] = trail[i]
  BY <1>1
<1>4. \A i \in Len(trail) + 1 .. Len(trail) + 1 : i = Len(trail) + 1
  OBVIOUS
<1>5. new.stage = stage /\ new.subtotal = a
  BY DEF new
<1> QED
  BY <1>2, <1>3, <1>4, <1>5 DEF grown, subtotal_of

\* A trail goes on from itself.
LEMMA NoLine == ASSUME NEW trail \in Seq(Line), NEW stage PROVE grown(trail, trail, stage)
BY DEF grown

\* A trail that goes on twice within a stage goes on within it.
LEMMA GrownFurther ==
    ASSUME NEW a, NEW b, NEW c, NEW stage, grown(a, b, stage), grown(b, c, stage)
    PROVE  grown(a, c, stage)
<1>1. /\ a \in Seq(Line) /\ b \in Seq(Line) /\ c \in Seq(Line)
      /\ Len(a) \in Nat /\ Len(b) \in Nat /\ Len(c) \in Nat
      /\ Len(a) <= Len(b) /\ Len(b) <= Len(c)
  BY DEF grown
<1>2. \A i \in 1 .. Len(a) : c[i] = a[i]
  BY <1>1 DEF grown
<1>3. ASSUME NEW i \in Len(a) + 1 .. Len(c) PROVE c[i].stage = stage
  <2>1. CASE i \in Len(a) + 1 .. Len(b)
    <3>1. c[i] = b[i]
      BY <1>1, <2>1 DEF grown
    <3> QED
      BY <2>1, <3>1 DEF grown
  <2>2. CASE i \in Len(b) + 1 .. Len(c)
    BY <2>2 DEF grown
  <2> QED
    BY <1>1, <2>1, <2>2
<1> QED
  BY <1>1, <1>2, <1>3 DEF grown

\* A trail with a line has a subtotal.
LEMMA Subtotal ==
    ASSUME NEW trail \in Seq(Line), Len(trail) > 0
    PROVE  subtotal_of(trail) \in Frac
<1>1. trail[Len(trail)] \in Line
  OBVIOUS
<1> QED
  BY <1>1 DEF subtotal_of, Line

-----------------------------------------------------------------------------
\* The adjustments, one after another.

Risk ==
    [tiv_eur : Nat \ {0}, occupancy : Occupancy, sprinklered : BOOLEAN,
     commercial_adjustment : Frac]

\* A risk that the table prices.
Priced(s, t) == s \in Risk /\ IsTable(t) /\ priceable(s, t)

adjustments(t) == 0 .. Len(t.adjustments)

\* The trail after each adjustment, as loss_cost builds it.
adjusting(s, t) ==
    CHOOSE f : f = [n \in 0 .. Len(t.adjustments) |->
                       IF n = 0 THEN base_lines(s, t)
                       ELSE adjust(f[n - 1], t.adjustments[n], s)]

\* The product of the factors so far, as Factors builds it.
factoring(s, t) ==
    CHOOSE f : f = [n \in 0 .. Len(t.adjustments) |->
                       IF n = 0 THEN One
                       ELSE times(IF applies(t.adjustments[n], s)
                                    THEN t.adjustments[n].factor ELSE One,
                                  f[n - 1])]

\* Both recursions have a solution: every prefix of them has one.
LEMMA Adjusting ==
    ASSUME NEW s, NEW t, Len(t.adjustments) \in Nat
    PROVE  /\ loss_cost(s, t) = adjusting(s, t)[Len(t.adjustments)]
           /\ adjusting(s, t)[0] = base_lines(s, t)
           /\ \A n \in adjustments(t) \ {0} :
                 adjusting(s, t)[n] = adjust(adjusting(s, t)[n - 1], t.adjustments[n], s)
<1> DEFINE step(x, n) == adjust(x, t.adjustments[n], s)
           first == base_lines(s, t)
           S == {n \in Nat : \E f : f = [k \in 0 .. n |->
                                          IF k = 0 THEN first ELSE step(f[k - 1], k)]}
<1>1. 0 \in S
  <2> HIDE DEF step, first
  <2> DEFINE f == [k \in 0 .. 0 |-> first]
  <2>1. f = [k \in 0 .. 0 |-> IF k = 0 THEN first ELSE step(f[k - 1], k)]
    OBVIOUS
  <2> QED
    BY <2>1
<1>2. ASSUME NEW n \in Nat, n \in S PROVE n + 1 \in S
  <2> HIDE DEF step, first
  <2>1. PICK f : f = [k \in 0 .. n |-> IF k = 0 THEN first ELSE step(f[k - 1], k)]
    BY <1>2
  <2> DEFINE g == [k \in 0 .. n + 1 |-> IF k = n + 1 THEN step(f[n], n + 1) ELSE f[k]]
  <2>2. \A k \in 0 .. n : f[k] = IF k = 0 THEN first ELSE step(f[k - 1], k)
    BY <2>1, Zenon
  <2>3. ASSUME NEW k \in 0 .. n + 1
        PROVE  g[k] = IF k = 0 THEN first ELSE step(g[k - 1], k)
    <3>1. CASE k = n + 1
      <4>1. g[k] = step(f[n], n + 1) /\ g[k - 1] = f[n] /\ k # 0
        BY <3>1
      <4> QED
        BY <3>1, <4>1
    <3>2. CASE k # n + 1
      <4>1. k \in 0 .. n /\ g[k] = f[k]
        BY <3>2
      <4>2. k # 0 => k - 1 \in 0 .. n + 1 /\ k - 1 # n + 1
        BY <3>2
      <4>3. k # 0 => g[k - 1] = f[k - 1]
        BY <4>2
      <4> QED
        BY <2>2, <4>1, <4>3
    <3> QED
      BY <3>1, <3>2
  <2>4. g = [k \in 0 .. n + 1 |-> g[k]]
    OBVIOUS
  <2> HIDE DEF g
  <2>5. g = [k \in 0 .. n + 1 |-> IF k = 0 THEN first ELSE step(g[k - 1], k)]
    BY <2>3, <2>4, Zenon
  <2> QED
    BY <2>5
<1>3. \A n \in Nat : n \in S
  <2> HIDE DEF S
  <2> QED
    BY <1>1, <1>2, Induction
<1>4. PICK f : f = [n \in 0 .. Len(t.adjustments) |->
                       IF n = 0 THEN base_lines(s, t)
                       ELSE adjust(f[n - 1], t.adjustments[n], s)]
  BY <1>3
<1> DEFINE a == adjusting(s, t)
<1>5. a = [n \in 0 .. Len(t.adjustments) |->
              IF n = 0 THEN base_lines(s, t) ELSE adjust(a[n - 1], t.adjustments[n], s)]
  BY <1>4, Zenon DEF adjusting
<1>6. loss_cost(s, t) = a[Len(t.adjustments)]
  BY Zenon DEF loss_cost, adjusting
<1> HIDE DEF a
<1>7. /\ a[0] = base_lines(s, t)
      /\ \A n \in adjustments(t) \ {0} : a[n] = adjust(a[n - 1], t.adjustments[n], s)
  BY <1>5 DEF adjustments
<1> QED
  BY <1>6, <1>7 DEF a
effect(a, s) == IF applies(a, s) THEN a.factor ELSE One

\* The product of the factors is computed from the first adjustment to the last.
LEMMA Factoring ==
    ASSUME NEW s, NEW t, Len(t.adjustments) \in Nat
    PROVE  /\ Factors(s, t) = factoring(s, t)[Len(t.adjustments)]
           /\ factoring(s, t)[0] = One
           /\ \A n \in adjustments(t) \ {0} :
                 factoring(s, t)[n] = times(effect(t.adjustments[n], s),
                                            factoring(s, t)[n - 1])
<1> DEFINE step(x, n) == times(IF applies(t.adjustments[n], s)
                                 THEN t.adjustments[n].factor ELSE One, x)
           first == One
           S == {n \in Nat : \E f : f = [k \in 0 .. n |->
                                          IF k = 0 THEN first ELSE step(f[k - 1], k)]}
<1>1. 0 \in S
  <2> HIDE DEF step, first
  <2> DEFINE f == [k \in 0 .. 0 |-> first]
  <2>1. f = [k \in 0 .. 0 |-> IF k = 0 THEN first ELSE step(f[k - 1], k)]
    OBVIOUS
  <2> QED
    BY <2>1
<1>2. ASSUME NEW n \in Nat, n \in S PROVE n + 1 \in S
  <2> HIDE DEF step, first
  <2>1. PICK f : f = [k \in 0 .. n |-> IF k = 0 THEN first ELSE step(f[k - 1], k)]
    BY <1>2
  <2> DEFINE g == [k \in 0 .. n + 1 |-> IF k = n + 1 THEN step(f[n], n + 1) ELSE f[k]]
  <2>2. \A k \in 0 .. n : f[k] = IF k = 0 THEN first ELSE step(f[k - 1], k)
    BY <2>1, Zenon
  <2>3. ASSUME NEW k \in 0 .. n + 1
        PROVE  g[k] = IF k = 0 THEN first ELSE step(g[k - 1], k)
    <3>1. CASE k = n + 1
      <4>1. g[k] = step(f[n], n + 1) /\ g[k - 1] = f[n] /\ k # 0
        BY <3>1
      <4> QED
        BY <3>1, <4>1
    <3>2. CASE k # n + 1
      <4>1. k \in 0 .. n /\ g[k] = f[k]
        BY <3>2
      <4>2. k # 0 => k - 1 \in 0 .. n + 1 /\ k - 1 # n + 1
        BY <3>2
      <4>3. k # 0 => g[k - 1] = f[k - 1]
        BY <4>2
      <4> QED
        BY <2>2, <4>1, <4>3
    <3> QED
      BY <3>1, <3>2
  <2>4. g = [k \in 0 .. n + 1 |-> g[k]]
    OBVIOUS
  <2> HIDE DEF g
  <2>5. g = [k \in 0 .. n + 1 |-> IF k = 0 THEN first ELSE step(g[k - 1], k)]
    BY <2>3, <2>4, Zenon
  <2> QED
    BY <2>5
<1>3. \A n \in Nat : n \in S
  <2> HIDE DEF S
  <2> QED
    BY <1>1, <1>2, Induction
<1>4. PICK f : f = [n \in 0 .. Len(t.adjustments) |->
                       IF n = 0 THEN One
                       ELSE times(IF applies(t.adjustments[n], s)
                                    THEN t.adjustments[n].factor ELSE One,
                                  f[n - 1])]
  BY <1>3
<1> DEFINE a == factoring(s, t)
<1>5. a = [n \in 0 .. Len(t.adjustments) |->
              IF n = 0 THEN One
              ELSE times(IF applies(t.adjustments[n], s)
                           THEN t.adjustments[n].factor ELSE One,
                         a[n - 1])]
  BY <1>4, Zenon DEF factoring
<1>6. Factors(s, t) = a[Len(t.adjustments)]
  BY Zenon DEF Factors, factoring
<1> HIDE DEF a
<1>7. /\ a[0] = One
      /\ \A n \in adjustments(t) \ {0} :
            a[n] = times(effect(t.adjustments[n], s), a[n - 1])
  BY <1>5 DEF adjustments, effect
<1> QED
  BY <1>6, <1>7 DEF a

-----------------------------------------------------------------------------
\* The loss cost.

\* The parts of a rate table are numbers.
LEMMA TableFacts ==
    ASSUME NEW t, IsTable(t)
    PROVE  /\ Len(t.adjustments) \in Nat /\ adjustments(t) \subseteq Nat
           /\ \A n \in 1 .. Len(t.adjustments) :
                 /\ t.adjustments[n].name \in STRING /\ t.adjustments[n].factor \in Frac
                 /\ t.adjustments[n].applies_when \in Flags \union {NoFlag}
           /\ \A o \in DOMAIN t.occupancy_factors : t.occupancy_factors[o] \in Frac
           /\ t.base_rate_permille \in Frac /\ t.expense_loading \in Frac
           /\ t.risk_margin \in Frac /\ t.cat_provision \in Frac /\ t.ipt_rate \in Frac
           /\ t.fixed_fees_minor \in Nat
<1> DEFINE Adjustment == [name : STRING, factor : Frac,
                          applies_when : Flags \union {NoFlag}]
<1>1. t.adjustments \in Seq(Adjustment)
  BY DEF IsTable
<1>2. /\ Len(t.adjustments) \in Nat
      /\ \A n \in 1 .. Len(t.adjustments) : t.adjustments[n] \in Adjustment
  <2> DEFINE l == t.adjustments
  <2>1. l \in Seq(Adjustment)
    BY <1>1
  <2> HIDE DEF l, Adjustment
  <2>2. Len(l) \in Nat /\ \A n \in 1 .. Len(l) : l[n] \in Adjustment
    BY <2>1
  <2> QED
    BY <2>2 DEF l
<1>3. adjustments(t) \subseteq Nat
  BY <1>2 DEF adjustments
<1>4. \A o \in DOMAIN t.occupancy_factors : t.occupancy_factors[o] \in Frac
  BY DEF IsTable
<1>5. /\ t.base_rate_permille \in Frac /\ t.expense_loading \in Frac
      /\ t.risk_margin \in Frac /\ t.cat_provision \in Frac /\ t.ipt_rate \in Frac
      /\ t.fixed_fees_minor \in Nat
  BY DEF IsTable
<1> QED
  BY <1>2, <1>3, <1>4, <1>5

\* The trail begins with the base rate and the occupancy.
LEMMA BaseLines ==
    ASSUME NEW s, NEW t, Priced(s, t)
    PROVE  /\ base_premium(s, t) \in Frac /\ t.occupancy_factors[s.occupancy] \in Frac
           /\ base_lines(s, t) \in Seq(Line) /\ Len(base_lines(s, t)) > 0
           /\ \A i \in 1 .. Len(base_lines(s, t)) : base_lines(s, t)[i].stage = "loss_cost"
           /\ subtotal_of(base_lines(s, t))
                 = times(base_premium(s, t), t.occupancy_factors[s.occupancy])
<1>1. s.tiv_eur \in Nat /\ t.base_rate_permille \in Frac
      /\ t.occupancy_factors[s.occupancy] \in Frac
  BY TableFacts DEF Priced, priceable, Risk
<1>2. frac(1, 1000) \in Frac /\ frac(s.tiv_eur, 1) \in Frac
  BY <1>1, FracValue
<1>3. base_premium(s, t) \in Frac
  BY <1>1, <1>2, TimesValue DEF base_premium
<1> DEFINE base == base_premium(s, t)
           factored == times(base, t.occupancy_factors[s.occupancy])
           first == line(<< >>, "base_rate", "loss_cost", base)
           second == line(first, "occupancy_factor", "loss_cost", factored)
<1>4. factored \in Frac
  BY <1>1, <1>3, TimesValue
<1>5. base_lines(s, t) = second
  BY DEF base_lines
<1> HIDE DEF base, factored
<1>6. grown(<< >>, first, "loss_cost") /\ Len(first) = 1
  <2>1. << >> \in Seq(Line) /\ Len(<< >>) = 0 /\ base \in Frac
    BY <1>3 DEF base
  <2>2. "base_rate" \in Label /\ "loss_cost" \in Stage
    BY DEF Label, Stage
  <2>3. grown(<< >>, first, "loss_cost") /\ Len(first) = Len(<< >>) + 1
    BY Zenon, <2>1, <2>2, OneLine
  <2> QED
    BY <2>1, <2>3
<1>7. first \in Seq(Line)
  BY <1>6 DEF grown
<1> HIDE DEF first
<1>8. /\ grown(first, second, "loss_cost") /\ Len(second) = 2
      /\ subtotal_of(second) = factored
  <2>1. "occupancy_factor" \in Label /\ "loss_cost" \in Stage
    BY DEF Label, Stage
  <2>2. /\ grown(first, second, "loss_cost") /\ Len(second) = Len(first) + 1
        /\ subtotal_of(second) = factored
    BY Zenon, <1>4, <1>7, <2>1, OneLine
  <2> QED
    BY <1>6, <2>2
<1> HIDE DEF second
<1>9. grown(<< >>, second, "loss_cost")
  BY <1>6, <1>8, GrownFurther
<1>10. second \in Seq(Line) /\ \A i \in 1 .. Len(second) : second[i].stage = "loss_cost"
  BY <1>9 DEF grown
<1> QED
  BY <1>1, <1>3, <1>5, <1>8, <1>10 DEF factored, base

\* An adjustment that applies multiplies the subtotal by its factor.
LEMMA AdjustLine ==
    ASSUME NEW s, NEW a, a.name \in STRING, a.factor \in Frac,
           NEW trail \in Seq(Line), Len(trail) > 0
    PROVE  /\ grown(trail, adjust(trail, a, s), "loss_cost")
           /\ subtotal_of(trail) \in Frac /\ subtotal_of(adjust(trail, a, s)) \in Frac
           /\ subtotal_of(adjust(trail, a, s))
                 = IF applies(a, s) THEN times(subtotal_of(trail), a.factor)
                   ELSE subtotal_of(trail)
<1>1. subtotal_of(trail) \in Frac /\ times(subtotal_of(trail), a.factor) \in Frac
  BY Subtotal, TimesValue
<1>2. CASE applies(a, s)
  <2> DEFINE new == line(trail, a.name, "loss_cost", times(subtotal_of(trail), a.factor))
  <2>1. adjust(trail, a, s) = new
    BY <1>2 DEF adjust
  <2>2. "loss_cost" \in Stage /\ a.name \in Label
    BY DEF Label, Stage
  <2>3. /\ grown(trail, new, "loss_cost")
        /\ subtotal_of(new) = times(subtotal_of(trail), a.factor)
    BY Zenon, <1>1, <2>2, OneLine
  <2> QED
    BY <1>1, <1>2, <2>1, <2>3
<1>3. CASE ~applies(a, s)
  BY <1>1, <1>3, NoLine DEF adjust
<1> QED
  BY <1>2, <1>3

\* However many adjustments: the trail so far has lines of the loss cost only.
LEMMA AdjustedTrail ==
    ASSUME NEW s, NEW t, Priced(s, t)
    PROVE  \A n \in adjustments(t) :
              /\ adjusting(s, t)[n] \in Seq(Line) /\ Len(adjusting(s, t)[n]) > 0
              /\ \A i \in 1 .. Len(adjusting(s, t)[n]) :
                    adjusting(s, t)[n][i].stage = "loss_cost"
<1> DEFINE tr == adjusting(s, t)
           Good(x) == /\ x \in Seq(Line) /\ Len(x) > 0
                      /\ \A i \in 1 .. Len(x) : x[i].stage = "loss_cost"
           S == {n \in Nat : n \in adjustments(t) => Good(tr[n])}
<1>0. IsTable(t)
  BY DEF Priced
<1>1. 0 \in S
  <2>1. tr[0] = base_lines(s, t)
    BY <1>0, TableFacts, Adjusting
  <2> QED
    BY <2>1, BaseLines
<1>2. ASSUME NEW n \in Nat, n \in S PROVE n + 1 \in S
  <2> SUFFICES ASSUME n + 1 \in adjustments(t) PROVE Good(tr[n + 1])
    OBVIOUS
  <2>1. n \in adjustments(t) /\ n + 1 \in 1 .. Len(t.adjustments)
        /\ n + 1 \in adjustments(t) \ {0} /\ (n + 1) - 1 = n
    BY <1>0, TableFacts DEF adjustments
  <2> DEFINE a == t.adjustments[n + 1]
  <2>2. tr[n + 1] = adjust(tr[n], a, s)
    BY <1>0, <2>1, TableFacts, Adjusting
  <2>3. Good(tr[n])
    BY <1>2, <2>1
  <2>4. a.name \in STRING /\ a.factor \in Frac
    BY <1>0, <2>1, TableFacts
  <2> HIDE DEF a, tr
  <2>5. grown(tr[n], tr[n + 1], "loss_cost")
    BY <2>2, <2>3, <2>4, AdjustLine
  <2> QED
    BY <2>3, <2>5 DEF grown
<1>3. \A n \in Nat : n \in S
  <2> HIDE DEF S
  <2> QED
    BY <1>1, <1>2, Induction
<1> QED
  BY <1>0, <1>3, TableFacts

\* However many adjustments: the subtotal so far is what the formula says.
LEMMA AdjustedSubtotal ==
    ASSUME NEW s, NEW t, Priced(s, t)
    PROVE  \A n \in adjustments(t) :
              /\ factoring(s, t)[n] \in Frac
              /\ equal(subtotal_of(adjusting(s, t)[n]),
                       times(subtotal_of(base_lines(s, t)), factoring(s, t)[n]))
<1> DEFINE tr == adjusting(s, t)
           pr == factoring(s, t)
           base == subtotal_of(base_lines(s, t))
           Good(n) == pr[n] \in Frac /\ equal(subtotal_of(tr[n]), times(base, pr[n]))
           S == {n \in Nat : n \in adjustments(t) => Good(n)}
<1>0. IsTable(t) /\ base \in Frac /\ One \in Frac
  BY BaseLines, Subtotal, OneAndZero DEF Priced, is
<1>1. 0 \in S
  <2>1. tr[0] = base_lines(s, t) /\ pr[0] = One
    BY <1>0, TableFacts, Adjusting, Factoring
  <2> HIDE DEF base
  <2>2. equal(base, times(base, One))
    BY <1>0, EqualOne, EqualFacts
  <2> QED
    BY <1>0, <2>1, <2>2 DEF base
<1>2. ASSUME NEW n \in Nat, n \in S PROVE n + 1 \in S
  <2> SUFFICES ASSUME n + 1 \in adjustments(t) PROVE Good(n + 1)
    OBVIOUS
  <2>1. n \in adjustments(t) /\ n + 1 \in 1 .. Len(t.adjustments)
        /\ n + 1 \in adjustments(t) \ {0} /\ (n + 1) - 1 = n
    BY <1>0, TableFacts DEF adjustments
  <2> DEFINE a == t.adjustments[n + 1]
             f == effect(a, s)
  <2>2. tr[n + 1] = adjust(tr[n], a, s) /\ pr[n + 1] = times(f, pr[n])
    BY <1>0, <2>1, TableFacts, Adjusting, Factoring
  <2>3. Good(n) /\ tr[n] \in Seq(Line) /\ Len(tr[n]) > 0
    BY <1>2, <2>1, AdjustedTrail
  <2>4. a.name \in STRING /\ a.factor \in Frac
    BY <1>0, <2>1, TableFacts
  <2>5. f \in Frac
    BY <1>0, <2>4 DEF effect
  <2> HIDE DEF a, tr, pr, base
  <2>6. equal(subtotal_of(tr[n + 1]), times(subtotal_of(tr[n]), f))
    <3>1. /\ subtotal_of(tr[n]) \in Frac
          /\ subtotal_of(tr[n + 1]) = IF applies(a, s) THEN times(subtotal_of(tr[n]), a.factor)
                                      ELSE subtotal_of(tr[n])
      BY <2>2, <2>3, <2>4, AdjustLine
    <3>2. CASE applies(a, s)
      BY <2>5, <3>1, <3>2, TimesValue, EqualReflexive DEF effect
    <3>3. CASE ~applies(a, s)
      BY <3>1, <3>3, EqualOne, EqualFacts DEF effect
    <3> QED
      BY <3>2, <3>3
  <2> HIDE DEF f
  <2>7. equal(times(subtotal_of(tr[n]), f), times(times(base, pr[n]), f))
    BY <2>3, <2>5, EqualReflexive, EqualTimes
  <2>8. equal(times(times(base, pr[n]), f), times(base, times(pr[n], f)))
    BY <1>0, <2>3, <2>5, EqualRegroup
  <2>9. equal(times(base, times(pr[n], f)), times(base, times(f, pr[n])))
    BY <1>0, <2>3, <2>5, EqualSwap, EqualReflexive, EqualTimes
  <2>10. equal(subtotal_of(tr[n + 1]), times(base, pr[n + 1]))
    BY <2>2, <2>6, <2>7, <2>8, <2>9, EqualTransitive
  <2> QED
    BY <2>2, <2>3, <2>5, <2>10, TimesValue
<1>3. \A n \in Nat : n \in S
  <2> HIDE DEF S
  <2> QED
    BY <1>1, <1>2, Induction
<1> QED
  BY <1>0, <1>3, TableFacts

\* A risk at least as large, no better protected, sold no cheaper.
NoBetter(s, r) ==
    /\ r.tiv_eur >= s.tiv_eur /\ r.occupancy = s.occupancy
    /\ r.sprinklered => s.sprinklered
    /\ leq(s.commercial_adjustment, r.commercial_adjustment)

\* An adjustment that applies to one of two risks alone tells against the other way.
LEMMA GatedFactor ==
    ASSUME HIGH_TIV_THRESHOLD_EUR \in Nat,
           NEW s \in Risk, NEW r \in Risk, NoBetter(s, r), NEW t, IsTable(t), Sound(t),
           NEW n \in 1 .. Len(t.adjustments)
    PROVE  /\ applies(t.adjustments[n], r) /\ ~applies(t.adjustments[n], s)
                 => leq(One, t.adjustments[n].factor)
           /\ applies(t.adjustments[n], s) /\ ~applies(t.adjustments[n], r)
                 => leq(t.adjustments[n].factor, One)
<1> DEFINE a == t.adjustments[n]
<1>1. a.factor \in Frac /\ a.applies_when \in Flags \union {NoFlag} /\ One \in Frac
  BY TableFacts, OneAndZero DEF is
<1>2. /\ a.applies_when = "high_tiv" => leq(One, a.factor)
      /\ a.applies_when = "sprinklered" => leq(a.factor, One)
  BY <1>1, NotLess DEF Sound
<1>3. s.tiv_eur \in Nat /\ r.tiv_eur \in Nat /\ r.tiv_eur >= s.tiv_eur
      /\ (r.sprinklered => s.sprinklered)
  BY DEF Risk, NoBetter
<1> HIDE DEF a
<1>4. applies(a, r) /\ ~applies(a, s) => a.applies_when = "high_tiv"
  BY <1>1, <1>3 DEF applies, flags_of, Flags, NoFlag
<1>5. applies(a, s) /\ ~applies(a, r) => a.applies_when = "sprinklered"
  BY <1>1, <1>3 DEF applies, flags_of, Flags, NoFlag
<1> QED
  BY <1>2, <1>4, <1>5 DEF a

\* A larger risk has no smaller base premium.
LEMMA BaseGrows ==
    ASSUME NEW s, NEW r, NEW t, Priced(s, t), Priced(r, t), NoBetter(s, r)
    PROVE  leq(subtotal_of(base_lines(s, t)), subtotal_of(base_lines(r, t)))
<1>1. s.tiv_eur \in Nat /\ r.tiv_eur \in Nat /\ s.tiv_eur <= r.tiv_eur
      /\ r.occupancy = s.occupancy /\ t.base_rate_permille \in Frac
      /\ t.occupancy_factors[s.occupancy] \in Frac
  BY TableFacts, BaseLines DEF NoBetter, Priced, Risk
<1>2. /\ is(frac(s.tiv_eur, 1), s.tiv_eur, 1) /\ is(frac(r.tiv_eur, 1), r.tiv_eur, 1)
      /\ frac(1, 1000) \in Frac
  BY <1>1, IsFrac, FracValue
<1>3. leq(frac(s.tiv_eur, 1), frac(r.tiv_eur, 1))
      /\ frac(s.tiv_eur, 1) \in Frac /\ frac(r.tiv_eur, 1) \in Frac
  <2> DEFINE x == frac(s.tiv_eur, 1)
             y == frac(r.tiv_eur, 1)
             m == s.tiv_eur
             n == r.tiv_eur
  <2>1. is(x, m, 1) /\ is(y, n, 1) /\ x \in Frac /\ y \in Frac /\ m * 1 <= n * 1
    BY <1>1, <1>2 DEF is
  <2> HIDE DEF x, y, m, n
  <2>2. leq(x, y)
    BY <2>1, LeqIs
  <2> QED
    BY <2>1, <2>2 DEF x, y
<1>4. leq(base_premium(s, t), base_premium(r, t))
  <2>1. times(t.base_rate_permille, frac(1, 1000)) \in Frac
    BY <1>1, <1>2, TimesValue
  <2> QED
    BY <1>3, <2>1, LeqReflexive, TimesGrows DEF base_premium
<1>5. base_premium(s, t) \in Frac /\ base_premium(r, t) \in Frac
  BY BaseLines
<1>6. leq(times(base_premium(s, t), t.occupancy_factors[s.occupancy]),
          times(base_premium(r, t), t.occupancy_factors[s.occupancy]))
  BY <1>1, <1>4, <1>5, LeqReflexive, TimesGrows
<1> QED
  BY <1>1, <1>6, BaseLines

\* However many adjustments: the subtotal so far is no lower for the riskier.
LEMMA AdjustedGrows ==
    ASSUME HIGH_TIV_THRESHOLD_EUR \in Nat,
           NEW s, NEW r, NEW t, Priced(s, t), Priced(r, t), NoBetter(s, r), Sound(t)
    PROVE  \A n \in adjustments(t) :
              leq(subtotal_of(adjusting(s, t)[n]), subtotal_of(adjusting(r, t)[n]))
<1> DEFINE x == adjusting(s, t)
           y == adjusting(r, t)
           S == {n \in Nat : n \in adjustments(t) => leq(subtotal_of(x[n]), subtotal_of(y[n]))}
<1>0. IsTable(t) /\ s \in Risk /\ r \in Risk
  BY DEF Priced
<1>1. 0 \in S
  <2>1. x[0] = base_lines(s, t) /\ y[0] = base_lines(r, t)
    BY <1>0, TableFacts, Adjusting
  <2> QED
    BY <2>1, BaseGrows
<1>2. ASSUME NEW n \in Nat, n \in S PROVE n + 1 \in S
  <2> SUFFICES ASSUME n + 1 \in adjustments(t)
               PROVE  leq(subtotal_of(x[n + 1]), subtotal_of(y[n + 1]))
    OBVIOUS
  <2>1. n \in adjustments(t) /\ n + 1 \in 1 .. Len(t.adjustments)
        /\ n + 1 \in adjustments(t) \ {0} /\ (n + 1) - 1 = n
    BY <1>0, TableFacts DEF adjustments
  <2> DEFINE a == t.adjustments[n + 1]
  <2>2. x[n + 1] = adjust(x[n], a, s) /\ y[n + 1] = adjust(y[n], a, r)
    BY <1>0, <2>1, TableFacts, Adjusting
  <2>3. /\ x[n] \in Seq(Line) /\ Len(x[n]) > 0 /\ y[n] \in Seq(Line) /\ Len(y[n]) > 0
        /\ leq(subtotal_of(x[n]), subtotal_of(y[n]))
    BY <1>2, <2>1, AdjustedTrail
  <2>4. a.name \in STRING /\ a.factor \in Frac
    BY <1>0, <2>1, TableFacts
  <2>5. /\ applies(a, r) /\ ~applies(a, s) => leq(One, a.factor)
        /\ applies(a, s) /\ ~applies(a, r) => leq(a.factor, One)
    BY <1>0, <2>1, GatedFactor
  <2> HIDE DEF a, x, y
  <2> DEFINE u == subtotal_of(x[n])
             v == subtotal_of(y[n])
  <2>6. /\ u \in Frac /\ v \in Frac /\ leq(u, v)
        /\ subtotal_of(x[n + 1]) = IF applies(a, s) THEN times(u, a.factor) ELSE u
        /\ subtotal_of(y[n + 1]) = IF applies(a, r) THEN times(v, a.factor) ELSE v
    BY <2>2, <2>3, <2>4, AdjustLine
  <2> HIDE DEF u, v
  <2>7. /\ times(u, a.factor) \in Frac /\ times(v, a.factor) \in Frac
        /\ leq(times(u, a.factor), times(v, a.factor))
    BY <2>4, <2>6, TimesValue, LeqReflexive, TimesGrows
  <2>8. /\ leq(One, a.factor) => leq(u, times(v, a.factor))
        /\ leq(a.factor, One) => leq(times(u, a.factor), v)
    <3>1. /\ leq(One, a.factor) => leq(v, times(v, a.factor))
          /\ leq(a.factor, One) => leq(times(u, a.factor), u)
      BY <2>4, <2>6, Loading
    <3> QED
      BY <2>6, <2>7, <3>1, LeqTransitive
  <2> QED
    BY <2>5, <2>6, <2>7, <2>8
<1>3. \A n \in Nat : n \in S
  <2> HIDE DEF S
  <2> QED
    BY <1>1, <1>2, Induction
<1> QED
  BY <1>0, <1>3, TableFacts

-----------------------------------------------------------------------------
\* The later stages.

\* The trail new goes on from trail, in one stage, to a subtotal that is a.
goes_to(trail, new, stage, a) ==
    /\ grown(trail, new, stage) /\ Len(new) > 0
    /\ subtotal_of(new) \in Frac /\ equal(subtotal_of(new), a)

\* A loading of nothing changes no premium, so its line may be absent.
LEMMA ZeroLoading ==
    ASSUME NEW a \in Frac, NEW f \in Frac, ~less(Zero, a)
    PROVE  /\ is(a, 0, 1) /\ equal(f, times(f, plus(One, a))) /\ equal(f, plus(f, a))
<1>1. a.num \in Nat /\ a.den \in Nat \ {0} /\ Zero \in Frac /\ is(a, a.num, a.den)
      /\ is(Zero, 0, 1)
  BY OneAndZero, IsSelf DEF Frac, is
<1>2. leq(a, Zero)
  BY <1>1, NotLess
<1>3. a.num * 1 <= 0 * a.den
  BY <1>1, <1>2, LeqIs
<1>4. a.num = 0
  BY <1>1, <1>3
<1>5. is(a, 0, 1)
  BY <1>1, <1>4, IsAlso
<1>6. is(plus(One, a), 1, 1)
  <2>1. is(plus(One, a), 1 * 1 + 0 * 1, 1 * 1)
    BY Zenon, <1>5, OneAndZero, IsPlus
  <2> QED
    BY <2>1
<1>7. is(f, f.num, f.den) /\ f.num \in Nat /\ f.den \in Nat \ {0}
  BY IsSelf DEF Frac
<1>8. is(times(f, plus(One, a)), f.num, f.den)
  <2>1. is(times(f, plus(One, a)), f.num * 1, f.den * 1)
    BY Zenon, <1>6, <1>7, IsTimes
  <2>2. f.num * 1 = f.num /\ f.den * 1 = f.den
    BY <1>7
  <2> QED
    BY <2>1, <2>2
<1>9. is(plus(f, a), f.num, f.den)
  <2>1. is(plus(f, a), f.num * 1 + 0 * f.den, f.den * 1)
    BY Zenon, <1>5, <1>7, IsPlus
  <2>2. f.num * 1 + 0 * f.den = f.num /\ f.den * 1 = f.den
    BY <1>7
  <2> QED
    BY <2>1, <2>2
<1> QED
  BY <1>5, <1>7, <1>8, <1>9, EqualIs

\* load raises the subtotal by its percentage, with a line or without.
LEMMA LoadLine ==
    ASSUME NEW trail \in Seq(Line), Len(trail) > 0, NEW name \in Label, NEW pct \in Frac
    PROVE  goes_to(trail, load(trail, name, pct), "technical",
                   times(subtotal_of(trail), plus(One, pct)))
<1> DEFINE a == subtotal_of(trail)
           b == times(a, plus(One, pct))
           new == line(trail, name, "technical", b)
<1>1. a \in Frac /\ plus(One, pct) \in Frac /\ b \in Frac
  BY Subtotal, OneAndZero, PlusValue, TimesValue DEF is
<1>2. "technical" \in Stage
  BY DEF Stage
<1>3. CASE less(Zero, pct)
  <2>1. load(trail, name, pct) = new
    BY <1>3 DEF load
  <2>2. grown(trail, new, "technical") /\ subtotal_of(new) = b /\ Len(new) = Len(trail) + 1
    BY Zenon, <1>1, <1>2, OneLine
  <2> QED
    BY <1>1, <2>1, <2>2, EqualReflexive DEF goes_to
<1>4. CASE ~less(Zero, pct)
  <2>1. load(trail, name, pct) = trail
    BY <1>4 DEF load
  <2> HIDE DEF a
  <2>2. equal(a, b)
    BY <1>1, <1>4, ZeroLoading
  <2> QED
    BY <1>1, <2>1, <2>2, NoLine DEF goes_to, a
<1> QED
  BY <1>3, <1>4

\* One stage after part of it.
LEMMA GoesFurther ==
    ASSUME NEW x, NEW y, NEW z, NEW stage, NEW a, NEW b,
           goes_to(x, y, stage, a), goes_to(y, z, stage, b)
    PROVE  goes_to(x, z, stage, b)
BY GrownFurther DEF goes_to

\* Where a stage goes to is a trail with a subtotal.
LEMMA GoesTyped ==
    ASSUME NEW x, NEW y, NEW stage, NEW a, goes_to(x, y, stage, a)
    PROVE  y \in Seq(Line) /\ Len(y) > 0 /\ subtotal_of(y) \in Frac /\ equal(subtotal_of(y), a)
BY DEF goes_to, grown

\* A stage leads to any fraction of the same number.
LEMMA GoesEqual ==
    ASSUME NEW x, NEW y, NEW stage, NEW a, NEW b, goes_to(x, y, stage, a), equal(a, b)
    PROVE  goes_to(x, y, stage, b)
BY EqualTransitive DEF goes_to

\* The technical stage applies three loadings.
LEMMA Technical ==
    ASSUME NEW t, IsTable(t), NEW trail \in Seq(Line), Len(trail) > 0
    PROVE  goes_to(trail, technical(trail, t), "technical",
                   times(times(times(subtotal_of(trail), plus(One, t.expense_loading)),
                               plus(One, t.risk_margin)), plus(One, t.cat_provision)))
<1> DEFINE e == plus(One, t.expense_loading)
           r == plus(One, t.risk_margin)
           c == plus(One, t.cat_provision)
           x == load(trail, "expense_loading", t.expense_loading)
           y == load(x, "risk_margin", t.risk_margin)
           z == load(y, "cat_provision", t.cat_provision)
           a == subtotal_of(trail)
<1>1. /\ t.expense_loading \in Frac /\ t.risk_margin \in Frac /\ t.cat_provision \in Frac
      /\ a \in Frac /\ One \in Frac
  BY TableFacts, Subtotal, OneAndZero DEF is
<1>2. "expense_loading" \in Label /\ "risk_margin" \in Label /\ "cat_provision" \in Label
  BY DEF Label
<1>3. e \in Frac /\ r \in Frac /\ c \in Frac
  BY <1>1, PlusValue
<1>4. technical(trail, t) = z
  BY DEF technical
<1>5. goes_to(trail, x, "technical", times(a, e))
  BY <1>1, <1>2, LoadLine
<1>6. x \in Seq(Line) /\ Len(x) > 0 /\ subtotal_of(x) \in Frac
      /\ equal(subtotal_of(x), times(a, e))
  BY <1>5, GoesTyped
<1> HIDE DEF x
<1>7. goes_to(x, y, "technical", times(subtotal_of(x), r))
  BY <1>1, <1>2, <1>6, LoadLine
<1>8. y \in Seq(Line) /\ Len(y) > 0 /\ subtotal_of(y) \in Frac
      /\ equal(subtotal_of(y), times(subtotal_of(x), r))
  BY <1>7, GoesTyped
<1> HIDE DEF y
<1>9. goes_to(y, z, "technical", times(subtotal_of(y), c))
  BY <1>1, <1>2, <1>8, LoadLine
<1> HIDE DEF z, e, r, c, a
<1>10. goes_to(trail, z, "technical", times(subtotal_of(y), c))
  BY <1>5, <1>7, <1>9, GoesFurther
<1>11. equal(subtotal_of(y), times(times(a, e), r))
  <2>1. equal(times(subtotal_of(x), r), times(times(a, e), r))
    BY <1>3, <1>6, EqualReflexive, EqualTimes
  <2> QED
    BY <1>8, <2>1, EqualTransitive
<1>12. equal(times(subtotal_of(y), c), times(times(times(a, e), r), c))
  BY <1>3, <1>11, EqualReflexive, EqualTimes
<1>13. goes_to(trail, z, "technical", times(times(times(a, e), r), c))
  BY <1>10, <1>12, GoesEqual
<1> QED
  BY <1>4, <1>13 DEF e, r, c, a

\* The commercial stage applies the underwriter's adjustment.
LEMMA Commercial ==
    ASSUME NEW adjustment \in Frac, NEW trail \in Seq(Line), Len(trail) > 0
    PROVE  goes_to(trail, commercial(trail, adjustment), "commercial",
                   times(subtotal_of(trail), adjustment))
<1> DEFINE a == subtotal_of(trail)
           b == times(a, adjustment)
           new == line(trail, "commercial_adjustment", "commercial", b)
<1>1. a \in Frac /\ b \in Frac /\ One \in Frac
  BY Subtotal, OneAndZero, TimesValue DEF is
<1>2. "commercial" \in Stage /\ "commercial_adjustment" \in Label
  BY DEF Stage, Label
<1>3. CASE same(adjustment, One)
  <2>1. commercial(trail, adjustment) = trail
    BY <1>3 DEF commercial
  <2> HIDE DEF a
  <2>2. equal(adjustment, One)
    BY <1>1, <1>3 DEF same, equal, is, Frac
  <2>3. equal(b, times(a, One)) /\ equal(times(a, One), a)
    BY <1>1, <2>2, EqualReflexive, EqualTimes, EqualOne
  <2>4. equal(a, b)
    BY <2>3, EqualTransitive, EqualFacts
  <2> QED
    BY <1>1, <2>1, <2>4, NoLine DEF goes_to, a
<1>4. CASE ~same(adjustment, One)
  <2>1. commercial(trail, adjustment) = new
    BY <1>4 DEF commercial
  <2>2. grown(trail, new, "commercial") /\ subtotal_of(new) = b /\ Len(new) = Len(trail) + 1
    BY Zenon, <1>1, <1>2, OneLine
  <2> QED
    BY <1>1, <2>1, <2>2, EqualReflexive DEF goes_to
<1> QED
  BY <1>3, <1>4

\* The fixed fees are added.
LEMMA Charge ==
    ASSUME NEW t, IsTable(t), NEW trail \in Seq(Line), Len(trail) > 0
    PROVE  goes_to(trail, charge(trail, t), "taxes",
                   plus(subtotal_of(trail), frac(t.fixed_fees_minor, 1)))
<1> DEFINE a == subtotal_of(trail)
           fee == frac(t.fixed_fees_minor, 1)
           b == plus(a, fee)
           new == line(trail, "policy_fee", "taxes", b)
<1>1. t.fixed_fees_minor \in Nat /\ a \in Frac /\ fee \in Frac /\ b \in Frac
      /\ is(fee, t.fixed_fees_minor, 1)
  BY TableFacts, Subtotal, FracValue, IsFrac, PlusValue
<1>2. "taxes" \in Stage /\ "policy_fee" \in Label
  BY DEF Stage, Label
<1>3. CASE t.fixed_fees_minor > 0
  <2>1. charge(trail, t) = new
    BY <1>3 DEF charge
  <2>2. grown(trail, new, "taxes") /\ subtotal_of(new) = b /\ Len(new) = Len(trail) + 1
    BY Zenon, <1>1, <1>2, OneLine
  <2> QED
    BY <1>1, <2>1, <2>2, EqualReflexive DEF goes_to
<1>4. CASE ~(t.fixed_fees_minor > 0)
  <2>1. charge(trail, t) = trail /\ t.fixed_fees_minor = 0
    BY <1>1, <1>4 DEF charge
  <2> HIDE DEF a, fee
  <2>2. leq(fee, Zero) /\ Zero \in Frac
    <3>1. is(fee, 0, 1) /\ is(Zero, 0, 1) /\ 0 * 1 <= 0 * 1
      BY <1>1, <2>1, OneAndZero
    <3> QED
      BY <3>1, LeqIs DEF is
  <2>3. equal(a, b)
    BY <1>1, <2>2, NotLess, ZeroLoading
  <2> QED
    BY <1>1, <2>1, <2>3, NoLine DEF goes_to, a, fee
<1> QED
  BY <1>3, <1>4

\* The taxes stage adds the fees and the tax on the commercial premium.
LEMMA Taxes ==
    ASSUME NEW t, IsTable(t), NEW trail \in Seq(Line), Len(trail) > 0
    PROVE  goes_to(trail, taxes(trail, t), "taxes",
                   plus(plus(subtotal_of(trail), frac(t.fixed_fees_minor, 1)),
                        times(subtotal_of(trail), t.ipt_rate)))
<1> DEFINE a == subtotal_of(trail)
           i == t.ipt_rate
           fee == frac(t.fixed_fees_minor, 1)
           x == charge(trail, t)
           b == plus(subtotal_of(x), times(a, i))
           new == line(x, "ipt", "taxes", b)
<1>1. /\ t.fixed_fees_minor \in Nat /\ a \in Frac /\ fee \in Frac /\ i \in Frac
      /\ times(a, i) \in Frac
  BY TableFacts, Subtotal, FracValue, TimesValue
<1>2. "taxes" \in Stage /\ "ipt" \in Label
  BY DEF Stage, Label
<1>3. goes_to(trail, x, "taxes", plus(a, fee))
  BY Charge
<1>4. x \in Seq(Line) /\ Len(x) > 0 /\ subtotal_of(x) \in Frac
      /\ equal(subtotal_of(x), plus(a, fee))
  BY <1>3, GoesTyped
<1>5. b \in Frac
  BY <1>1, <1>4, PlusValue
<1>6. goes_to(trail, taxes(trail, t), "taxes", b)
  <2>1. CASE less(Zero, i)
    <3>1. taxes(trail, t) = new
      BY <2>1 DEF taxes
    <3> HIDE DEF x
    <3>2. grown(x, new, "taxes") /\ subtotal_of(new) = b /\ Len(new) = Len(x) + 1
      BY Zenon, <1>2, <1>4, <1>5, OneLine
    <3>3. goes_to(x, new, "taxes", b)
      BY <1>4, <1>5, <3>2, EqualReflexive DEF goes_to
    <3> QED
      BY <1>3, <3>1, <3>3, GoesFurther DEF x
  <2>2. CASE ~less(Zero, i)
    <3>1. taxes(trail, t) = x
      BY <2>2 DEF taxes
    <3>2. is(i, 0, 1)
      BY <1>1, <2>2, ZeroLoading
    <3> HIDE DEF a, i, x
    <3>3. is(times(a, i), a.num * 0, a.den * 1)
      BY Zenon, <1>1, <3>2, IsSelf, IsTimes
    <3>4. is(times(a, i), 0, 1)
      <4>1. a.num * 0 = 0 /\ a.den * 1 = a.den /\ a.den \in Nat \ {0}
        BY <1>1 DEF Frac
      <4>2. is(times(a, i), 0, a.den) /\ 0 * 1 = 0 * a.den
        BY <3>3, <4>1
      <4> QED
        BY <4>2, IsAlso
    <3>5. ~less(Zero, times(a, i))
      <4>1. is(Zero, 0, 1) /\ 0 * 1 <= 0 * 1 /\ Zero \in Frac
        BY OneAndZero DEF is
      <4> QED
        BY <1>1, <3>4, <4>1, LeqIs, NotLess
    <3>6. equal(subtotal_of(x), b)
      BY <1>1, <1>4, <3>5, ZeroLoading DEF a, i, x
    <3>7. goes_to(trail, x, "taxes", b)
      BY <1>3, <3>6 DEF goes_to
    <3> QED
      BY <3>1, <3>7
  <2> QED
    BY <2>1, <2>2
<1>7. equal(b, plus(plus(a, fee), times(a, i)))
  BY <1>1, <1>4, EqualReflexive, EqualPlus
<1> HIDE DEF b
<1>8. goes_to(trail, taxes(trail, t), "taxes", plus(plus(a, fee), times(a, i)))
  BY <1>6, <1>7, GoesEqual
<1> QED
  BY <1>8

-----------------------------------------------------------------------------
\* Taxes.

\* n / d is rounded to c and c * u / v to t; n / d and its part u / v, with F, to m.
LEMMA Cents ==
    ASSUME NEW n \in Nat, NEW F \in Nat, NEW u \in Nat, NEW d \in Nat \ {0},
           NEW v \in Nat \ {0}, u <= v,
           NEW c, rounds(c, n, d), NEW t, rounds(t, c * u, v),
           NEW m, rounds(m, n * (v + u) + F * (d * v), d * v)
    PROVE  (m - c) - (F + t) \in -1 .. 1
<1> DEFINE N == n * (v + u)
           dv == d * v
           du == d * u
           Fdv == F * (d * v)
           mdv == m * (d * v)
           cdv == c * (d * v)
           cdu == c * (d * u)
           tdv == t * (d * v)
<1>1. c \in Nat /\ t \in Nat /\ m \in Nat
  BY DEF rounds
<1>2. {N, dv, du, Fdv, mdv, cdv, cdu, tdv} \subseteq Nat
  <2>1. v + u \in Nat
    OBVIOUS
  <2> QED
    BY <1>1, <2>1, Product
<1>3. 2 * mdv <= 2 * (N + Fdv) + dv /\ 2 * (N + Fdv) < 2 * mdv + dv
  BY DEF rounds
<1>4. 2 * cdv + 2 * cdu <= 2 * N + dv + du
      /\ 2 * N + (v + u) <= 2 * cdv + 2 * cdu + dv + du
  <2>1. c * d \in Nat /\ 2 * (c * d) <= 2 * n + d /\ 2 * n + 1 <= 2 * (c * d) + d
    BY <1>1, Product DEF rounds
  <2>2. (2 * (c * d)) * (v + u) <= (2 * n + d) * (v + u)
        /\ (2 * n + 1) * (v + u) <= (2 * (c * d) + d) * (v + u)
    BY <2>1, Monotonic
  <2>3. (2 * (c * d)) * (v + u) = 2 * cdv + 2 * cdu
    BY <1>1
  <2>4. (2 * n + d) * (v + u) = 2 * N + dv + du
    BY <1>1
  <2>5. (2 * n + 1) * (v + u) = 2 * N + (v + u)
    BY <1>1
  <2>6. (2 * (c * d) + d) * (v + u) = 2 * cdv + 2 * cdu + dv + du
    BY <1>1
  <2> QED
    BY <2>2, <2>3, <2>4, <2>5, <2>6
<1>5. 2 * tdv <= 2 * cdu + dv /\ 2 * cdu + d <= 2 * tdv + dv
  <2>1. t * v \in Nat /\ c * u \in Nat
        /\ 2 * (t * v) <= 2 * (c * u) + v /\ 2 * (c * u) + 1 <= 2 * (t * v) + v
    BY <1>1, Product DEF rounds
  <2>2. (2 * (t * v)) * d <= (2 * (c * u) + v) * d
        /\ (2 * (c * u) + 1) * d <= (2 * (t * v) + v) * d
    BY <2>1, Monotonic
  <2>3. (2 * (t * v)) * d = 2 * tdv
    BY <1>1
  <2>4. (2 * (c * u) + v) * d = 2 * cdu + dv
    BY <1>1
  <2>5. (2 * (c * u) + 1) * d = 2 * cdu + d
    BY <1>1
  <2>6. (2 * (t * v) + v) * d = 2 * tdv + dv
    BY <1>1
  <2> QED
    BY <2>2, <2>3, <2>4, <2>5, <2>6
<1>6. du <= dv
  BY Cancel
<1>7. ASSUME c + F + t + 2 <= m PROVE FALSE
  <2>1. cdv + Fdv + tdv + 2 * dv <= mdv
    <3>1. (c + F + t + 2) * dv <= m * dv
      <4> HIDE DEF dv
      <4> QED
        BY <1>1, <1>2, <1>7, Monotonic
    <3>2. (c + F + t + 2) * dv = cdv + Fdv + tdv + 2 * dv
      BY <1>1
    <3> QED
      BY <3>1, <3>2
  <2> HIDE DEF N, dv, du, Fdv, mdv, cdv, cdu, tdv
  <2> QED
    BY <1>2, <1>3, <1>4, <1>5, <1>6, <2>1
<1>8. ASSUME m + 2 <= c + F + t PROVE FALSE
  <2>1. mdv + 2 * dv <= cdv + Fdv + tdv
    <3>1. (m + 2) * dv <= (c + F + t) * dv
      <4> HIDE DEF dv
      <4> QED
        BY <1>1, <1>2, <1>8, Monotonic
    <3>2. (m + 2) * dv = mdv + 2 * dv /\ (c + F + t) * dv = cdv + Fdv + tdv
      BY <1>1
    <3> QED
      BY <3>1, <3>2
  <2> HIDE DEF N, dv, du, Fdv, mdv, cdv, cdu, tdv
  <2> QED
    BY <1>2, <1>3, <1>4, <1>5, <1>6, <2>1
<1> QED
  BY <1>1, <1>7, <1>8

\* a is the commercial premium, f the fee and i the tax.
LEMMA TaxedWithinACent ==
    ASSUME NEW a \in Frac, NEW i \in Frac, leq(i, One), NEW F \in Nat,
           NEW b, equal(b, plus(plus(a, frac(F, 1)), times(a, i)))
    PROVE  (_to_minor(b) - _to_minor(a))
             - (F + _to_minor(times(frac(_to_minor(a), 1), i))) \in -1 .. 1
<1> DEFINE n == a.num
           d == a.den
           u == i.num
           v == i.den
           c == _to_minor(a)
           t == _to_minor(times(frac(c, 1), i))
           m == _to_minor(b)
           fee == frac(F, 1)
<1>1. n \in Nat /\ d \in Nat \ {0} /\ u \in Nat /\ v \in Nat \ {0}
      /\ is(a, n, d) /\ is(i, u, v) /\ is(One, 1, 1) /\ is(fee, F, 1) /\ fee \in Frac
  BY IsSelf, OneAndZero, IsFrac, FracValue DEF Frac
<1>2. u <= v
  <2>1. u * 1 <= 1 * v
    <3> HIDE DEF u, v
    <3> QED
      BY <1>1, LeqIs
  <2> QED
    BY <1>1, <2>1
<1>3. equal(b, plus(times(a, plus(One, i)), fee))
  <2>1. equal(plus(plus(a, fee), times(a, i)), plus(times(a, plus(One, i)), fee))
    BY <1>1, EqualAdded
  <2> QED
    BY <2>1, EqualTransitive
<1> HIDE DEF n, d, u, v, fee
<1>4. is(plus(times(a, plus(One, i)), fee), n * (v + u) + F * (d * v), d * v)
  <2>1. is(plus(One, i), v + u, v)
    <3>1. is(plus(One, i), 1 * v + u * 1, 1 * v)
      BY Zenon, <1>1, IsPlus
    <3>2. 1 * v + u * 1 = v + u /\ 1 * v = v
      BY <1>1
    <3> QED
      BY <3>1, <3>2
  <2>2. is(times(a, plus(One, i)), n * (v + u), d * v)
    BY Zenon, <1>1, <2>1, IsTimes
  <2>3. is(plus(times(a, plus(One, i)), fee), (n * (v + u)) * 1 + F * (d * v), (d * v) * 1)
    BY Zenon, <1>1, <2>2, IsPlus
  <2>4. (n * (v + u)) * 1 = n * (v + u) /\ (d * v) * 1 = d * v
    BY <1>1
  <2> QED
    BY <2>3, <2>4
<1>5. rounds(m, n * (v + u) + F * (d * v), d * v)
  <2>1. _to_minor(plus(times(a, plus(One, i)), fee)) = m
    BY <1>3, EqualFacts
  <2> QED
    BY <1>4, <2>1, Rounding
<1>6. rounds(c, n, d)
  BY <1>1, Rounding
<1> HIDE DEF c
<1>7. rounds(t, c * u, v)
  <2>1. c \in Nat
    BY <1>6 DEF rounds
  <2>2. is(frac(c, 1), c, 1)
    BY <2>1, IsFrac
  <2>3. is(times(frac(c, 1), i), c * u, 1 * v)
    BY Zenon, <1>1, <2>2, IsTimes
  <2>4. 1 * v = v
    BY <1>1
  <2> QED
    BY <2>3, <2>4, Rounding
<1> HIDE DEF t, m
<1>8. (m - c) - (F + t) \in -1 .. 1
  BY <1>1, <1>2, <1>5, <1>6, <1>7, Cents
<1> QED
  BY <1>8 DEF m, c, t

-----------------------------------------------------------------------------
\* The quote.

sold_trail(s, t) == commercial(technical(loss_cost(s, t), t), s.commercial_adjustment)

final_trail(s, t) == taxes(sold_trail(s, t), t)

loaded_factor(a, t) ==
    times(times(times(a, plus(One, t.expense_loading)), plus(One, t.risk_margin)),
          plus(One, t.cat_provision))

taxed(a, t) == plus(plus(a, frac(t.fixed_fees_minor, 1)), times(a, t.ipt_rate))

\* The trail stage by stage.
LEMMA Stages ==
    ASSUME NEW s, NEW t, Priced(s, t)
    PROVE  /\ loss_cost(s, t) \in Seq(Line) /\ Len(loss_cost(s, t)) > 0
           /\ \A i \in 1 .. Len(loss_cost(s, t)) : loss_cost(s, t)[i].stage = "loss_cost"
           /\ goes_to(loss_cost(s, t), technical(loss_cost(s, t), t), "technical",
                      loaded_factor(subtotal_of(loss_cost(s, t)), t))
           /\ goes_to(technical(loss_cost(s, t), t), sold_trail(s, t), "commercial",
                      times(subtotal_of(technical(loss_cost(s, t), t)),
                            s.commercial_adjustment))
           /\ goes_to(sold_trail(s, t), final_trail(s, t), "taxes",
                      taxed(subtotal_of(sold_trail(s, t)), t))
<1> DEFINE pure == loss_cost(s, t)
           loaded == technical(pure, t)
           sold == sold_trail(s, t)
<1>1. IsTable(t) /\ s.commercial_adjustment \in Frac
  BY DEF Priced, Risk
<1>2. /\ pure \in Seq(Line) /\ Len(pure) > 0
      /\ \A i \in 1 .. Len(pure) : pure[i].stage = "loss_cost"
  <2>1. Len(t.adjustments) \in adjustments(t) /\ pure = adjusting(s, t)[Len(t.adjustments)]
    BY <1>1, TableFacts, Adjusting DEF adjustments
  <2> QED
    BY <2>1, AdjustedTrail
<1>3. goes_to(pure, loaded, "technical", loaded_factor(subtotal_of(pure), t))
  BY <1>1, <1>2, Technical DEF loaded_factor
<1>4. loaded \in Seq(Line) /\ Len(loaded) > 0
  BY <1>3, GoesTyped
<1>5. goes_to(loaded, sold, "commercial", times(subtotal_of(loaded), s.commercial_adjustment))
  BY <1>1, <1>4, Commercial DEF sold_trail
<1>6. sold \in Seq(Line) /\ Len(sold) > 0
  BY <1>5, GoesTyped
<1>7. goes_to(sold, final_trail(s, t), "taxes", taxed(subtotal_of(sold), t))
  BY <1>1, <1>6, Taxes DEF final_trail, taxed
<1> QED
  BY <1>2, <1>3, <1>5, <1>7

\* What rate answers for a risk that it prices.
LEMMA Rated ==
    ASSUME NEW s, NEW t, Priced(s, t)
    PROVE  /\ rate(s, t).line_items =
                 [i \in DOMAIN final_trail(s, t) |->
                     [label |-> final_trail(s, t)[i].label,
                      stage |-> final_trail(s, t)[i].stage,
                      running_subtotal_minor |-> _to_minor(final_trail(s, t)[i].subtotal)]]
           /\ rate(s, t).premium_minor = _to_minor(subtotal_of(final_trail(s, t)))
           /\ rate(s, t).pure_premium_minor = _to_minor(subtotal_of(loss_cost(s, t)))
           /\ rate(s, t).technical_premium_minor
                 = _to_minor(subtotal_of(technical(loss_cost(s, t), t)))
           /\ rate(s, t).commercial_premium_minor = _to_minor(subtotal_of(sold_trail(s, t)))
           /\ rate(s, t).taxes_minor
                 = _to_minor(subtotal_of(final_trail(s, t)))
                     - _to_minor(subtotal_of(sold_trail(s, t)))
BY DEF rate, Priced, sold_trail, final_trail

\* Every quote is what the engine answers for its submission and table.
RateInv ==
    /\ submission \in Submissions /\ rate_table \in RateTables
    /\ breakdown = rate(submission, rate_table)

\* A quote is priced as the engine prices, under a published table.
LEMMA RateStep == RateInv /\ [Next]_vars => RateInv'
BY DEF RateInv, Next, QuoteAnother, Requote, vars

\* RateInv holds of every quote given.
LEMMA QuotesAreRated == Spec => []RateInv
<1>1. Init => RateInv
  BY DEF Init, RateInv
<1> QED
  BY <1>1, RateStep, PTL DEF Spec

\* The quote at hand was priced for a valid risk under a sound table.
LEMMA QuotePriced ==
    ASSUME RateInv, priced
    PROVE  /\ Priced(submission, rate_table) /\ Sound(rate_table)
           /\ HIGH_TIV_THRESHOLD_EUR \in Nat
<1>1. priceable(submission, rate_table)
  BY DEF RateInv, priced, rate
<1>2. submission \in Risk
  BY ReviewAssumption DEF RateInv, Risk
<1>3. IsTable(rate_table) /\ HIGH_TIV_THRESHOLD_EUR \in Nat
  BY ReviewAssumption DEF RateInv
<1>4. Sound(rate_table)
  BY TableAssumption DEF RateInv, Sound
<1> QED
  BY <1>1, <1>2, <1>3, <1>4 DEF Priced

\* For every risk and table with no tax above the premium: rounding twice moves the
\* reported taxes by at most a cent.
THEOREM TaxesAreReported == Spec => []TaxesWithinACent
<1>1. RateInv => TaxesWithinACent
  <2> SUFFICES ASSUME RateInv, priced PROVE TaxesWithinACent
    BY DEF TaxesWithinACent
  <2> DEFINE s == submission
             t == rate_table
             a == subtotal_of(sold_trail(s, t))
             b == subtotal_of(final_trail(s, t))
  <2>1. Priced(s, t) /\ Sound(t) /\ IsTable(t)
    BY QuotePriced DEF Priced
  <2>2. t.ipt_rate \in Frac /\ t.fixed_fees_minor \in Nat /\ One \in Frac
    BY <2>1, TableFacts, OneAndZero DEF is
  <2>3. leq(t.ipt_rate, One)
    BY <2>1, <2>2, NotLess DEF Sound
  <2>4. a \in Frac /\ equal(b, taxed(a, t))
    BY <2>1, Stages, GoesTyped
  <2>5. /\ breakdown.commercial_premium_minor = _to_minor(a)
        /\ breakdown.taxes_minor = _to_minor(b) - _to_minor(a)
    BY <2>1, Rated DEF RateInv
  <2> HIDE DEF a, b
  <2>6. (_to_minor(b) - _to_minor(a))
          - (t.fixed_fees_minor + _to_minor(times(frac(_to_minor(a), 1), t.ipt_rate)))
             \in -1 .. 1
    BY <2>2, <2>3, <2>4, TaxedWithinACent DEF taxed
  <2> QED
    BY <2>5, <2>6 DEF TaxesWithinACent
<1> QED
  BY <1>1, QuotesAreRated, PTL

-----------------------------------------------------------------------------
\* Larger risks.

\* The order does not tell equal fractions apart.
LEMMA EqualGrows ==
    ASSUME NEW x, NEW y, NEW a, NEW b, equal(x, a), equal(y, b), leq(a, b)
    PROVE  leq(x, y)
<1>1. x \in Frac /\ a \in Frac /\ leq(x, a) /\ y \in Frac /\ b \in Frac /\ leq(b, y)
  BY EqualFacts
<1>2. leq(x, b)
  BY <1>1, LeqTransitive
<1> QED
  BY <1>1, <1>2, LeqTransitive

\* Loadings are monotone in the premium they load.
LEMMA LoadedGrows ==
    ASSUME NEW t, IsTable(t), NEW a \in Frac, NEW b \in Frac, leq(a, b)
    PROVE  leq(loaded_factor(a, t), loaded_factor(b, t))
<1> DEFINE e == plus(One, t.expense_loading)
           r == plus(One, t.risk_margin)
           c == plus(One, t.cat_provision)
<1>1. e \in Frac /\ r \in Frac /\ c \in Frac
  BY TableFacts, OneAndZero, PlusValue DEF is
<1> HIDE DEF e, r, c
<1>2. /\ times(a, e) \in Frac /\ times(b, e) \in Frac /\ leq(times(a, e), times(b, e))
  BY <1>1, TimesValue, LeqReflexive, TimesGrows
<1>3. /\ times(times(a, e), r) \in Frac /\ times(times(b, e), r) \in Frac
      /\ leq(times(times(a, e), r), times(times(b, e), r))
  BY <1>1, <1>2, TimesValue, LeqReflexive, TimesGrows
<1>4. leq(times(times(times(a, e), r), c), times(times(times(b, e), r), c))
  BY <1>1, <1>3, LeqReflexive, TimesGrows
<1> QED
  BY <1>4 DEF loaded_factor, e, r, c

\* Fees and taxes are monotone in the premium they are added to.
LEMMA TaxedGrows ==
    ASSUME NEW t, IsTable(t), NEW a \in Frac, NEW b \in Frac, leq(a, b)
    PROVE  leq(taxed(a, t), taxed(b, t))
<1> DEFINE fee == frac(t.fixed_fees_minor, 1)
           i == t.ipt_rate
<1>1. fee \in Frac /\ i \in Frac
  BY TableFacts, FracValue
<1> HIDE DEF fee, i
<1>2. /\ plus(a, fee) \in Frac /\ plus(b, fee) \in Frac
      /\ times(a, i) \in Frac /\ times(b, i) \in Frac
  BY <1>1, PlusValue, TimesValue
<1>3. leq(plus(a, fee), plus(b, fee)) /\ leq(times(a, i), times(b, i))
  BY <1>1, LeqReflexive, PlusGrows, TimesGrows
<1>4. leq(plus(plus(a, fee), times(a, i)), plus(plus(b, fee), times(b, i)))
  BY <1>2, <1>3, PlusGrows
<1> QED
  BY <1>4 DEF taxed, fee, i

\* A risk that is no better is priced no lower.
LEMMA PremiumGrows ==
    ASSUME HIGH_TIV_THRESHOLD_EUR \in Nat,
           NEW s, NEW r, NEW t, Priced(s, t), Priced(r, t), NoBetter(s, r), Sound(t)
    PROVE  /\ rate(s, t).premium_minor \in Nat /\ rate(r, t).premium_minor \in Nat
           /\ rate(s, t).premium_minor <= rate(r, t).premium_minor
<1> DEFINE a1 == subtotal_of(loss_cost(s, t))
           b1 == subtotal_of(loss_cost(r, t))
           a2 == subtotal_of(technical(loss_cost(s, t), t))
           b2 == subtotal_of(technical(loss_cost(r, t), t))
           a3 == subtotal_of(sold_trail(s, t))
           b3 == subtotal_of(sold_trail(r, t))
           a4 == subtotal_of(final_trail(s, t))
           b4 == subtotal_of(final_trail(r, t))
           ca == s.commercial_adjustment
           cb == r.commercial_adjustment
<1>1. IsTable(t) /\ ca \in Frac /\ cb \in Frac /\ leq(ca, cb)
  BY DEF Priced, Risk, NoBetter
<1>2. leq(a1, b1) /\ a1 \in Frac /\ b1 \in Frac
  <2>1. /\ Len(t.adjustments) \in adjustments(t)
        /\ loss_cost(s, t) = adjusting(s, t)[Len(t.adjustments)]
        /\ loss_cost(r, t) = adjusting(r, t)[Len(t.adjustments)]
    BY <1>1, TableFacts, Adjusting DEF adjustments
  <2> QED
    BY <2>1, AdjustedGrows, Stages, Subtotal
<1>3. /\ equal(a2, loaded_factor(a1, t)) /\ equal(b2, loaded_factor(b1, t))
      /\ equal(a3, times(a2, ca)) /\ equal(b3, times(b2, cb))
      /\ equal(a4, taxed(a3, t)) /\ equal(b4, taxed(b3, t))
      /\ {a2, b2, a3, b3, a4, b4} \subseteq Frac
  BY Stages, GoesTyped
<1>4. rate(s, t).premium_minor = _to_minor(a4) /\ rate(r, t).premium_minor = _to_minor(b4)
  BY Rated
<1> HIDE DEF a1, b1, a2, b2, a3, b3, a4, b4, ca, cb
<1>5. leq(a2, b2)
  BY <1>1, <1>2, <1>3, LoadedGrows, EqualGrows
<1>6. leq(a3, b3)
  <2>1. leq(times(a2, ca), times(b2, cb))
    BY <1>1, <1>3, <1>5, TimesGrows
  <2> QED
    BY <1>3, <2>1, EqualGrows
<1>7. leq(a4, b4)
  BY <1>1, <1>3, <1>6, TaxedGrows, EqualGrows
<1> QED
  BY <1>3, <1>4, <1>7, MinorGrows

\* For every sound table: a risk that is larger, and otherwise no better protected
\* and sold no cheaper, is never quoted a lower premium.
THEOREM PremiumFollowsRisk == Spec => PriceFollowsRisk
<1>1. ASSUME RateInv, RateInv', rate_table' = rate_table, priced, priced',
             submission'.tiv_eur >= submission.tiv_eur,
             submission'.occupancy = submission.occupancy,
             submission'.sprinklered => submission.sprinklered,
             ~less(submission'.commercial_adjustment, submission.commercial_adjustment)
      PROVE  breakdown'.premium_minor >= breakdown.premium_minor
  <2> DEFINE s == submission
             r == submission'
             t == rate_table
  <2>1. Priced(s, t) /\ Sound(t) /\ HIGH_TIV_THRESHOLD_EUR \in Nat
    BY <1>1, QuotePriced
  <2>2. Priced(r, t)
    <3>1. priceable(r, t)
      BY <1>1 DEF RateInv, priced, rate
    <3>2. r \in Risk
      BY <1>1, ReviewAssumption DEF RateInv, Risk
    <3> QED
      BY <2>1, <3>1, <3>2 DEF Priced
  <2>3. breakdown = rate(s, t) /\ breakdown' = rate(r, t)
    BY <1>1 DEF RateInv
  <2> HIDE DEF s, r, t
  <2>4. NoBetter(s, r)
    <3>1. s.commercial_adjustment \in Frac /\ r.commercial_adjustment \in Frac
      BY <2>1, <2>2 DEF Priced, Risk
    <3> QED
      BY <1>1, <3>1, NotLess DEF NoBetter, s, r
  <2> QED
    BY <2>1, <2>2, <2>3, <2>4, PremiumGrows
<1> DEFINE Follows ==
        /\ rate_table' = rate_table
        /\ priced /\ priced'
        /\ submission'.tiv_eur >= submission.tiv_eur
        /\ submission'.occupancy = submission.occupancy
        /\ submission'.sprinklered => submission.sprinklered
        /\ ~less(submission'.commercial_adjustment, submission.commercial_adjustment)
        => breakdown'.premium_minor >= breakdown.premium_minor
<1>2. RateInv /\ RateInv' => [Follows]_vars
  BY <1>1
<1>3. PriceFollowsRisk <=> [][Follows]_vars
  BY DEF PriceFollowsRisk
<1> HIDE DEF Follows
<1> QED
  BY <1>2, <1>3, QuotesAreRated, PTL

-----------------------------------------------------------------------------
\* The one formula.

\* The factors of the base premium, in another order.
LEMMA RateRegroup ==
    ASSUME NEW b \in Frac, NEW o \in Frac, NEW n \in Nat, NEW k \in Nat \ {0}
    PROVE  equal(times(times(times(b, frac(1, k)), frac(n, 1)), o),
                 times(frac(n, k), times(b, o)))
<1> DEFINE bn == b.num
           bd == b.den
           on == o.num
           od == o.den
<1>1. is(frac(1, k), 1, k) /\ is(frac(n, 1), n, 1) /\ is(frac(n, k), n, k)
  BY IsFrac
<1>2. {bn, on} \subseteq Nat /\ {bd, od} \subseteq Nat \ {0}
      /\ is(b, bn, bd) /\ is(o, on, od)
  BY IsSelf DEF Frac
<1> HIDE DEF bn, bd, on, od
<1>3. is(times(b, frac(1, k)), bn * 1, bd * k)
  BY Zenon, <1>1, <1>2, IsTimes
<1>4. is(times(times(b, frac(1, k)), frac(n, 1)), (bn * 1) * n, (bd * k) * 1)
  BY Zenon, <1>1, <1>3, IsTimes
<1>5. is(times(times(times(b, frac(1, k)), frac(n, 1)), o),
         ((bn * 1) * n) * on, ((bd * k) * 1) * od)
  BY Zenon, <1>2, <1>4, IsTimes
<1>6. is(times(b, o), bn * on, bd * od)
  BY Zenon, <1>2, IsTimes
<1>7. is(times(frac(n, k), times(b, o)), n * (bn * on), k * (bd * od))
  BY Zenon, <1>1, <1>6, IsTimes
<1>8. ((bn * 1) * n) * on = n * (bn * on)
  BY <1>2
<1>9. ((bd * k) * 1) * od = k * (bd * od)
  BY <1>2
<1> QED
  BY <1>5, <1>7, <1>8, <1>9, EqualIs

\* The loss cost is the closed formula of the pure premium.
LEMMA ExactPure ==
    ASSUME NEW s, NEW t, Priced(s, t)
    PROVE  equal(subtotal_of(loss_cost(s, t)), Exact(s, t).pure)
<1> DEFINE b == t.base_rate_permille
           o == t.occupancy_factors[s.occupancy]
           n == s.tiv_eur
           p == Factors(s, t)
           base == subtotal_of(base_lines(s, t))
<1>1. n \in Nat /\ b \in Frac /\ o \in Frac /\ IsTable(t)
  BY TableFacts, BaseLines DEF Priced, Risk
<1>2. base = times(times(times(b, frac(1, 1000)), frac(n, 1)), o)
  BY BaseLines DEF base_premium
<1>3. equal(base, times(frac(n, 1000), times(b, o)))
  <2>1. 1000 \in Nat \ {0}
    OBVIOUS
  <2> HIDE DEF b, o, n, base
  <2> QED
    BY <1>1, <1>2, <2>1, RateRegroup
<1>4. equal(subtotal_of(loss_cost(s, t)), times(base, p)) /\ p \in Frac
  <2>1. /\ Len(t.adjustments) \in adjustments(t)
        /\ loss_cost(s, t) = adjusting(s, t)[Len(t.adjustments)]
        /\ p = factoring(s, t)[Len(t.adjustments)]
    BY <1>1, TableFacts, Adjusting, Factoring DEF adjustments
  <2> QED
    BY <2>1, AdjustedSubtotal
<1>5. Exact(s, t).pure = times(times(frac(n, 1000), times(b, o)), p)
  BY DEF Exact
<1> HIDE DEF b, o, n, p, base
<1>6. equal(times(base, p), times(times(frac(n, 1000), times(b, o)), p))
  BY <1>3, <1>4, EqualReflexive, EqualTimes
<1> QED
  BY <1>4, <1>5, <1>6, EqualTransitive

\* The loadings may be multiplied in any grouping.
LEMMA ExactTechnical ==
    ASSUME NEW t, IsTable(t), NEW a, NEW x, equal(a, x)
    PROVE  equal(loaded_factor(a, t),
                 times(times(x, plus(One, t.expense_loading)),
                       times(plus(One, t.risk_margin), plus(One, t.cat_provision))))
<1> DEFINE e == plus(One, t.expense_loading)
           r == plus(One, t.risk_margin)
           c == plus(One, t.cat_provision)
<1>1. e \in Frac /\ r \in Frac /\ c \in Frac
  BY TableFacts, OneAndZero, PlusValue DEF is
<1>2. a \in Frac /\ x \in Frac
  BY EqualFacts
<1>3. loaded_factor(a, t) = times(times(times(a, e), r), c)
  BY DEF loaded_factor
<1> HIDE DEF e, r, c
<1>4. times(a, e) \in Frac
  BY <1>1, <1>2, TimesValue
<1>5. equal(times(times(times(a, e), r), c), times(times(a, e), times(r, c)))
  BY <1>1, <1>4, EqualRegroup
<1>6. equal(times(a, e), times(x, e)) /\ times(r, c) \in Frac
  BY <1>1, TimesValue, EqualReflexive, EqualTimes
<1>7. equal(times(times(a, e), times(r, c)), times(times(x, e), times(r, c)))
  BY <1>6, EqualReflexive, EqualTimes
<1>8. equal(times(times(times(a, e), r), c), times(times(x, e), times(r, c)))
  BY <1>5, <1>7, EqualTransitive
<1> QED
  BY <1>3, <1>8 DEF e, r, c

\* So are the later stages.
LEMMA ExactStages ==
    ASSUME NEW s, NEW t, Priced(s, t)
    PROVE  /\ equal(subtotal_of(technical(loss_cost(s, t), t)), Exact(s, t).tech)
           /\ equal(subtotal_of(sold_trail(s, t)), Exact(s, t).comm)
           /\ equal(subtotal_of(final_trail(s, t)), Exact(s, t).final)
<1> DEFINE x == Exact(s, t)
           a1 == subtotal_of(loss_cost(s, t))
           a2 == subtotal_of(technical(loss_cost(s, t), t))
           a3 == subtotal_of(sold_trail(s, t))
           a4 == subtotal_of(final_trail(s, t))
           ca == s.commercial_adjustment
           i == t.ipt_rate
           fee == frac(t.fixed_fees_minor, 1)
<1>1. IsTable(t) /\ ca \in Frac /\ i \in Frac /\ fee \in Frac
  BY TableFacts, FracValue DEF Priced, Risk
<1>2. /\ equal(a2, loaded_factor(a1, t)) /\ equal(a3, times(a2, ca))
      /\ equal(a4, taxed(a3, t)) /\ {a2, a3, a4} \subseteq Frac
  BY Stages, GoesTyped
<1>3. equal(a1, x.pure)
  BY ExactPure
<1>4. /\ x.tech = times(times(x.pure, plus(One, t.expense_loading)),
                        times(plus(One, t.risk_margin), plus(One, t.cat_provision)))
      /\ x.comm = times(x.tech, ca)
      /\ x.final = plus(times(x.comm, plus(One, i)), fee)
  BY DEF Exact
<1>5. taxed(a3, t) = plus(plus(a3, fee), times(a3, i))
  BY DEF taxed
<1> HIDE DEF x, a1, a2, a3, a4, ca, i, fee
<1>6. equal(a2, x.tech)
  BY <1>1, <1>2, <1>3, <1>4, ExactTechnical, EqualTransitive
<1>7. equal(a3, x.comm)
  <2>1. equal(times(a2, ca), times(x.tech, ca))
    BY <1>1, <1>6, EqualReflexive, EqualTimes
  <2> QED
    BY <1>2, <1>4, <2>1, EqualTransitive
<1>8. equal(a4, x.final)
  <2>1. equal(taxed(a3, t), plus(times(a3, plus(One, i)), fee))
    BY <1>1, <1>2, <1>5, EqualAdded
  <2>2. plus(One, i) \in Frac
    BY <1>1, OneAndZero, PlusValue DEF is
  <2>3. equal(times(a3, plus(One, i)), times(x.comm, plus(One, i)))
    BY <1>7, <2>2, EqualReflexive, EqualTimes
  <2>4. equal(plus(times(a3, plus(One, i)), fee), x.final)
    BY <1>1, <1>4, <2>3, EqualReflexive, EqualPlus
  <2> QED
    BY <1>2, <2>1, <2>4, EqualTransitive
<1> QED
  BY <1>6, <1>7, <1>8 DEF x, a2, a3, a4

-----------------------------------------------------------------------------
\* Where a stage ends.

\* The lines of the stages are those of the trail p, which the final trail f
\* continues: the last of them is the last of p.
LEMMA StageEnd ==
    ASSUME NEW stages, NEW p \in Seq(Line), Len(p) > 0, NEW f \in Seq(Line),
           Len(p) <= Len(f),
           \A i \in 1 .. Len(p) : f[i] = p[i] /\ f[i].stage \in stages,
           \A i \in Len(p) + 1 .. Len(f) : f[i].stage \notin stages,
           breakdown.line_items =
              [i \in DOMAIN f |->
                  [label |-> f[i].label, stage |-> f[i].stage,
                   running_subtotal_minor |-> _to_minor(f[i].subtotal)]]
    PROVE  EndOf(stages) = _to_minor(subtotal_of(p))
<1> DEFINE items == breakdown.line_items
           lines == {i \in DOMAIN items : items[i].stage \in stages}
           end == CHOOSE i \in lines : \A j \in lines : j <= i
<1>1. DOMAIN f = 1 .. Len(f) /\ Len(f) \in Nat /\ Len(p) \in Nat
  OBVIOUS
<1>2. DOMAIN items = 1 .. Len(f)
  BY <1>1
<1>3. \A i \in 1 .. Len(f) : /\ items[i].stage = f[i].stage
                             /\ items[i].running_subtotal_minor = _to_minor(f[i].subtotal)
  BY <1>1
<1>4. EndOf(stages) = items[end].running_subtotal_minor
  BY DEF EndOf
<1> HIDE DEF items
<1>5. lines = 1 .. Len(p)
  <2>1. \A i \in 1 .. Len(f) : f[i].stage \in stages <=> i \in 1 .. Len(p)
    <3> TAKE i \in 1 .. Len(f)
    <3>1. i \in 1 .. Len(p) \/ i \in Len(p) + 1 .. Len(f)
      BY <1>1
    <3>2. i \in Len(p) + 1 .. Len(f) => i \notin 1 .. Len(p)
      BY <1>1
    <3> QED
      BY <3>1, <3>2
  <2>2. 1 .. Len(p) \subseteq 1 .. Len(f)
    BY <1>1
  <2> QED
    BY <1>2, <1>3, <2>1, <2>2
<1> HIDE DEF lines
<1>6. end = Len(p)
  <2>1. Len(p) \in lines /\ \A j \in lines : j <= Len(p)
    BY <1>1, <1>5
  <2>2. \A i \in lines : (\A j \in lines : j <= i) => i = Len(p)
    BY <1>1, <1>5
  <2> QED
    BY <2>1, <2>2
<1> HIDE DEF end
<1>7. Len(p) \in 1 .. Len(f) /\ f[Len(p)] = p[Len(p)]
  BY <1>1
<1> QED
  BY <1>3, <1>4, <1>6, <1>7 DEF subtotal_of

\* The reported premium of a stage is the last subtotal of its lines, rounded.
LEMMA StageEnds ==
    ASSUME NEW s, NEW t, Priced(s, t), breakdown = rate(s, t)
    PROVE  /\ EndOf({"loss_cost"}) = breakdown.pure_premium_minor
           /\ EndOf({"loss_cost", "technical"}) = breakdown.technical_premium_minor
           /\ EndOf({"loss_cost", "technical", "commercial"})
                 = breakdown.commercial_premium_minor
           /\ EndOf({"loss_cost", "technical", "commercial", "taxes"})
                 = breakdown.premium_minor
<1> DEFINE p == loss_cost(s, t)
           q == technical(p, t)
           r == sold_trail(s, t)
           f == final_trail(s, t)
<1>1. /\ {p, q, r, f} \subseteq Seq(Line) /\ Len(p) > 0 /\ Len(q) > 0
      /\ Len(r) > 0 /\ Len(f) > 0
      /\ grown(p, q, "technical") /\ grown(q, r, "commercial") /\ grown(r, f, "taxes")
  BY Stages, GoesTyped DEF goes_to
<1>2. \A i \in 1 .. Len(p) : p[i].stage = "loss_cost"
  BY Stages
<1>3. breakdown.line_items =
         [i \in DOMAIN f |->
             [label |-> f[i].label, stage |-> f[i].stage,
              running_subtotal_minor |-> _to_minor(f[i].subtotal)]]
  BY Rated
<1>4. /\ breakdown.pure_premium_minor = _to_minor(subtotal_of(p))
      /\ breakdown.technical_premium_minor = _to_minor(subtotal_of(q))
      /\ breakdown.commercial_premium_minor = _to_minor(subtotal_of(r))
      /\ breakdown.premium_minor = _to_minor(subtotal_of(f))
  BY Rated
<1> HIDE DEF p, q, r, f
<1>5. /\ Len(p) \in Nat /\ Len(q) \in Nat /\ Len(r) \in Nat /\ Len(f) \in Nat
      /\ Len(p) <= Len(q) /\ Len(q) <= Len(r) /\ Len(r) <= Len(f)
  BY <1>1 DEF grown
<1>6. /\ \A i \in 1 .. Len(p) : f[i] = p[i] /\ f[i].stage = "loss_cost"
      /\ \A i \in 1 .. Len(q) : f[i] = q[i]
      /\ \A i \in 1 .. Len(r) : f[i] = r[i]
  <2>1. \A i \in 1 .. Len(r) : f[i] = r[i]
    BY <1>1 DEF grown
  <2>2. \A i \in 1 .. Len(q) : i \in 1 .. Len(r) /\ r[i] = q[i]
    BY <1>1, <1>5 DEF grown
  <2>3. \A i \in 1 .. Len(p) : i \in 1 .. Len(q) /\ q[i] = p[i]
    BY <1>1, <1>5 DEF grown
  <2> QED
    BY <1>2, <2>1, <2>2, <2>3
<1>7. /\ \A i \in Len(p) + 1 .. Len(q) : f[i].stage = "technical"
      /\ \A i \in Len(q) + 1 .. Len(r) : f[i].stage = "commercial"
      /\ \A i \in Len(r) + 1 .. Len(f) : f[i].stage = "taxes"
  <2>1. \A i \in Len(p) + 1 .. Len(q) : i \in 1 .. Len(q) /\ q[i].stage = "technical"
    BY <1>1, <1>5 DEF grown
  <2>2. \A i \in Len(q) + 1 .. Len(r) : i \in 1 .. Len(r) /\ r[i].stage = "commercial"
    BY <1>1, <1>5 DEF grown
  <2>3. \A i \in Len(r) + 1 .. Len(f) : f[i].stage = "taxes"
    BY <1>1 DEF grown
  <2> QED
    BY <1>6, <2>1, <2>2, <2>3
<1>8. /\ \A i \in 1 .. Len(q) : i \in 1 .. Len(p) \/ i \in Len(p) + 1 .. Len(q)
      /\ \A i \in 1 .. Len(r) : i \in 1 .. Len(q) \/ i \in Len(q) + 1 .. Len(r)
      /\ \A i \in 1 .. Len(f) : i \in 1 .. Len(r) \/ i \in Len(r) + 1 .. Len(f)
      /\ \A i \in Len(p) + 1 .. Len(f) :
            i \in Len(p) + 1 .. Len(q) \/ i \in Len(q) + 1 .. Len(f)
      /\ \A i \in Len(q) + 1 .. Len(f) :
            i \in Len(q) + 1 .. Len(r) \/ i \in Len(r) + 1 .. Len(f)
  BY <1>5
<1>9. EndOf({"loss_cost"}) = breakdown.pure_premium_minor
  <2> DEFINE stages == {"loss_cost"}
  <2>1. /\ \A i \in 1 .. Len(p) : f[i] = p[i] /\ f[i].stage \in stages
        /\ \A i \in Len(p) + 1 .. Len(f) : f[i].stage \notin stages
    BY <1>6, <1>7, <1>8
  <2> HIDE DEF stages
  <2>2. Len(p) <= Len(f)
    BY <1>5
  <2>3. EndOf(stages) = _to_minor(subtotal_of(p))
    BY <1>1, <1>3, <2>1, <2>2, StageEnd
  <2> QED
    BY <1>4, <2>3 DEF stages
<1>10. EndOf({"loss_cost", "technical"}) = breakdown.technical_premium_minor
  <2> DEFINE stages == {"loss_cost", "technical"}
  <2>1. /\ \A i \in 1 .. Len(q) : f[i] = q[i] /\ f[i].stage \in stages
        /\ \A i \in Len(q) + 1 .. Len(f) : f[i].stage \notin stages
    BY <1>6, <1>7, <1>8
  <2> HIDE DEF stages
  <2>2. Len(q) <= Len(f)
    BY <1>5
  <2>3. EndOf(stages) = _to_minor(subtotal_of(q))
    BY <1>1, <1>3, <2>1, <2>2, StageEnd
  <2> QED
    BY <1>4, <2>3 DEF stages
<1>11. EndOf({"loss_cost", "technical", "commercial"}) = breakdown.commercial_premium_minor
  <2> DEFINE stages == {"loss_cost", "technical", "commercial"}
  <2>1. /\ \A i \in 1 .. Len(r) : f[i] = r[i] /\ f[i].stage \in stages
        /\ \A i \in Len(r) + 1 .. Len(f) : f[i].stage \notin stages
    BY <1>6, <1>7, <1>8
  <2> HIDE DEF stages
  <2>2. EndOf(stages) = _to_minor(subtotal_of(r))
    BY <1>1, <1>3, <1>5, <2>1, StageEnd
  <2> QED
    BY <1>4, <2>2 DEF stages
<1>12. EndOf({"loss_cost", "technical", "commercial", "taxes"}) = breakdown.premium_minor
  <2> DEFINE stages == {"loss_cost", "technical", "commercial", "taxes"}
             whole == f
  <2>1. /\ \A i \in 1 .. Len(whole) : f[i] = whole[i] /\ f[i].stage \in stages
        /\ \A i \in Len(whole) + 1 .. Len(f) : f[i].stage \notin stages
        /\ Len(whole) <= Len(f) /\ whole \in Seq(Line) /\ Len(whole) > 0
    BY <1>1, <1>5, <1>6, <1>7, <1>8
  <2>2. EndOf(stages) = _to_minor(subtotal_of(f))
    <3> HIDE DEF stages, whole
    <3>1. EndOf(stages) = _to_minor(subtotal_of(whole))
      BY <1>1, <1>3, <2>1, StageEnd
    <3> QED
      BY <3>1 DEF whole
  <2> QED
    BY <1>4, <2>2 DEF stages
<1> QED
  BY <1>9, <1>10, <1>11, <1>12

\* For every risk and table: each staged subtotal is its formula rounded once, and the
\* subtotal at which the trail ends the stage.
THEOREM TrailExplains == Spec => []TrailExplainsPremium
<1>1. RateInv => TrailExplainsPremium
  <2> SUFFICES ASSUME RateInv, priced PROVE TrailExplainsPremium
    BY DEF TrailExplainsPremium
  <2> DEFINE s == submission
             t == rate_table
             upto == <<"loss_cost", "technical", "commercial", "taxes">>
             ends == [n \in 1 .. 4 |-> EndOf({upto[i] : i \in 1 .. n})]
  <2>1. Priced(s, t) /\ breakdown = rate(s, t)
    BY QuotePriced DEF RateInv
  <2>2. /\ breakdown.pure_premium_minor = _to_minor(Exact(s, t).pure)
        /\ breakdown.technical_premium_minor = _to_minor(Exact(s, t).tech)
        /\ breakdown.commercial_premium_minor = _to_minor(Exact(s, t).comm)
        /\ breakdown.premium_minor = _to_minor(Exact(s, t).final)
    <3>1. /\ equal(subtotal_of(loss_cost(s, t)), Exact(s, t).pure)
          /\ equal(subtotal_of(technical(loss_cost(s, t), t)), Exact(s, t).tech)
          /\ equal(subtotal_of(sold_trail(s, t)), Exact(s, t).comm)
          /\ equal(subtotal_of(final_trail(s, t)), Exact(s, t).final)
      BY <2>1, ExactPure, ExactStages
    <3>2. /\ _to_minor(subtotal_of(loss_cost(s, t))) = _to_minor(Exact(s, t).pure)
          /\ _to_minor(subtotal_of(technical(loss_cost(s, t), t)))
                = _to_minor(Exact(s, t).tech)
          /\ _to_minor(subtotal_of(sold_trail(s, t))) = _to_minor(Exact(s, t).comm)
          /\ _to_minor(subtotal_of(final_trail(s, t))) = _to_minor(Exact(s, t).final)
      BY <3>1, EqualFacts
    <3>3. /\ breakdown.pure_premium_minor = _to_minor(subtotal_of(loss_cost(s, t)))
          /\ breakdown.technical_premium_minor
                = _to_minor(subtotal_of(technical(loss_cost(s, t), t)))
          /\ breakdown.commercial_premium_minor = _to_minor(subtotal_of(sold_trail(s, t)))
          /\ breakdown.premium_minor = _to_minor(subtotal_of(final_trail(s, t)))
      <4> HIDE DEF s, t
      <4> QED
        BY <2>1, Rated
    <3> QED
      BY <3>2, <3>3
  <2>3. /\ {upto[i] : i \in 1 .. 1} = {"loss_cost"}
        /\ {upto[i] : i \in 1 .. 2} = {"loss_cost", "technical"}
        /\ {upto[i] : i \in 1 .. 3} = {"loss_cost", "technical", "commercial"}
        /\ {upto[i] : i \in 1 .. 4} = {"loss_cost", "technical", "commercial", "taxes"}
    <3>1. /\ 1 .. 1 = {1} /\ 1 .. 2 = {1, 2} /\ 1 .. 3 = {1, 2, 3} /\ 1 .. 4 = {1, 2, 3, 4}
      OBVIOUS
    <3>2. /\ upto[1] = "loss_cost" /\ upto[2] = "technical"
          /\ upto[3] = "commercial" /\ upto[4] = "taxes"
      OBVIOUS
    <3> HIDE DEF upto
    <3> QED
      BY <3>1, <3>2
  <2>4. ends = <<breakdown.pure_premium_minor, breakdown.technical_premium_minor,
                 breakdown.commercial_premium_minor, breakdown.premium_minor>>
    <3>1. /\ ends[1] = breakdown.pure_premium_minor
          /\ ends[2] = breakdown.technical_premium_minor
          /\ ends[3] = breakdown.commercial_premium_minor
          /\ ends[4] = breakdown.premium_minor
      <4> HIDE DEF upto
      <4>1. /\ ends[1] = EndOf({upto[i] : i \in 1 .. 1})
            /\ ends[2] = EndOf({upto[i] : i \in 1 .. 2})
            /\ ends[3] = EndOf({upto[i] : i \in 1 .. 3})
            /\ ends[4] = EndOf({upto[i] : i \in 1 .. 4})
        OBVIOUS
      <4> QED
        BY <2>1, <2>3, <4>1, StageEnds
    <3>2. ends = [n \in 1 .. 4 |-> ends[n]]
      OBVIOUS
    <3> HIDE DEF ends
    <3> QED
      BY <3>1, <3>2
  <2> QED
    BY Zenon, <2>2, <2>4 DEF TrailExplainsPremium
<1> QED
  BY <1>1, QuotesAreRated, PTL

-----------------------------------------------------------------------------
\* The seeded tables.

\* The seeded tax rates and sprinkler factor are at most one, the high-TIV factor at least.
LEMMA SeededFactors ==
    /\ {V1_RULES.base_rate_permille, V1_RULES.ipt_rate, V2_RULES.ipt_rate} \subseteq Frac
    /\ leq(V1_RULES.ipt_rate, One) /\ leq(V2_RULES.ipt_rate, One)
    /\ leq(One, frac(11, 10)) /\ leq(frac(19, 20), One)
<1>1. /\ is(frac(9, 100), 9, 100) /\ is(frac(11, 10), 11, 10)
      /\ is(frac(19, 20), 19, 20) /\ frac(1, 2) \in Frac
  BY IsFrac, FracValue
<1>2. leq(frac(9, 100), One) /\ leq(Zero, One)
  BY <1>1, OneAndZero, LeqIs
<1>3. leq(One, frac(11, 10)) /\ leq(frac(19, 20), One)
  BY <1>1, OneAndZero, LeqIs
<1> QED
  BY <1>1, <1>2, <1>3, OneAndZero DEF V1_RULES, V2_RULES, is

\* Both tables of V1_RULES and V2_RULES (app/rating/repository.py) are tables that
\* the theorems above speak of.  (That a literal is a STRING is true of TLA+;
\* it is a hypothesis here because no prover knows it.)
THEOREM SeededTablesAreSound ==
    ASSUME {"high_tiv_loading", "sprinklered_discount"} \subseteq STRING
    PROVE  \A t \in {V1_RULES, V2_RULES} : IsTable(t) /\ Sound(t)
<1> DEFINE dear == frac(11, 10)
           wet == frac(19, 20)
<1>1. /\ dear \in Frac /\ wet \in Frac /\ One \in Frac /\ Zero \in Frac
      /\ frac(1, 2) \in Frac /\ frac(5, 4) \in Frac /\ frac(3, 2) \in Frac
      /\ frac(3, 1) \in Frac
  BY FracValue DEF One, Zero
<1>2. /\ frac(15, 100) \in Frac /\ frac(6, 100) \in Frac /\ frac(4, 100) \in Frac
      /\ frac(85, 100) \in Frac /\ frac(115, 100) \in Frac /\ frac(9, 100) \in Frac
  BY FracValue
<1> HIDE DEF dear, wet
<1>3. /\ V1_RULES.adjustments = V2_RULES.adjustments
      /\ V1_RULES.occupancy_factors = V2_RULES.occupancy_factors
  BY DEF V1_RULES, V2_RULES
<1>4. V1_RULES.adjustments =
          <<[name |-> "high_tiv_loading", factor |-> dear, applies_when |-> "high_tiv"],
            [name |-> "sprinklered_discount", factor |-> wet,
             applies_when |-> "sprinklered"]>>
  BY DEF V1_RULES, dear, wet
<1>5. V1_RULES.adjustments \in
          Seq([name : STRING, factor : Frac, applies_when : Flags \union {NoFlag}])
  <2> DEFINE Entry == [name : STRING, factor : Frac, applies_when : Flags \union {NoFlag}]
  <2>1. /\ [name |-> "high_tiv_loading", factor |-> dear, applies_when |-> "high_tiv"]
             \in Entry
        /\ [name |-> "sprinklered_discount", factor |-> wet,
            applies_when |-> "sprinklered"] \in Entry
    BY <1>1 DEF Flags
  <2> HIDE DEF Entry
  <2>2. ASSUME NEW a \in Entry, NEW b \in Entry
        PROVE  <<a, b>> \in Seq(Entry)
    OBVIOUS
  <2>3. V1_RULES.adjustments \in Seq(Entry)
    BY <1>4, <2>1, <2>2
  <2> QED
    BY <2>3 DEF Entry
<1>6. V1_RULES.occupancy_factors \in [DOMAIN V1_RULES.occupancy_factors -> Frac]
  BY <1>1 DEF V1_RULES, dear
<1>7. \A n \in 1 .. Len(V1_RULES.adjustments) :
          /\ V1_RULES.adjustments[n].applies_when = "high_tiv"
                => ~less(V1_RULES.adjustments[n].factor, One)
          /\ V1_RULES.adjustments[n].applies_when = "sprinklered"
                => ~less(One, V1_RULES.adjustments[n].factor)
  BY <1>1, <1>4, SeededFactors, NotLess DEF dear, wet
<1>8. ~less(One, V1_RULES.ipt_rate) /\ ~less(One, V2_RULES.ipt_rate)
  BY <1>1, SeededFactors, NotLess
<1>9. {V1_RULES.base_rate_permille, V1_RULES.expense_loading, V1_RULES.risk_margin,
       V1_RULES.cat_provision, V1_RULES.commercial_adjustment_min,
       V1_RULES.commercial_adjustment_max, V1_RULES.ipt_rate} \subseteq Frac
      /\ V1_RULES.fixed_fees_minor \in Nat
  BY <1>1 DEF V1_RULES
<1>10. {V2_RULES.base_rate_permille, V2_RULES.expense_loading, V2_RULES.risk_margin,
        V2_RULES.cat_provision, V2_RULES.commercial_adjustment_min,
        V2_RULES.commercial_adjustment_max, V2_RULES.ipt_rate} \subseteq Frac
       /\ V2_RULES.fixed_fees_minor \in Nat
  BY <1>1, <1>2 DEF V1_RULES, V2_RULES
<1>11. IsTable(V1_RULES) /\ IsTable(V2_RULES)
  BY <1>3, <1>5, <1>6, <1>9, <1>10 DEF IsTable
<1>12. Sound(V1_RULES) /\ Sound(V2_RULES)
  BY <1>3, <1>7, <1>8 DEF Sound
<1> QED
  BY <1>11, <1>12
=============================================================================
