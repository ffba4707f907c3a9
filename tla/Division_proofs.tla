--------------------------- MODULE Division_proofs ---------------------------
(***************************************************************************)
(* Proof that the multiply-high sequence divides, for every word size and  *)
(* every divisor.                                                          *)
(*                                                                         *)
(* With p = 2 * Half * Pow2[s] and e the error, the multiplier is          *)
(* (p + e) / d exactly.  A dividend q * d + r then gives the quotient q if *)
(* r * p + e * (q * d + r) stays below d * p, and the search for s goes on *)
(* until e is small enough for that.                                       *)
(***************************************************************************)
EXTENDS Division, WellFoundedInduction, TLAPS

-----------------------------------------------------------------------------
(* Products and quotients.                                                 *)

LEMMA ProductIsInt == \A a, b \in Int : a * b \in Int
  OBVIOUS

LEMMA ProductMono ==
  ASSUME NEW a \in Int, NEW b \in Int, NEW c \in Nat, a <= b
  PROVE  a * c <= b * c
<1>1. (b - a) * c >= 0
  OBVIOUS
<1>2. (b - a) * c = b * c - a * c
  OBVIOUS
<1>3. a * c \in Int /\ b * c \in Int
  OBVIOUS
<1> QED
  BY <1>1, <1>2, <1>3

LEMMA ProductCancel ==
  ASSUME NEW a \in Int, NEW b \in Int, NEW c \in Nat, c > 0
  PROVE  /\ a * c <= b * c => a <= b
         /\ a * c < b * c => a < b
<1>1. a > b => a * c >= b * c + c
  <2> SUFFICES ASSUME a > b PROVE a * c >= b * c + c
    OBVIOUS
  <2>1. (b + 1) * c <= a * c
    BY ProductMono
  <2>2. (b + 1) * c = b * c + c
    OBVIOUS
  <2> QED
    BY <2>1, <2>2
<1>2. a * c \in Int /\ b * c \in Int
  OBVIOUS
<1>3. a = b => a * c = b * c
  OBVIOUS
<1> QED
  BY <1>1, <1>2, <1>3

LEMMA DivMod ==
  ASSUME NEW a \in Int, NEW b \in Nat, b > 0
  PROVE  /\ a \div b \in Int /\ a % b \in 0..(b - 1)
         /\ a = ((a \div b) * b) + (a % b)
  OBVIOUS

LEMMA DivIs ==
  ASSUME NEW a \in Int, NEW b \in Nat, b > 0, NEW q \in Int, q * b <= a, a < (q + 1) * b
  PROVE  a \div b = q
<1> DEFINE t == a \div b
<1>1. t \in Int /\ t * b <= a /\ a < (t + 1) * b
  <2>1. (t + 1) * b = t * b + b
    BY DivMod
  <2> QED
    BY <2>1, DivMod
<1> HIDE DEF t
<1>2. q * b < (t + 1) * b /\ t * b < (q + 1) * b
  <2>1. q * b \in Int /\ (t + 1) * b \in Int /\ t * b \in Int /\ (q + 1) * b \in Int
    BY <1>1
  <2> QED
    BY <1>1, <2>1
<1>3. q < t + 1 /\ t < q + 1
  BY <1>1, <1>2, ProductCancel
<1> QED
  BY <1>1, <1>3 DEF t

LEMMA DivDiv ==
  ASSUME NEW a \in Int, NEW b \in Nat, b > 0, NEW c \in Nat, c > 0
  PROVE  (a \div b) \div c = a \div (b * c)
<1> DEFINE t == a \div b
           u == t \div c
<1>1. t \in Int /\ t * b <= a /\ a < (t + 1) * b
  <2>1. (t + 1) * b = t * b + b
    BY DivMod
  <2> QED
    BY <2>1, DivMod
<1>2. u \in Int /\ u * c <= t /\ t + 1 <= (u + 1) * c
  <2>1. (u + 1) * c = u * c + c
    BY <1>1, DivMod
  <2>2. t = (u * c) + (t % c) /\ t % c \in 0..(c - 1) /\ u \in Int
    BY <1>1, DivMod
  <2> QED
    BY <1>1, <2>1, <2>2
<1> HIDE DEF t, u
<1>3. (u * c) * b <= a /\ a < ((u + 1) * c) * b
  <2>1. (u * c) * b <= t * b /\ (t + 1) * b <= ((u + 1) * c) * b
    BY <1>1, <1>2, ProductMono
  <2>2. (u * c) * b \in Int /\ t * b \in Int /\ (t + 1) * b \in Int /\ ((u + 1) * c) * b \in Int
    BY <1>1, <1>2
  <2> QED
    BY <1>1, <2>1, <2>2
<1>4. (u * c) * b = u * (b * c) /\ ((u + 1) * c) * b = (u + 1) * (b * c)
  BY <1>2
<1>5. b * c \in Nat /\ b * c > 0
  OBVIOUS
<1> QED
  BY <1>2, <1>3, <1>4, <1>5, DivIs DEF t, u

-----------------------------------------------------------------------------
(* Powers of two: the recursion defines a function.  The least number for  *)
(* which a claim would fail takes the place of induction.                  *)

LEMMA LeastOf ==
  ASSUME NEW T, T \subseteq Nat, T # {}
  PROVE  \E x \in T : \A y \in T : x <= y
<1> DEFINE R == OpToRel(<, Nat)
<1>1. \A x, y \in Nat : y < x => <<y, x>> \in R
  BY DEF OpToRel
<1>2. IsWellFoundedOn(R, Nat)
  BY NatLessThanWellFounded
<1> HIDE DEF R
<1>3. PICK x \in T : \A y \in T : <<y, x>> \notin R
  BY <1>2, WFMin
<1>4. ASSUME NEW y \in T PROVE x <= y
  <2>1. x \in Nat /\ y \in Nat
    BY <1>3, <1>4
  <2>2. ~(y < x)
    BY <1>1, <1>3, <2>1
  <2> QED
    BY <2>1, <2>2
<1> QED
  BY <1>3, <1>4

\* The first n powers of two.
Powers(g, n) ==
  g \in [0..n -> Nat] /\ g[0] = 1 /\ \A k \in 1..n : g[k] = 2 * g[k - 1]

LEMMA PowersExist == \A n \in Nat : \E g : Powers(g, n)
<1> DEFINE T == {n \in Nat : ~\E g : Powers(g, n)}
<1> SUFFICES ASSUME T # {} PROVE FALSE
  OBVIOUS
<1>1. PICK n \in T : \A m \in T : n <= m
  BY LeastOf
<1>2. n # 0
  <2>1. Powers([k \in 0..0 |-> 1], 0)
    BY DEF Powers
  <2> QED
    BY <1>1, <2>1
<1>3. n \in Nat /\ n - 1 \in Nat /\ n - 1 \notin T
  BY <1>1, <1>2
<1>4. PICK g : Powers(g, n - 1)
  BY <1>3
<1> DEFINE h == [k \in 0..n |-> IF k = n THEN 2 * g[n - 1] ELSE g[k]]
<1>5. Powers(h, n)
  <2>1. g \in [0..(n - 1) -> Nat] /\ g[0] = 1 /\ \A k \in 1..(n - 1) : g[k] = 2 * g[k - 1]
    BY <1>4 DEF Powers
  <2>2. h \in [0..n -> Nat] /\ h[0] = 1
    BY <1>2, <1>3, <2>1
  <2>3. \A k \in 1..n : h[k] = 2 * h[k - 1]
    BY <1>2, <1>3, <2>1
  <2> QED
    BY <2>2, <2>3 DEF Powers
<1> QED
  BY <1>1, <1>5

LEMMA PowersAgree ==
  ASSUME NEW m \in Nat, NEW n \in Nat, NEW g, NEW h, Powers(g, m), Powers(h, n)
  PROVE  \A k \in Nat : k <= m /\ k <= n => g[k] = h[k]
<1> DEFINE T == {k \in Nat : k <= m /\ k <= n /\ g[k] # h[k]}
<1> SUFFICES ASSUME T # {} PROVE FALSE
  OBVIOUS
<1>1. PICK k \in T : \A j \in T : k <= j
  BY LeastOf
<1>2. k \in Nat /\ k <= m /\ k <= n /\ g[k] # h[k]
  BY <1>1
<1>3. k # 0
  BY <1>2 DEF Powers
<1>4. k - 1 \in Nat /\ k - 1 \notin T
  BY <1>1, <1>2, <1>3
<1>5. g[k - 1] = h[k - 1]
  BY <1>2, <1>4
<1>6. g[k] = 2 * g[k - 1] /\ h[k] = 2 * h[k - 1]
  BY <1>2, <1>3 DEF Powers
<1> QED
  BY <1>2, <1>5, <1>6

LEMMA Pow2Is ==
  /\ Pow2 \in [Nat -> Nat] /\ Pow2[0] = 1
  /\ \A n \in Nat : Pow2[n + 1] = 2 * Pow2[n]
<1> DEFINE F == [n \in Nat |-> (CHOOSE g : Powers(g, n))[n]]
           Step(f) == [n \in Nat |-> IF n = 0 THEN 1 ELSE 2 * f[n - 1]]
<1>1. \A n \in Nat : Powers(CHOOSE g : Powers(g, n), n)
  BY PowersExist
<1>2. ASSUME NEW n \in Nat PROVE F[n] \in Nat /\ F[n] = IF n = 0 THEN 1 ELSE 2 * F[n - 1]
  <2> DEFINE g == CHOOSE h : Powers(h, n)
             e == CHOOSE h : Powers(h, n - 1)
  <2>1. Powers(g, n) /\ F[n] = g[n]
    BY <1>1
  <2> HIDE DEF g
  <2>2. CASE n = 0
    BY <2>1, <2>2 DEF Powers
  <2>3. CASE n # 0
    <3>1. n - 1 \in Nat
      BY <2>3
    <3>2. Powers(e, n - 1) /\ F[n - 1] = e[n - 1]
      BY <1>1, <3>1
    <3> HIDE DEF e, F
    <3>3. g[n - 1] = e[n - 1]
      BY <2>1, <3>1, <3>2, PowersAgree
    <3>4. g[n] = 2 * g[n - 1] /\ g[n] \in Nat
      BY <2>1, <2>3 DEF Powers
    <3> QED
      BY <2>1, <2>3, <3>2, <3>3, <3>4
  <2> QED
    BY <2>2, <2>3
<1>3. F = Step(F)
  <2>1. F = [n \in Nat |-> F[n]]
    OBVIOUS
  <2> HIDE DEF F
  <2> QED
    BY <1>2, <2>1
<1> HIDE DEF F
<1>4. Pow2 = CHOOSE f : f = Step(f)
  BY DEF Pow2
<1>5. Pow2 = Step(Pow2)
  BY <1>3, <1>4
<1>6. Pow2[0] = 1 /\ \A n \in Nat : Pow2[n + 1] = 2 * Pow2[n]
  BY <1>5
<1>7. \A n \in Nat : Pow2[n] \in Nat
  <2> DEFINE T == {n \in Nat : Pow2[n] \notin Nat}
  <2> SUFFICES ASSUME T # {} PROVE FALSE
    OBVIOUS
  <2>1. PICK n \in T : \A m \in T : n <= m
    BY LeastOf
  <2>2. n # 0 /\ n \in Nat
    BY <1>6, <2>1
  <2>3. n - 1 \in Nat /\ Pow2[n - 1] \in Nat
    BY <2>1, <2>2
  <2>4. Pow2[n] = 2 * Pow2[n - 1]
    BY <1>6, <2>2, <2>3
  <2> QED
    BY <2>1, <2>3, <2>4
<1>8. Pow2 = [n \in Nat |-> Pow2[n]]
  BY <1>5
<1> QED
  BY <1>6, <1>7, <1>8

LEMMA Pow2Grows == \A n \in Nat : Pow2[n] >= n + 1
<1> DEFINE T == {n \in Nat : ~(Pow2[n] >= n + 1)}
<1> SUFFICES ASSUME T # {} PROVE FALSE
  OBVIOUS
<1>1. PICK n \in T : \A m \in T : n <= m
  BY LeastOf
<1>2. n # 0 /\ n \in Nat
  BY <1>1, Pow2Is
<1>3. n - 1 \in Nat /\ Pow2[n - 1] >= n
  BY <1>1, <1>2
<1>4. Pow2[n] = 2 * Pow2[n - 1] /\ Pow2[n - 1] \in Nat
  BY <1>2, <1>3, Pow2Is
<1> QED
  BY <1>1, <1>2, <1>3, <1>4

-----------------------------------------------------------------------------
(* The search for the shift ends, with an error that is small enough.      *)

Power(s) == 2 * Half * Pow2[s]

LEMMA PowerIs ==
  /\ \A s \in Nat : Power(s) \in Nat /\ Power(s) >= 2 * Half * (s + 1)
  /\ Power(0) = 2 * Half
  /\ \A s \in Nat : Power(s + 1) = 2 * Power(s)
<1>1. Half \in Nat /\ Half > 1
  BY HalfAssumption
<1>2. ASSUME NEW s \in Nat
      PROVE  /\ Power(s) \in Nat /\ Power(s) >= 2 * Half * (s + 1)
             /\ Power(s + 1) = 2 * Power(s)
  <2>1. Pow2[s] \in Nat /\ Pow2[s + 1] = 2 * Pow2[s] /\ s + 1 <= Pow2[s]
    BY Pow2Is, Pow2Grows
  <2>2. (s + 1) * (2 * Half) <= Pow2[s] * (2 * Half)
    BY <1>1, <2>1, ProductMono
  <2>3. (s + 1) * (2 * Half) = 2 * Half * (s + 1) /\ Pow2[s] * (2 * Half) = 2 * Half * Pow2[s]
    BY <1>1, <2>1
  <2>4. 2 * Half * (2 * Pow2[s]) = 2 * (2 * Half * Pow2[s])
    BY <1>1, <2>1
  <2>5. 2 * Half * Pow2[s] \in Nat
    BY <1>1, <2>1
  <2> QED
    BY <2>1, <2>2, <2>3, <2>4, <2>5 DEF Power
<1>3. Power(0) = 2 * Half
  BY <1>1, Pow2Is DEF Power
<1> QED
  BY <1>2, <1>3

LEMMA LargestIs ==
  ASSUME NEW d \in 2..Half
  PROVE  /\ LargestDividend(d) \in Nat /\ LargestDividend(d) < Half
         /\ Half = LargestDividend(d) + 1 + (Half % d) /\ Half % d \in 0..(d - 1)
         /\ Half \div d \in Nat /\ LargestDividend(d) + 1 = (Half \div d) * d
         /\ d <= LargestDividend(d) + 1
<1>1. Half \in Nat /\ d \in Nat /\ d > 0
  BY HalfAssumption
<1> DEFINE k == Half \div d
           h == Half % d
<1>2. k \in Int /\ h \in 0..(d - 1) /\ Half = (k * d) + h
  BY <1>1, DivMod
<1> HIDE DEF k, h
<1>3. k >= 1
  <2> SUFFICES ASSUME k <= 0 PROVE FALSE
    BY <1>2
  <2>1. k * d <= 0 * d
    BY <1>1, <1>2, ProductMono
  <2>2. k * d \in Int
    BY <1>1, <1>2
  <2> QED
    BY <1>1, <1>2, <2>1, <2>2
<1>4. 1 * d <= k * d /\ k * d \in Int
  BY <1>1, <1>2, <1>3, ProductMono
<1>5. LargestDividend(d) = Half - h - 1
  BY DEF LargestDividend, h
<1> QED
  BY <1>1, <1>2, <1>3, <1>4, <1>5 DEF k, h

LEMMA ErrorIs ==
  ASSUME NEW d \in 2..Half, NEW s \in Nat
  PROVE  /\ Error(d, s) \in 1..d
         /\ (Power(s) + Error(d, s)) \div d \in Nat
         /\ ((Power(s) + Error(d, s)) \div d) * d = Power(s) + Error(d, s)
<1>1. Half \in Nat /\ d \in Nat /\ d > 0 /\ Power(s) \in Nat
  BY HalfAssumption, PowerIs
<1> DEFINE k == Power(s) \div d
           e == Error(d, s)
<1>2. k \in Int /\ Power(s) % d \in 0..(d - 1) /\ Power(s) = (k * d) + (Power(s) % d)
  BY <1>1, DivMod
<1>3. e = d - (Power(s) % d)
  BY DEF Error, Power
<1> HIDE DEF k, e
<1>4. e \in 1..d
  BY <1>1, <1>2, <1>3
<1>5. Power(s) + e = (k + 1) * d /\ (k + 1) * d < (k + 2) * d
  <2>1. (k + 1) * d = (k * d) + d /\ (k + 2) * d = (k + 1) * d + d /\ k * d \in Int
    BY <1>1, <1>2
  <2> QED
    BY <1>1, <1>2, <1>3, <2>1
<1>6. (Power(s) + e) \div d = k + 1
  <2>1. (Power(s) + e) \in Int /\ k + 1 \in Int /\ (k + 1) + 1 = k + 2
    BY <1>1, <1>2, <1>4
  <2> QED
    BY <1>1, <1>5, <2>1, DivIs
<1>7. k >= 0
  <2> SUFFICES ASSUME k <= -1 PROVE FALSE
    BY <1>2
  <2>1. k * d <= (-1) * d /\ k * d \in Int
    BY <1>1, <1>2, ProductMono
  <2> QED
    BY <1>1, <1>2, <2>1
<1> QED
  BY <1>2, <1>4, <1>5, <1>6, <1>7 DEF e

\* The shift that the search stops at: the first that is not too short.
Shift(d) == CHOOSE s \in 0..Half : ~TooShort(d, s) /\ \A t \in 0..(s - 1) : TooShort(d, t)

LEMMA SearchEnds ==
  ASSUME NEW d \in 2..Half
  PROVE  /\ Shift(d) \in 0..Half /\ ~TooShort(d, Shift(d))
         /\ \A t \in 0..(Shift(d) - 1) : TooShort(d, t)
<1>1. Half \in Nat /\ Half > 1 /\ d \in Nat
  BY HalfAssumption
<1>2. ~TooShort(d, Half)
  <2> DEFINE nc == LargestDividend(d)
             e == Error(d, Half)
  <2>1. nc \in Nat /\ nc <= Half /\ e \in Nat /\ e <= Half
    <3>1. e \in 1..d
      BY <1>1, ErrorIs
    <3>2. nc \in Nat /\ nc < Half
      BY LargestIs
    <3> HIDE DEF nc, e
    <3> QED
      BY <1>1, <3>1, <3>2
  <2>2. Power(Half) \in Nat /\ Power(Half) >= 2 * Half * (Half + 1)
    BY <1>1, PowerIs
  <2>3. TooShort(d, Half) <=> Power(Half) <= nc * e
    BY DEF TooShort, Power
  <2> HIDE DEF nc, e
  <2>4. nc * e <= Half * e /\ e * Half <= Half * Half
    BY <1>1, <2>1, ProductMono
  <2>5. Half * e = e * Half /\ 2 * Half * (Half + 1) = (Half * Half) + (Half * Half) + Half + Half
    BY <1>1, <2>1
  <2>6. nc * e \in Int /\ Half * e \in Int /\ Half * Half \in Nat
    BY <1>1, <2>1
  <2>7. nc * e <= Half * Half
    BY <2>4, <2>5, <2>6
  <2>8. Half * Half < Power(Half)
    BY <1>1, <2>2, <2>5, <2>6
  <2> QED
    BY <2>2, <2>3, <2>6, <2>7, <2>8
<1> DEFINE T == {s \in Nat : ~TooShort(d, s)}
<1>3. PICK s \in T : \A t \in T : s <= t
  BY <1>1, <1>2, LeastOf
<1>4. s \in 0..Half /\ ~TooShort(d, s) /\ \A t \in 0..(s - 1) : TooShort(d, t)
  BY <1>1, <1>2, <1>3
<1> QED
  BY <1>4 DEF Shift

\* A divisor of Half + 1 needs no shift.
LEMMA LastDividend ==
  ASSUME NEW d \in 2..Half, Half % d = d - 1
  PROVE  Shift(d) = 0 /\ Error(d, 0) = 2
<1>1. Half \in Nat /\ Half > 1 /\ d \in Nat /\ d >= 2
  BY HalfAssumption
<1> DEFINE k == Half \div d
<1>2. k \in Nat /\ LargestDividend(d) + 1 = k * d /\ Half = LargestDividend(d) + d
      /\ LargestDividend(d) \in Nat
  <2>1. /\ LargestDividend(d) \in Nat /\ Half = LargestDividend(d) + 1 + (Half % d)
        /\ Half \div d \in Nat /\ LargestDividend(d) + 1 = (Half \div d) * d
    BY LargestIs
  <2>2. Half = LargestDividend(d) + 1 + (d - 1)
    BY <2>1
  <2> HIDE DEF k
  <2>3. Half = LargestDividend(d) + d
    BY <1>1, <2>1, <2>2
  <2> QED
    BY <2>1, <2>3 DEF k
<1> HIDE DEF k
<1>3. 2 * Half = ((2 * k + 1) * d) + (d - 2)
  <2>1. (2 * k + 1) * d = 2 * (k * d) + d /\ k * d \in Int
    BY <1>1, <1>2
  <2> QED
    BY <1>1, <1>2, <2>1
<1>4. Error(d, 0) = 2
  <2>1. (2 * Half) \div d = 2 * k + 1
    <3>1. (2 * k + 1 + 1) * d = ((2 * k + 1) * d) + d /\ (2 * k + 1) * d \in Int
      BY <1>1, <1>2
    <3>2. (2 * k + 1) * d <= 2 * Half /\ 2 * Half < (2 * k + 1 + 1) * d
      BY <1>1, <1>3, <3>1
    <3>3. 2 * Half \in Int /\ 2 * k + 1 \in Int
      BY <1>1, <1>2
    <3> QED
      BY <1>1, <3>2, <3>3, DivIs
  <2>2. (2 * Half) % d = d - 2
    <3>1. 2 * Half = (((2 * Half) \div d) * d) + ((2 * Half) % d) /\ (2 * Half) % d \in Int
      BY <1>1, DivMod
    <3>2. (2 * k + 1) * d \in Int
      BY <1>1, <1>2
    <3> QED
      BY <1>1, <1>3, <2>1, <3>1, <3>2
  <2>3. 2 * Half * Pow2[0] = 2 * Half
    BY PowerIs DEF Power
  <2> QED
    BY <1>1, <2>2, <2>3 DEF Error
<1>5. ~TooShort(d, 0)
  BY <1>1, <1>2, <1>4, PowerIs DEF TooShort, Power
<1>6. Shift(d) = 0
  BY <1>1, <1>5, SearchEnds
<1> QED
  BY <1>4, <1>6

\* The error, times a dividend, makes no difference to its quotient.
LEMMA ErrorSmall ==
  ASSUME NEW d \in 2..Half, NEW y \in 0..Half, NEW q \in Nat, NEW r \in 0..(d - 1), y = (q * d) + r
  PROVE  LET p == Power(Shift(d))
             e == Error(d, Shift(d))
         IN  /\ (r * p) + (e * y) <= d * p
             /\ y < Half => (r * p) + (e * y) < d * p
<1> DEFINE p == Power(Shift(d))
           e == Error(d, Shift(d))
           nc == LargestDividend(d)
           k == Half \div d
<1>1. Half \in Nat /\ d \in Nat /\ d >= 2 /\ Shift(d) \in Nat
  BY HalfAssumption, SearchEnds
<1>2. p \in Nat /\ e \in 1..d /\ nc \in Nat
  BY <1>1, PowerIs, ErrorIs, LargestIs
<1>3. e * nc < p
  <2>1. ~(Power(Shift(d)) <= nc * e)
    BY SearchEnds DEF TooShort, Power
  <2> HIDE DEF p, e, nc
  <2>2. nc * e = e * nc /\ e * nc \in Int
    BY <1>1, <1>2
  <2> QED
    BY <1>2, <2>1, <2>2 DEF p
<1>4. k \in Nat /\ nc + 1 = k * d /\ Half = nc + 1 + (Half % d) /\ Half % d \in 0..(d - 1) /\ d <= nc + 1
  BY LargestIs
<1>5. Half % d = d - 1 => e * Half <= p
  BY <1>1, LastDividend, PowerIs
<1> HIDE DEF p, e, nc, k
<1>6. \A n \in Nat : n < d => (n * p \in Nat /\ (n + 1) * p = (n * p) + p /\ (n + 1) * p <= d * p)
  <2> SUFFICES ASSUME NEW n \in Nat, n < d
               PROVE  n * p \in Nat /\ (n + 1) * p = (n * p) + p /\ (n + 1) * p <= d * p
    OBVIOUS
  <2>1. (n + 1) * p <= d * p
    BY <1>1, <1>2, ProductMono
  <2> QED
    BY <1>2, <2>1
<1>7. (r * p) + p <= d * p /\ r * p \in Nat /\ d * p \in Nat /\ e * y \in Nat
  BY <1>1, <1>2, <1>6
<1>8. CASE y <= nc
  <2>1. e * y <= e * nc
    <3>1. y * e <= nc * e
      BY <1>2, <1>8, ProductMono
    <3>2. y * e = e * y /\ nc * e = e * nc
      BY <1>1, <1>2
    <3> QED
      BY <3>1, <3>2
  <2>2. e * nc \in Nat
    BY <1>2
  <2>3. e * y < p
    BY <1>2, <1>3, <1>7, <2>1, <2>2
  <2> QED
    BY <1>2, <1>7, <2>3 DEF p, e
<1>9. CASE y > nc
  <2>1. q = k
    <3>1. k * d <= y /\ y < (k + 1) * d /\ q * d <= y /\ y < (q + 1) * d
      <4>1. (k + 1) * d = (k * d) + d /\ (q + 1) * d = (q * d) + d /\ k * d \in Int /\ q * d \in Int
        BY <1>1, <1>4
      <4> QED
        BY <1>1, <1>2, <1>4, <1>9, <4>1
    <3> QED
      BY <1>1, <1>4, <3>1, DivIs
  <2>2. y = nc + 1 + r
    BY <1>2, <1>4, <2>1
  <2>3. CASE r <= d - 2
    <3>1. e * (1 + r) <= e * nc /\ e * y = (e * nc) + (e * (1 + r))
      <4>1. (1 + r) * e <= nc * e
        BY <1>1, <1>2, <1>4, <2>3, ProductMono
      <4>2. (1 + r) * e = e * (1 + r) /\ nc * e = e * nc
        BY <1>1, <1>2
      <4>3. e * (nc + (1 + r)) = (e * nc) + (e * (1 + r))
        BY <1>1, <1>2
      <4>4. nc + (1 + r) = y
        BY <1>2, <2>2
      <4> QED
        BY <4>1, <4>2, <4>3, <4>4
    <3>2. (r * p) + p + p <= d * p
      <4>1. r + 1 \in Nat /\ r + 1 < d /\ r < d /\ r \in Nat
        BY <1>1, <2>3
      <4>2. (r + 1) * p = (r * p) + p /\ (r + 1 + 1) * p = ((r + 1) * p) + p /\ (r + 1 + 1) * p <= d * p
        BY <1>6, <4>1
      <4> QED
        BY <4>2
    <3>3. e * nc \in Nat /\ e * (1 + r) \in Nat
      BY <1>1, <1>2
    <3>4. e * y < p + p
      BY <1>2, <1>3, <1>7, <3>1, <3>3
    <3> QED
      BY <1>2, <1>7, <3>2, <3>4 DEF p, e
  <2>4. CASE r = d - 1
    <3>1. Half % d = d - 1 /\ y = Half
      BY <1>1, <1>2, <1>4, <2>2, <2>4
    <3>2. e * y <= p
      BY <1>5, <3>1
    <3> QED
      BY <1>2, <1>7, <3>1, <3>2 DEF p, e
  <2> QED
    BY <1>1, <2>3, <2>4
<1> QED
  BY <1>2, <1>8, <1>9

\* The multiplier fits in a word, so that nothing of it is lost.
LEMMA MultiplierFits ==
  ASSUME NEW d \in 2..Half
  PROVE  (Power(Shift(d)) + Error(d, Shift(d))) \div d < 2 * Half
<1> DEFINE s == Shift(d)
           p == Power(s)
           e == Error(d, s)
           M == (p + e) \div d
<1>1. Half \in Nat /\ Half > 1 /\ d \in Nat /\ d >= 2 /\ s \in Nat
  BY HalfAssumption, SearchEnds
<1>2. p \in Nat /\ e \in 1..d /\ M \in Nat /\ M * d = p + e
  BY <1>1, PowerIs, ErrorIs
<1>3. p + d < 2 * Half * d
  <2>1. CASE s = 0
    <3>1. p = 2 * Half
      BY <2>1, PowerIs
    <3>2. (d - 1) * (2 * Half) >= 1 * (2 * Half)
      BY <1>1, ProductMono
    <3>3. CASE d = 2
      BY <1>1, <3>1, <3>3
    <3>4. CASE d >= 3
      <4>1. 3 * (2 * Half) <= d * (2 * Half)
        BY <1>1, <3>4, ProductMono
      <4>2. d * (2 * Half) = 2 * Half * d /\ 2 * Half * d \in Nat
        BY <1>1
      <4> HIDE DEF p
      <4> QED
        BY <1>1, <3>1, <4>1, <4>2
    <3> QED
      BY <1>1, <3>3, <3>4
  <2>2. CASE s # 0
    <3> DEFINE t == s - 1
               f == Error(d, t)
               nc == LargestDividend(d)
    <3>1. t \in Nat /\ p = 2 * Power(t) /\ Power(t) \in Nat
      BY <1>1, <2>2, PowerIs
    <3>2. Power(t) <= nc * f
      BY <1>1, <2>2, SearchEnds DEF TooShort, Power
    <3>3. f \in 1..d /\ nc \in Nat /\ nc <= Half - 1
      BY <1>1, <3>1, LargestIs, ErrorIs
    <3> HIDE DEF p, s, t, f, nc
    <3>4. nc * f <= (Half - 1) * f /\ f * (Half - 1) <= d * (Half - 1)
      BY <1>1, <3>3, ProductMono
    <3>5. (Half - 1) * f = f * (Half - 1) /\ d * (Half - 1) = (Half * d) - d /\ 2 * Half * d = (Half * d) + (Half * d)
          /\ Half * d \in Nat /\ nc * f \in Nat /\ f * (Half - 1) \in Nat
      BY <1>1, <3>3
    <3>6. Power(t) <= (Half * d) - d
      BY <1>1, <3>1, <3>2, <3>4, <3>5
    <3> QED
      BY <1>1, <3>1, <3>5, <3>6
  <2> QED
    BY <2>1, <2>2
<1> HIDE DEF M, p, e
<1>4. M * d < (2 * Half) * d
  <2>1. M * d \in Int /\ 2 * Half * d = (2 * Half) * d /\ (2 * Half) * d \in Int
    BY <1>1, <1>2
  <2> QED
    BY <1>1, <1>2, <1>3, <2>1
<1>5. M < 2 * Half
  BY <1>1, <1>2, <1>4, ProductCancel
<1> QED
  BY <1>5 DEF M, p, e, s

-----------------------------------------------------------------------------
(* What the sequence computes.                                             *)

\* The multiplier rounds a dividend to F when the error leaves it there.
LEMMA Rounds ==
  ASSUME NEW M \in Nat, NEW d \in Nat, d > 0, NEW p \in Nat, p > 0, NEW e \in Nat, M * d = p + e,
         NEW x \in Int, NEW F \in Int, F * (p * d) <= (p + e) * x, (p + e) * x < (F + 1) * (p * d)
  PROVE  (M * x) \div p = F
<1>1. (M * x) * d = (p + e) * x
  <2>1. (M * x) * d = (M * d) * x
    OBVIOUS
  <2> QED
    BY <2>1
<1>2. F * (p * d) = (F * p) * d /\ (F + 1) * (p * d) = ((F + 1) * p) * d
  OBVIOUS
<1>3. M * x \in Int /\ F * p \in Int /\ (F + 1) * p \in Int
  OBVIOUS
<1>4. F * p <= M * x /\ M * x < (F + 1) * p
  <2>1. (F * p) * d <= (M * x) * d /\ (M * x) * d < ((F + 1) * p) * d
    BY <1>1, <1>2
  <2> QED
    BY <1>3, <2>1, ProductCancel
<1> QED
  BY <1>3, <1>4, DivIs

\* A dividend that is not negative is rounded down to its quotient, another one
\* to one below it.
LEMMA Rounded ==
  ASSUME NEW d \in 2..Half, NEW y \in 0..Half, NEW q \in Nat, NEW r \in 0..(d - 1), y = (q * d) + r
  PROVE  LET p == Power(Shift(d))
             M == (p + Error(d, Shift(d))) \div d
         IN  /\ y < Half => (M * y) \div p = q
             /\ y > 0 => (M * (-y)) \div p = -q - 1
<1> DEFINE p == Power(Shift(d))
           e == Error(d, Shift(d))
           M == (p + e) \div d
           D == (r * p) + (e * y)
<1>1. Half \in Nat /\ Half > 1 /\ d \in Nat /\ d > 0 /\ Shift(d) \in Nat /\ r \in Nat /\ y \in Nat
  BY HalfAssumption, SearchEnds
<1>2. p \in Nat /\ p >= 2 * Half * (Shift(d) + 1)
  BY <1>1, PowerIs
<1>3. e \in 1..d /\ M \in Nat /\ M * d = p + e
  BY <1>1, ErrorIs
<1>4. D <= d * p /\ (y < Half => D < d * p)
  BY ErrorSmall
<1>5. p > 0
  <2> HIDE DEF p
  <2>1. (Shift(d) + 1) * (2 * Half) >= 1 * (2 * Half)
    BY <1>1, ProductMono
  <2>2. (Shift(d) + 1) * (2 * Half) = 2 * Half * (Shift(d) + 1)
    BY <1>1
  <2> QED
    BY <1>1, <1>2, <2>1, <2>2
<1>6. D \in Nat /\ (y > 0 => D > 0)
  <2> HIDE DEF p, e
  <2>1. r * p \in Nat /\ e * y \in Nat /\ e \in Nat
    BY <1>1, <1>2, <1>3
  <2>2. 1 * y <= e * y
    BY <1>1, <1>3, ProductMono
  <2>3. y <= e * y
    BY <1>1, <2>2
  <2> HIDE DEF D
  <2>4. D = (r * p) + (e * y)
    BY DEF D
  <2> QED
    BY <1>1, <2>1, <2>3, <2>4
<1>7. (p + e) * y = (q * (p * d)) + D
  <2> HIDE DEF p, e, M, D
  <2>1. e \in Int /\ r \in Int /\ y \in Int /\ p \in Int
    BY <1>1, <1>2, <1>3
  <2>2. (p + e) * y = (p * y) + (e * y)
    BY <2>1
  <2>3. p * ((q * d) + r) = (q * (p * d)) + (r * p)
    BY <1>1, <2>1
  <2>4. p * y = p * ((q * d) + r)
    OBVIOUS
  <2>5. (p * y) \in Int /\ e * y \in Int /\ (q * (p * d)) \in Int /\ r * p \in Int
    BY <1>1, <2>1
  <2>6. D = (r * p) + (e * y)
    BY DEF D
  <2> QED
    BY <2>2, <2>3, <2>4, <2>5, <2>6
<1> HIDE DEF p, e, M, D
<1>8. /\ p * d \in Nat /\ d * p = p * d /\ q * (p * d) \in Int
      /\ (q + 1) * (p * d) = (q * (p * d)) + (p * d)
      /\ (-q - 1) * (p * d) = -(q * (p * d)) - (p * d)
      /\ ((-q - 1) + 1) * (p * d) = -(q * (p * d))
      /\ (p + e) * (-y) = -((p + e) * y) /\ (p + e) * y \in Int
  <2>1. e \in Int /\ p \in Int
    BY <1>2, <1>3
  <2> QED
    BY <1>1, <1>2, <2>1
<1>9. y < Half => (M * y) \div p = q
  <2> SUFFICES ASSUME y < Half PROVE (M * y) \div p = q
    OBVIOUS
  <2>1. q * (p * d) <= (p + e) * y /\ (p + e) * y < (q + 1) * (p * d)
    BY <1>4, <1>6, <1>7, <1>8
  <2>2. e \in Nat /\ y \in Int /\ q \in Int
    BY <1>1, <1>3
  <2> QED
    BY <1>1, <1>2, <1>3, <1>5, <2>1, <2>2, Rounds
<1>10. y > 0 => (M * (-y)) \div p = -q - 1
  <2> SUFFICES ASSUME y > 0 PROVE (M * (-y)) \div p = -q - 1
    OBVIOUS
  <2>1. (-q - 1) * (p * d) <= (p + e) * (-y) /\ (p + e) * (-y) < ((-q - 1) + 1) * (p * d)
    BY <1>4, <1>6, <1>7, <1>8
  <2>2. e \in Nat /\ -y \in Int /\ -q - 1 \in Int
    BY <1>1, <1>3
  <2> QED
    BY <1>1, <1>2, <1>3, <1>5, <2>1, <2>2, Rounds
<1> QED
  BY <1>9, <1>10 DEF p, e, M

LEMMA ModIs ==
  ASSUME NEW a \in Int, NEW b \in Nat, b > 0, NEW q \in Int, q * b <= a, a < (q + 1) * b
  PROVE  a % b = a - (q * b)
<1>1. a \div b = q
  BY DivIs
<1>2. a = (q * b) + (a % b) /\ a % b \in Int /\ q * b \in Int
  BY <1>1, DivMod
<1> QED
  BY <1>2

\* The numbers of a register.
LEMMA WrapIs ==
  /\ \A n \in -Half..(Half - 1) : Wrap(n) = n
  /\ \A n \in Half..(2 * Half - 1) : Wrap(n) = n - (2 * Half)
<1>1. Half \in Nat /\ Half > 1
  BY HalfAssumption
<1>2. ASSUME NEW n \in -Half..(Half - 1) PROVE Wrap(n) = n
  <2>1. n + Half \in Int /\ 0 * (2 * Half) <= n + Half /\ n + Half < (0 + 1) * (2 * Half)
        /\ 2 * Half \in Nat /\ 2 * Half > 0
    BY <1>1
  <2>2. (n + Half) % (2 * Half) = (n + Half) - (0 * (2 * Half))
    BY <2>1, ModIs
  <2> QED
    BY <1>1, <2>2 DEF Wrap
<1>3. ASSUME NEW n \in Half..(2 * Half - 1) PROVE Wrap(n) = n - (2 * Half)
  <2>1. n + Half \in Int /\ 1 * (2 * Half) <= n + Half /\ n + Half < (1 + 1) * (2 * Half)
        /\ 2 * Half \in Nat /\ 2 * Half > 0
    BY <1>1
  <2>2. (n + Half) % (2 * Half) = (n + Half) - (1 * (2 * Half))
    BY <2>1, ModIs
  <2> QED
    BY <1>1, <2>2 DEF Wrap
<1> QED
  BY <1>2, <1>3

LEMMA SignBit ==
  ASSUME NEW x \in -Half..(Half - 1)
  PROVE  Unsigned(x) \div Half = IF x < 0 THEN 1 ELSE 0
<1>1. Half \in Nat /\ Half > 1
  BY HalfAssumption
<1>2. CASE x < 0
  <2>1. x + 2 * Half \in Int /\ 0 * (2 * Half) <= x + 2 * Half /\ x + 2 * Half < (0 + 1) * (2 * Half)
        /\ 2 * Half \in Nat /\ 2 * Half > 0
    BY <1>1, <1>2
  <2>2. (x + 2 * Half) % (2 * Half) = (x + 2 * Half) - (0 * (2 * Half))
    BY <2>1, ModIs
  <2>3. Unsigned(x) = x + 2 * Half
    BY <1>1, <2>2 DEF Unsigned
  <2>4. 1 * Half <= x + 2 * Half /\ x + 2 * Half < (1 + 1) * Half
    BY <1>1, <1>2
  <2>5. (x + 2 * Half) \div Half = 1
    BY <1>1, <2>1, <2>4, DivIs
  <2> QED
    BY <1>2, <2>3, <2>5
<1>3. CASE x >= 0
  <2>1. x + 2 * Half \in Int /\ 1 * (2 * Half) <= x + 2 * Half /\ x + 2 * Half < (1 + 1) * (2 * Half)
        /\ 2 * Half \in Nat /\ 2 * Half > 0
    BY <1>1, <1>3
  <2> DEFINE a == x + 2 * Half
             b == 2 * Half
  <2>2. (x + 2 * Half) % (2 * Half) = (x + 2 * Half) - (1 * (2 * Half))
    <3>1. a \in Int /\ b \in Nat /\ b > 0 /\ 1 * b <= a /\ a < (1 + 1) * b
      BY <2>1
    <3> HIDE DEF a, b
    <3>2. a % b = a - (1 * b)
      BY <3>1, ModIs
    <3> QED
      BY <3>2 DEF a, b
  <2>3. Unsigned(x) = x
    BY <1>1, <2>2 DEF Unsigned
  <2>4. 0 * Half <= x /\ x < (0 + 1) * Half /\ x \in Int
    BY <1>1, <1>3
  <2>5. x \div Half = 0
    BY <1>1, <2>4, DivIs
  <2> QED
    BY <1>3, <2>3, <2>5
<1> QED
  BY <1>1, <1>2, <1>3

\* The dividend makes up for what a multiplier of Half or more lacks in a register.
LEMMA HighProductIs ==
  ASSUME NEW M \in 0..(2 * Half - 1), NEW x \in -Half..(Half - 1)
  PROVE  HighProduct(x, M) = (M * x) \div (2 * Half)
<1> DEFINE b == 2 * Half
           t == (M * x) \div b
<1>1. Half \in Nat /\ Half > 1 /\ b \in Nat /\ b > 0 /\ M \in Nat /\ x \in Int /\ M * x \in Int
  BY HalfAssumption
<1>2. t \in Int /\ t * b <= M * x /\ M * x < (t + 1) * b
  <2>1. (t + 1) * b = t * b + b
    BY <1>1, DivMod
  <2> QED
    BY <1>1, <2>1, DivMod
<1>3. CASE M < Half
  <2>1. Wrap(M) = M
    BY <1>1, <1>3, WrapIs
  <2>2. x * M = M * x
    BY <1>1
  <2> QED
    BY <1>1, <1>3, <2>1, <2>2 DEF HighProduct, HighWord
<1>4. CASE M >= Half
  <2>1. Wrap(M) = M - b
    BY <1>1, <1>4, WrapIs
  <2>2. HighWord(x, Wrap(M)) = (x * (M - b)) \div b
    BY <2>1 DEF HighWord
  <2>3. x * (M - b) = (M * x) - (x * b) /\ x * b \in Int /\ x * (M - b) \in Int
    <3> HIDE DEF b, t
    <3> QED
      BY <1>1
  <2>4. t \in -Half..(Half - 1)
    <3> HIDE DEF b, t
    <3>1. CASE x >= 0
      <4>1. M * x <= x * b
        <5>1. M * x <= b * x
          BY <1>1, <3>1, ProductMono DEF b
        <5> QED
          BY <1>1, <5>1
      <4>2. M * x >= 0
        BY <1>1, <3>1
      <4>3. t * b <= x * b /\ 0 * b < (t + 1) * b
        <5>1. t * b \in Int /\ (t + 1) * b \in Int /\ x * b \in Int /\ 0 * b = 0
          BY <1>1, <1>2
        <5> QED
          BY <1>1, <1>2, <4>1, <4>2, <5>1
      <4>4. t <= x /\ 0 < t + 1
        BY <1>1, <1>2, <4>3, ProductCancel
      <4> QED
        BY <1>1, <1>2, <4>4
    <3>2. CASE x < 0
      <4>1. x * b <= M * x
        <5>1. M * (-x) <= b * (-x)
          BY <1>1, <3>2, ProductMono DEF b
        <5>2. M * (-x) = -(M * x) /\ b * (-x) = -(x * b) /\ x * b \in Int
          BY <1>1
        <5> QED
          BY <1>1, <5>1, <5>2
      <4>2. M * x <= 0
        <5>1. x * M <= 0 * M
          BY <1>1, <3>2, ProductMono
        <5>2. x * M = M * x /\ 0 * M = 0
          BY <1>1
        <5> QED
          BY <5>1, <5>2
      <4>3. x * b < (t + 1) * b /\ t * b <= 0 * b
        <5>1. t * b \in Int /\ (t + 1) * b \in Int /\ x * b \in Int /\ 0 * b = 0
          BY <1>1, <1>2
        <5> QED
          BY <1>1, <1>2, <4>1, <4>2, <5>1
      <4>4. x < t + 1 /\ t <= 0
        BY <1>1, <1>2, <4>3, ProductCancel
      <4> QED
        BY <1>1, <1>2, <4>4
    <3> QED
      BY <1>1, <3>1, <3>2
  <2>5. (x * (M - b)) \div b = t - x
    <3> HIDE DEF b, t
    <3>1. (t - x) * b = (t * b) - (x * b) /\ ((t - x) + 1) * b = ((t + 1) * b) - (x * b)
      BY <1>1, <1>2
    <3>2. t * b \in Int /\ (t + 1) * b \in Int
      BY <1>1, <1>2
    <3>3. (t - x) * b <= x * (M - b) /\ x * (M - b) < ((t - x) + 1) * b
      BY <1>1, <1>2, <2>3, <3>1, <3>2
    <3>4. t - x \in Int
      BY <1>1, <1>2
    <3> QED
      BY <1>1, <2>3, <3>3, <3>4, DivIs
  <2>6. x + (t - x) = t
    <3> HIDE DEF b, t
    <3> QED
      BY <1>1, <1>2
  <2>7. HighProduct(x, M) = Wrap(x + (t - x))
    BY <1>4, <2>2, <2>5 DEF HighProduct
  <2>8. Wrap(t) = t
    BY <2>4, WrapIs
  <2> HIDE DEF t, b
  <2>9. HighProduct(x, M) = t
    BY <2>6, <2>7, <2>8
  <2> QED
    BY <2>9 DEF t, b
<1> QED
  BY <1>1, <1>3, <1>4

\* The instructions selected for a division by a constant compute the quotient, rounded
\* towards zero, of every dividend: by div_magic_info's multiplier and shift, with the
\* dividend added back for a multiplier of Half or more and one added for a negative
\* dividend (codegen.cpp:268-278, 536-565).  Of every word size and every divisor
\* from 2 to Half, of which a program can write all but Half itself.
THEOREM MagicDivides ==
  \A d \in 2..Half, x \in -Half..(Half - 1) : MagicQuotient(x, DivMagicInfo(d)) = Quotient(x, d)
<1> SUFFICES ASSUME NEW d \in 2..Half, NEW x \in -Half..(Half - 1)
             PROVE  MagicQuotient(x, DivMagicInfo(d)) = Quotient(x, d)
  OBVIOUS
<1> DEFINE s == Shift(d)
           p == Power(s)
           M == (p + Error(d, s)) \div d
           y == Magnitude(x)
           q == y \div d
<1>1. Half \in Nat /\ Half > 1 /\ d \in Nat /\ d >= 2 /\ s \in Nat
  BY HalfAssumption, SearchEnds
<1>2. M \in Nat /\ M < 2 * Half
  BY <1>1, ErrorIs, MultiplierFits
<1>3. DivMagicInfo(d) = [magic |-> M, shift |-> s]
  <2>1. DivMagicInfo(d) = [magic |-> M % (2 * Half), shift |-> s]
    BY DEF DivMagicInfo, Shift, Power
  <2> HIDE DEF M, s
  <2>2. 0 * (2 * Half) <= M /\ M < (0 + 1) * (2 * Half) /\ 2 * Half \in Nat /\ 2 * Half > 0 /\ M \in Int
    BY <1>1, <1>2
  <2>3. M % (2 * Half) = M - (0 * (2 * Half))
    BY <2>2, ModIs
  <2>4. M % (2 * Half) = M
    BY <1>1, <1>2, <2>3
  <2> QED
    BY <2>1, <2>4
<1>4. HighProduct(x, M) \div Pow2[s] = (M * x) \div p
  <2>1. HighProduct(x, M) = (M * x) \div (2 * Half)
    BY <1>1, <1>2, HighProductIs
  <2>2. Pow2[s] \in Nat /\ Pow2[s] > 0
    <3>1. Pow2[s] \in Nat /\ Pow2[s] >= s + 1
      BY <1>1, Pow2Is, Pow2Grows
    <3> HIDE DEF s
    <3> QED
      BY <1>1, <3>1
  <2>3. M * x \in Int /\ 2 * Half \in Nat /\ 2 * Half > 0
    BY <1>1, <1>2
  <2>4. ((M * x) \div (2 * Half)) \div Pow2[s] = (M * x) \div (2 * Half * Pow2[s])
    <3> HIDE DEF M, s
    <3> QED
      BY <2>2, <2>3, DivDiv
  <2> QED
    BY <2>1, <2>4 DEF Power
<1>5. y \in 0..Half /\ (x >= 0 => y = x /\ y < Half) /\ (x < 0 => x = -y /\ y > 0)
  BY <1>1 DEF Magnitude
<1>6. q \in 0..(Half - 1) /\ y % d \in 0..(d - 1) /\ y = (q * d) + (y % d)
  <2> HIDE DEF y
  <2>1. q \in Int /\ y % d \in 0..(d - 1) /\ y = (q * d) + (y % d)
    BY <1>1, <1>5, DivMod
  <2> HIDE DEF q
  <2>2. q >= 0
    <3> SUFFICES ASSUME q <= -1 PROVE FALSE
      BY <2>1
    <3>1. q * d <= (-1) * d
      BY <1>1, <2>1, ProductMono
    <3> QED
      BY <1>1, <1>5, <2>1, <3>1
  <2>3. q < Half
    <3>1. 2 * q <= d * q
      BY <1>1, <2>1, <2>2, ProductMono
    <3>2. d * q = q * d /\ q * d \in Int
      BY <1>1, <2>1
    <3> QED
      BY <1>1, <1>5, <2>1, <3>1, <3>2
  <2> QED
    BY <1>1, <2>1, <2>2, <2>3
<1>7. /\ y < Half => (M * y) \div p = q
      /\ y > 0 => (M * (-y)) \div p = -q - 1
  <2> HIDE DEF y, q
  <2>1. q \in Nat
    BY <1>1, <1>6
  <2> QED
    BY <1>5, <1>6, <2>1, Rounded
<1>8. Quotient(x, d) = IF x < 0 THEN -q ELSE q
  <2>1. d # 0 /\ ~(d < 0) /\ Magnitude(d) = d
    BY <1>1 DEF Magnitude
  <2> QED
    BY <2>1 DEF Quotient
<1>9. MagicQuotient(x, DivMagicInfo(d)) = Wrap(((M * x) \div p) + (IF x < 0 THEN 1 ELSE 0))
  <2>1. Unsigned(x) \div Half = IF x < 0 THEN 1 ELSE 0
    BY SignBit
  <2> HIDE DEF M, s, p
  <2>2. DivMagicInfo(d).magic = M /\ DivMagicInfo(d).shift = s
    BY <1>3
  <2>3. MagicQuotient(x, DivMagicInfo(d)) = Wrap((HighProduct(x, M) \div Pow2[s]) + (Unsigned(x) \div Half))
    BY <2>2 DEF MagicQuotient
  <2> QED
    BY <1>4, <2>1, <2>3
<1> HIDE DEF M, p, s, y, q
<1>10. CASE x >= 0
  <2>1. MagicQuotient(x, DivMagicInfo(d)) = Wrap(q + 0)
    BY <1>1, <1>5, <1>7, <1>9, <1>10
  <2>2. q + 0 = q /\ q \in -Half..(Half - 1)
    BY <1>1, <1>6
  <2>3. Wrap(q) = q
    BY <2>2, WrapIs
  <2> QED
    BY <1>1, <1>8, <1>10, <2>1, <2>2, <2>3
<1>11. CASE x < 0
  <2>1. MagicQuotient(x, DivMagicInfo(d)) = Wrap((-q - 1) + 1)
    BY <1>1, <1>5, <1>7, <1>9, <1>11
  <2>2. (-q - 1) + 1 = -q /\ -q \in -Half..(Half - 1)
    BY <1>1, <1>6
  <2>3. Wrap(-q) = -q
    BY <2>2, WrapIs
  <2> QED
    BY <1>8, <1>11, <2>1, <2>2, <2>3
<1> QED
  BY <1>1, <1>10, <1>11

=============================================================================
