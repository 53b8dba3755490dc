---------------------------- MODULE AbsIntProofs ----------------------------
(***************************************************************************)
(* The range analysis and the program it is about, for every body and      *)
(* every choice of the constants:                                          *)
(*                                                                         *)
(*  - the worklist iteration ends in a fixed point, unless the cap on      *)
(*    visits cut it short: the numbers of the domain are closed under its  *)
(*    operators, join and widen only grow (IInv);                          *)
(*  - every operator of the domain holds what the program computes from    *)
(*    what its arguments hold, so the running program never leaves what    *)
(*    the fixed point holds (RunInv);                                      *)
(*  - a division that panics is therefore in the report;                   *)
(*                                                                         *)
(* for programs on integers, with the three exceptions AbsInt names:       *)
(* locals a quotient flows into, divisions stored through a projection,    *)
(* and what follows a negative switch arm of a narrow type.                *)
(***************************************************************************)
EXTENDS AbsInt, FiniteSetTheorems, SequenceTheorems, TLAPS

-----------------------------------------------------------------------------
(***************************************************************************)
(* Doubles and their operations.                                           *)
(***************************************************************************)
Double == (-MaxD..MaxD) \cup {-Inf, Inf}

LEMMA Extremes ==
  /\ MaxD \in Nat /\ Inf \in Nat /\ MaxD < Inf /\ NaN \notin Double /\ NoPoint \notin Double
  /\ 0 \in Double /\ MaxD \in Double /\ -MaxD \in Double /\ Inf \in Double /\ -Inf \in Double
  /\ Scale \in Nat /\ Scale > 0 /\ Scale \in Double /\ -Scale \in Double /\ Scale < Inf
  /\ \A v \in Double : v \in Int /\ -Inf <= v /\ v <= Inf /\ -v \in Double
BY DoublesAssumption, InfAssumption DEF Double, Inf, NaN, NoPoint

LEMMA ProductOfNaturals ==
  ASSUME NEW a \in Nat, NEW b \in Nat
  PROVE  a * b \in Nat /\ (a > 0 /\ b > 0 => a * b > 0)
OBVIOUS

LEMMA NearestIsNatural ==
  ASSUME NEW num \in Nat, NEW den \in Nat, den > 0, NEW unit \in Nat, unit > 0
  PROVE  Nearest(num, den, unit) \in Nat
<1> DEFINE q == num \div (den * unit)
<1>1. den * unit \in Nat /\ den * unit > 0
  BY ProductOfNaturals
<1>2. q \in Nat
  <2>1. \A d \in Nat : d > 0 => num \div d \in Nat
    OBVIOUS
  <2>2. QED
    BY <1>1, <2>1
<1>3. q * unit \in Nat /\ (q + 1) * unit \in Nat
  <2>1. q + 1 \in Nat
    BY <1>2
  <2> HIDE DEF q
  <2>2. QED
    BY <1>2, <2>1, ProductOfNaturals
<1>4. Nearest(num, den, unit) \in {q * unit, (q + 1) * unit}
  BY DEF Nearest
<1>5. QED
  BY <1>3, <1>4

LEMMA RoundIsDouble ==
  ASSUME NEW num \in Int, NEW den \in Int, den # 0
  PROVE  Round(num, den) \in Double
<1> DEFINE n == Abs(num)
           d == Abs(den)
           v == IF n <= Exact * d THEN Nearest(n, d, 1) ELSE Nearest(n, d, Gap)
           w == IF v > MaxD THEN Inf ELSE v
           s == Sign(num) * Sign(den)
<1>1. n \in Nat /\ d \in Nat /\ d > 0
  BY DEF Abs
<1>2. v \in Nat
  <2>1. Gap \in Nat /\ Gap > 0
    BY DoublesAssumption
  <2> HIDE DEF n, d
  <2>2. QED
    BY <1>1, <2>1, NearestIsNatural
<1>3. w \in Nat /\ w \in Double /\ -w \in Double
  <2> HIDE DEF v
  <2>1. QED
    BY <1>2, Extremes DEF Double
<1>4. s \in {-1, 1}
  BY DEF Sign
<1>5. Round(num, den) = s * w
  BY DEF Round
<1> HIDE DEF s, w
<1>6. QED
  BY <1>3, <1>4, <1>5

LEMMA SignsTimesInf ==
  ASSUME NEW a \in Int, NEW b \in Int
  PROVE  Sign(a) * Sign(b) * Inf \in Double
<1>1. Sign(a) * Sign(b) \in {-1, 1}
  BY DEF Sign
<1> DEFINE s == Sign(a) * Sign(b)
<1> HIDE DEF s
<1>2. s * Inf \in {Inf, -Inf}
  BY <1>1, Extremes DEF s
<1>3. QED
  BY <1>2, Extremes DEF s

LEMMA SumIsDouble ==
  ASSUME NEW a \in Double, NEW b \in Double
  PROVE  FAdd(a, b) \in Double \cup {NaN} /\ (~ Infinite(b) => FAdd(a, b) \in Double)
<1>1. a \in Int /\ b \in Int /\ a + b \in Int
  BY Extremes
<1>2. Round(a + b, 1) \in Double
  BY <1>1, RoundIsDouble
<1>3. NaN \notin {a, b}
  BY Extremes
<1>4. ~ Infinite(b) => b # -a \/ ~ Infinite(a)
  BY <1>1, Extremes DEF Infinite, Abs
<1>5. QED
  BY <1>2, <1>3, <1>4 DEF FAdd

LEMMA ProductIsDouble ==
  ASSUME NEW a \in Double, NEW b \in Double
  PROVE  FMul(a, b) \in Double \cup {NaN}
<1>1. a \in Int /\ b \in Int /\ a * b \in Int /\ Scale \in Int /\ Scale # 0
  BY Extremes
<1>2. Round(a * b, Scale) \in Double
  BY <1>1, RoundIsDouble
<1>3. QED
  BY <1>1, <1>2, SignsTimesInf DEF FMul

LEMMA QuotientIsDouble ==
  ASSUME NEW a \in Double, NEW b \in Double
  PROVE  FDiv(a, b) \in Double \cup {NaN}
<1>1. a \in Int /\ b \in Int /\ a * Scale \in Int
  BY Extremes
<1>2. b # 0 => Round(a * Scale, b) \in Double
  BY <1>1, RoundIsDouble
<1>3. QED
  BY <1>1, <1>2, SignsTimesInf, Extremes DEF FDiv

(* A set of whole numbers with a lower bound has a least element.          *)
LEMMA LeastOf ==
  ASSUME NEW S, S # {}, NEW lo \in Int, \A v \in S : v \in Int /\ lo <= v
  PROVE  Min(S) \in S /\ \A v \in S : Min(S) <= v
<1> DEFINE T == {n \in Nat : n + lo \in S}
<1>1. T # {} /\ T \subseteq Nat
  <2>1. PICK v \in S : TRUE
    OBVIOUS
  <2>2. v - lo \in Nat /\ (v - lo) + lo = v
    BY <2>1
  <2>3. QED
    BY <2>1, <2>2
<1>2. PICK m \in T : \A n \in T : <<n, m>> \notin OpToRel(<, Nat)
  BY <1>1, NatLessThanWellFounded, WFMin
<1>3. \A n \in T : m <= n
  <2> HIDE DEF T
  <2>1. \A n \in T : ~(n < m)
    BY <1>1, <1>2 DEF OpToRel
  <2>2. QED
    BY <1>1, <2>1
<1>4. m + lo \in S /\ \A v \in S : m + lo <= v
  <2>1. ASSUME NEW v \in S
        PROVE  m + lo <= v
    <3>1. v - lo \in T
      OBVIOUS
    <3>2. m <= v - lo
      BY <1>3, <3>1
    <3>3. QED
      BY <3>2
  <2>2. QED
    BY <2>1
<1>5. QED
  BY <1>4 DEF Min

LEMMA GreatestOf ==
  ASSUME NEW S, S # {}, NEW hi \in Int, \A v \in S : v \in Int /\ v <= hi
  PROVE  Max(S) \in S /\ \A v \in S : Max(S) >= v
<1> DEFINE T == {-v : v \in S}
<1>1. \A v \in T : v \in Int /\ -hi <= v
  OBVIOUS
<1>2. T # {} /\ -hi \in Int
  OBVIOUS
<1> HIDE DEF T
<1>3. PICK m \in T : \A v \in T : m <= v
  BY <1>1, <1>2, LeastOf
<1>4. -m \in S /\ \A v \in S : -m >= v
  <2>1. PICK u \in S : m = -u
    BY DEF T
  <2>2. ASSUME NEW v \in S PROVE u >= v
    <3>1. -v \in T
      BY DEF T
    <3>2. -u <= -v
      BY <1>3, <2>1, <3>1
    <3>3. QED
      BY <3>2
  <2>3. -m = u
    BY <2>1
  <2>4. QED
    BY <2>2, <2>3
<1>5. QED
  BY <1>4 DEF Max

LEMMA NeighboursAreDoubles ==
  ASSUME NEW v \in Double
  PROVE  next_up(v) \in Double /\ next_down(v) \in Double
<1>1. ASSUME NEW w \in Double
      PROVE  next_up(w) \in Double
  <2> DEFINE above == {u \in Doubles : u > w}
  <2>1. CASE w \in {Inf, -Inf, MaxD}
    BY <2>1, Extremes DEF next_up
  <2>2. CASE w \notin {Inf, -Inf, MaxD}
    <3>1. w \in -MaxD..MaxD /\ w < MaxD
      BY <2>2, Extremes DEF Double
    <3>2. MaxD \in above
      BY <3>1, DoublesAssumption DEF Doubles
    <3>3. \A u \in above : u \in Int /\ -MaxD <= u
      BY DEF Doubles
    <3>4. above # {} /\ -MaxD \in Int
      BY <3>2, Extremes
    <3>5. Min(above) \in above
      <4> HIDE DEF above
      <4>1. QED
        BY <3>3, <3>4, LeastOf
    <3>6. Min(above) \in Double
      BY <3>5 DEF Doubles, Double
    <3>7. next_up(w) = Min(above)
      BY <2>2, Extremes DEF next_up
    <3>8. QED
      BY <3>6, <3>7
  <2>3. QED
    BY <2>1, <2>2
<1>2. -v \in Double
  BY Extremes
<1>3. next_down(v) \in Double
  BY <1>1, <1>2, Extremes DEF next_down
<1>4. QED
  BY <1>1, <1>3

-----------------------------------------------------------------------------
(***************************************************************************)
(* The domain is closed under its operations.                              *)
(***************************************************************************)
AbstractNumber ==
  [lower : Double, upper : Double, integer : BOOLEAN, may_be_nan : BOOLEAN,
   excluded : Double \cup {NoPoint}]

LEMMA PlainIsNumber ==
  ASSUME NEW lo \in Double, NEW hi \in Double, NEW int \in BOOLEAN, NEW nan \in BOOLEAN
  PROVE  /\ Plain(lo, hi, int, nan) \in AbstractNumber
         /\ Plain(lo, hi, int, nan).lower = lo /\ Plain(lo, hi, int, nan).upper = hi
BY DEF Plain, AbstractNumber

LEMMA ConstantsAreNumbers ==
  /\ unknown \in AbstractNumber /\ any_integer \in AbstractNumber
  /\ finite_input \in AbstractNumber /\ boolean \in AbstractNumber
  /\ \A v \in Double : constant(v) \in AbstractNumber
<1>1. unknown \in AbstractNumber /\ any_integer \in AbstractNumber
  BY PlainIsNumber, Extremes DEF unknown, any_integer
<1>2. finite_input \in AbstractNumber /\ boolean \in AbstractNumber
  BY PlainIsNumber, Extremes DEF finite_input, boolean
<1>3. ASSUME NEW v \in Double PROVE constant(v) \in AbstractNumber
  <2>1. (Finite(v) /\ IsWhole(v)) \in BOOLEAN
    OBVIOUS
  <2>2. QED
    BY <2>1, PlainIsNumber DEF constant
<1>4. QED
  BY <1>1, <1>2, <1>3

LEMMA HoleIsNumber ==
  ASSUME NEW x \in AbstractNumber, NEW y \in AbstractNumber, NEW r \in AbstractNumber
  PROVE  /\ Hole(x, y, r) \in AbstractNumber
         /\ Hole(x, y, r).lower = r.lower /\ Hole(x, y, r).upper = r.upper
         /\ Hole(x, y, r).integer = r.integer /\ Hole(x, y, r).may_be_nan = r.may_be_nan
         /\ LET p == Hole(x, y, r).excluded
            IN  p # NoPoint => point_excluded(x, p) /\ point_excluded(y, p)
<1> DEFINE Shared(p) == /\ p # NoPoint
                        /\ point_excluded(x, p) /\ point_excluded(y, p)
                        /\ r.lower < p /\ p < r.upper
           hole == IF Shared(x.excluded) THEN x.excluded
                   ELSE IF Shared(y.excluded) THEN y.excluded
                   ELSE IF Shared(0) THEN 0 ELSE NoPoint
<1>1. Hole(x, y, r) = [r EXCEPT !.excluded = hole]
  BY DEF Hole
<1>2. hole \in Double \cup {NoPoint}
  <2> HIDE DEF Shared
  <2>1. QED
    BY Extremes DEF AbstractNumber
<1>3. hole # NoPoint => Shared(hole)
  <2> HIDE DEF Shared
  <2>1. QED
    OBVIOUS
<1> HIDE DEF hole
<1>4. QED
  BY <1>1, <1>2, <1>3 DEF AbstractNumber

LEMMA JoinIsNumber ==
  ASSUME NEW x \in AbstractNumber, NEW y \in AbstractNumber
  PROVE  join(x, y) \in AbstractNumber /\ Within(x, join(x, y)) /\ Within(y, join(x, y))
<1> DEFINE r == Plain(Lesser(x.lower, y.lower), Greater(x.upper, y.upper),
                      x.integer /\ y.integer, x.may_be_nan \/ y.may_be_nan)
<1>1. /\ x.lower \in Double /\ x.upper \in Double /\ y.lower \in Double /\ y.upper \in Double
      /\ (x.integer /\ y.integer) \in BOOLEAN /\ (x.may_be_nan \/ y.may_be_nan) \in BOOLEAN
  BY DEF AbstractNumber
<1>2. /\ Lesser(x.lower, y.lower) \in Double /\ Greater(x.upper, y.upper) \in Double
      /\ Lesser(x.lower, y.lower) <= x.lower /\ Lesser(x.lower, y.lower) <= y.lower
      /\ x.upper <= Greater(x.upper, y.upper) /\ y.upper <= Greater(x.upper, y.upper)
  <2>1. /\ x.lower \in Int /\ x.upper \in Int /\ y.lower \in Int /\ y.upper \in Int
    BY <1>1, Extremes
  <2>2. QED
    BY <1>1, <2>1 DEF Lesser, Greater
<1>3. r \in AbstractNumber
  BY <1>1, <1>2, PlainIsNumber
<1>4. join(x, y) = Hole(x, y, r)
  BY DEF join
<1>5. /\ r.lower = Lesser(x.lower, y.lower) /\ r.upper = Greater(x.upper, y.upper)
      /\ r.integer = (x.integer /\ y.integer) /\ r.may_be_nan = (x.may_be_nan \/ y.may_be_nan)
  BY DEF Plain
<1> HIDE DEF r
<1>6. /\ join(x, y) \in AbstractNumber
      /\ join(x, y).lower = r.lower /\ join(x, y).upper = r.upper
      /\ join(x, y).integer = r.integer /\ join(x, y).may_be_nan = r.may_be_nan
      /\ join(x, y).excluded # NoPoint =>
           point_excluded(x, join(x, y).excluded) /\ point_excluded(y, join(x, y).excluded)
  BY <1>3, <1>4, HoleIsNumber
<1> DEFINE j == join(x, y)
<1> HIDE DEF j
<1>7. Within(x, j) /\ Within(y, j)
  <2>1. /\ j.lower <= x.lower /\ j.lower <= y.lower /\ x.upper <= j.upper /\ y.upper <= j.upper
    BY <1>2, <1>5, <1>6 DEF j
  <2>2. /\ j.integer => x.integer /\ y.integer
        /\ x.may_be_nan \/ y.may_be_nan => j.may_be_nan
    BY <1>5, <1>6 DEF j
  <2>3. j.excluded # NoPoint => point_excluded(x, j.excluded) /\ point_excluded(y, j.excluded)
    BY <1>6 DEF j
  <2>4. QED
    BY <2>1, <2>2, <2>3 DEF Within
<1>8. QED
  BY <1>6, <1>7 DEF j

LEMMA WithinReflexive ==
  ASSUME NEW x \in AbstractNumber
  PROVE  Within(x, x)
<1>1. x.lower \in Int /\ x.upper \in Int
  BY Extremes DEF AbstractNumber
<1>2. QED
  BY <1>1 DEF Within, point_excluded

LEMMA ExcludedWithin ==
  ASSUME NEW x \in AbstractNumber, NEW y \in AbstractNumber, Within(x, y),
         NEW p \in Double, point_excluded(y, p)
  PROVE  point_excluded(x, p)
<1>1. /\ x.lower \in Int /\ x.upper \in Int /\ y.lower \in Int /\ y.upper \in Int /\ p \in Int
      /\ p # NoPoint
  BY Extremes DEF AbstractNumber
<1>2. CASE p < y.lower \/ p > y.upper
  BY <1>1, <1>2 DEF Within, point_excluded
<1>3. CASE y.integer /\ Finite(p) /\ ~ IsWhole(p)
  BY <1>3 DEF Within, point_excluded
<1>4. CASE y.excluded = p
  BY <1>1, <1>4 DEF Within
<1>5. QED
  BY <1>2, <1>3, <1>4 DEF point_excluded

LEMMA WithinTransitive ==
  ASSUME NEW x \in AbstractNumber, NEW y \in AbstractNumber, NEW z \in AbstractNumber,
         Within(x, y), Within(y, z)
  PROVE  Within(x, z)
<1>1. /\ x.lower \in Int /\ x.upper \in Int /\ y.lower \in Int /\ y.upper \in Int
      /\ z.lower \in Int /\ z.upper \in Int /\ z.excluded \in Double \cup {NoPoint}
  BY Extremes DEF AbstractNumber
<1>2. z.lower <= x.lower /\ x.upper <= z.upper
  BY <1>1 DEF Within
<1>3. z.excluded # NoPoint => point_excluded(x, z.excluded)
  <2>1. z.excluded # NoPoint => z.excluded \in Double /\ point_excluded(y, z.excluded)
    BY <1>1 DEF Within
  <2>2. QED
    BY <2>1, ExcludedWithin
<1>4. QED
  BY <1>2, <1>3 DEF Within

(* Widening stands for all that the wider of its arguments stands for.     *)
LEMMA WidenIsNumber ==
  ASSUME NEW x \in AbstractNumber, NEW y \in AbstractNumber, Within(x, y)
  PROVE  widen(x, y) \in AbstractNumber /\ Within(y, widen(x, y))
<1> DEFINE far == IF IsFinite(x) /\ IsFinite(y) THEN MaxD ELSE Inf
           lo == IF y.lower < x.lower THEN -far ELSE y.lower
           hi == IF y.upper > x.upper THEN far ELSE y.upper
           r == Plain(lo, hi, y.integer, y.may_be_nan)
           w == widen(x, y)
<1>1. /\ y.lower \in Double /\ y.upper \in Double /\ y.lower \in Int /\ y.upper \in Int
      /\ y.integer \in BOOLEAN /\ y.may_be_nan \in BOOLEAN
  BY Extremes DEF AbstractNumber
<1>2. far \in Double /\ -far \in Double /\ far \in Int
  BY Extremes
<1>3. -far <= y.lower /\ y.upper <= far
  <2>1. CASE IsFinite(x) /\ IsFinite(y)
    <3>1. Abs(y.lower) <= MaxD /\ Abs(y.upper) <= MaxD
      BY <2>1 DEF IsFinite, Finite
    <3>2. QED
      BY <1>1, <2>1, <3>1, Extremes DEF Abs
  <2>2. CASE ~ (IsFinite(x) /\ IsFinite(y))
    BY <1>1, <2>2, Extremes
  <2>3. QED
    BY <2>1, <2>2
<1> HIDE DEF far
<1>4. lo \in Double /\ hi \in Double /\ lo <= y.lower /\ y.upper <= hi
  BY <1>1, <1>2, <1>3
<1>5. /\ r \in AbstractNumber /\ r.lower = lo /\ r.upper = hi
      /\ r.integer = y.integer /\ r.may_be_nan = y.may_be_nan
  BY <1>1, <1>4, PlainIsNumber DEF Plain
<1>6. w = Hole(x, y, r)
  BY DEF widen, far
<1> HIDE DEF r, w
<1>7. /\ w \in AbstractNumber
      /\ w.lower = r.lower /\ w.upper = r.upper
      /\ w.integer = r.integer /\ w.may_be_nan = r.may_be_nan
      /\ w.excluded # NoPoint => point_excluded(y, w.excluded)
  BY <1>5, <1>6, HoleIsNumber
<1>8. Within(y, w)
  BY <1>4, <1>5, <1>7 DEF Within
<1>9. QED
  BY <1>7, <1>8 DEF w

LEMMA CutIsNumber ==
  ASSUME NEW x \in AbstractNumber, NEW cut
  PROVE  CutZero(x, cut) \in AbstractNumber
<1>1. (IF cut /\ x.lower < 0 /\ x.upper > 0 THEN 0 ELSE x.excluded) \in Double \cup {NoPoint}
  BY Extremes DEF AbstractNumber
<1>2. QED
  BY <1>1 DEF CutZero, AbstractNumber

LEMMA NegationIsNumber ==
  ASSUME NEW x \in AbstractNumber
  PROVE  negate(x) \in AbstractNumber
<1>1. /\ -x.upper \in Double /\ -x.lower \in Double
      /\ (IF x.excluded = NoPoint THEN NoPoint ELSE -x.excluded) \in Double \cup {NoPoint}
  BY Extremes DEF AbstractNumber
<1>2. QED
  BY <1>1 DEF negate, AbstractNumber

LEMMA SumIsNumber ==
  ASSUME NEW x \in AbstractNumber, NEW y \in AbstractNumber
  PROVE  add(x, y) \in AbstractNumber /\ sub(x, y) \in AbstractNumber
<1>1. ASSUME NEW z \in AbstractNumber
      PROVE  add(x, z) \in AbstractNumber
  <2> DEFINE lo == Known(FAdd(x.lower, z.lower), -Inf)
             hi == Known(FAdd(x.upper, z.upper), Inf)
             int == x.integer /\ z.integer
             nan == \/ x.may_be_nan \/ z.may_be_nan
                    \/ (x.upper = Inf /\ z.lower = -Inf) \/ (x.lower = -Inf /\ z.upper = Inf)
             cut == IF IsPoint(z) THEN point_excluded(x, -z.lower)
                    ELSE IsPoint(x) /\ point_excluded(z, -x.lower)
  <2>1. /\ x.lower \in Double /\ x.upper \in Double /\ z.lower \in Double /\ z.upper \in Double
    BY DEF AbstractNumber
  <2>2. /\ FAdd(x.lower, z.lower) \in Double \cup {NaN}
        /\ FAdd(x.upper, z.upper) \in Double \cup {NaN}
    BY <2>1, SumIsDouble
  <2>3. lo \in Double /\ hi \in Double
    BY <2>2, Extremes DEF Known
  <2>4. int \in BOOLEAN /\ nan \in BOOLEAN
    BY DEF AbstractNumber
  <2>5. add(x, z) = CutZero(Plain(lo, hi, int, nan), cut)
    BY DEF add
  <2> HIDE DEF lo, hi, int, nan, cut
  <2>6. QED
    BY <2>3, <2>4, <2>5, PlainIsNumber, CutIsNumber
<1>2. QED
  BY <1>1, NegationIsNumber DEF sub

LEMMA SpreadIsNumber ==
  ASSUME NEW S, S \subseteq Double \cup {NaN}, NEW int \in BOOLEAN
  PROVE  Spread(S, int) \in AbstractNumber
<1> DEFINE R == S \ {NaN}
<1>1. R \subseteq Double /\ \A v \in R : v \in Int /\ -Inf <= v /\ v <= Inf
  BY Extremes
<1>2. CASE R = {}
  <2>1. Spread(S, int) = Plain(Inf, -Inf, int, FALSE)
    BY <1>2 DEF Spread
  <2>2. Plain(Inf, -Inf, int, FALSE) \in AbstractNumber
    BY PlainIsNumber, Extremes
  <2>3. QED
    BY <2>1, <2>2
<1> HIDE DEF R
<1>3. CASE R # {}
  <2>1. Min(R) \in Double /\ Max(R) \in Double
    BY <1>1, <1>3, LeastOf, GreatestOf, Extremes
  <2>2. Spread(S, int) = Plain(Min(R), Max(R), int, FALSE)
    BY <1>3 DEF Spread, R
  <2>3. Plain(Min(R), Max(R), int, FALSE) \in AbstractNumber
    BY <2>1, PlainIsNumber
  <2>4. QED
    BY <2>2, <2>3
<1>4. QED
  BY <1>2, <1>3

LEMMA EndsAreDoubles ==
  ASSUME NEW x \in AbstractNumber, NEW y \in AbstractNumber
  PROVE  /\ Ends(x) \subseteq Double
         /\ {FMul(ab[1], ab[2]) : ab \in Ends(x) \X Ends(y)} \subseteq Double \cup {NaN}
         /\ Quotients(x, y) \subseteq Double \cup {NaN}
<1>1. Ends(x) \subseteq Double /\ Ends(y) \subseteq Double
  BY DEF Ends, AbstractNumber
<1>2. \A ab \in Ends(x) \X Ends(y) : ab[1] \in Double /\ ab[2] \in Double
  BY <1>1
<1>3. \A ab \in Ends(x) \X Ends(y) :
        /\ FMul(ab[1], ab[2]) \in Double \cup {NaN}
        /\ FDiv(ab[1], ab[2]) \in Double \cup {NaN}
  BY <1>2, ProductIsDouble, QuotientIsDouble
<1>4. QED
  BY <1>1, <1>3 DEF Quotients

LEMMA ProductIsNumber ==
  ASSUME NEW x \in AbstractNumber, NEW y \in AbstractNumber
  PROVE  mul(x, y) \in AbstractNumber
<1> DEFINE corners == {FMul(ab[1], ab[2]) : ab \in Ends(x) \X Ends(y)}
           cut == IF IsPoint(y) THEN Abs(y.lower) >= Scale /\ point_excluded(x, 0)
                  ELSE IsPoint(x) /\ Abs(x.lower) >= Scale /\ point_excluded(y, 0)
<1>1. (x.integer /\ y.integer) \in BOOLEAN
  BY DEF AbstractNumber
<1>2. Spread(corners, x.integer /\ y.integer) \in AbstractNumber
  BY <1>1, EndsAreDoubles, SpreadIsNumber
<1>3. mul(x, y) \in {unknown, CutZero(Spread(corners, x.integer /\ y.integer), cut)}
  BY DEF mul
<1> HIDE DEF corners, cut
<1>4. QED
  BY <1>2, <1>3, CutIsNumber, ConstantsAreNumbers

LEMMA QuotientIsNumber ==
  ASSUME NEW x \in AbstractNumber, NEW y \in AbstractNumber
  PROVE  div(x, y) \in AbstractNumber
<1>1. Spread(Quotients(x, y), FALSE) \in AbstractNumber
  BY EndsAreDoubles, SpreadIsNumber
<1>2. divide_across_zero(x, y) \in AbstractNumber
  <2> DEFINE below == [y EXCEPT !.upper = Lesser(@, -Scale)]
             above == [y EXCEPT !.lower = Greater(@, Scale)]
             parts == {q \in {below, above} : q.lower <= q.upper}
             all == UNION {Quotients(x, q) : q \in parts}
  <2>1. below \in AbstractNumber /\ above \in AbstractNumber
    <3>1. Lesser(y.upper, -Scale) \in Double /\ Greater(y.lower, Scale) \in Double
      BY Extremes DEF AbstractNumber, Lesser, Greater
    <3>2. QED
      BY <3>1 DEF AbstractNumber
  <2>2. parts \subseteq AbstractNumber
    BY <2>1
  <2>3. all \subseteq Double \cup {NaN}
    <3> HIDE DEF parts
    <3>1. QED
      BY <2>2, EndsAreDoubles
  <2>4. Spread(all, FALSE) \in AbstractNumber
    <3> HIDE DEF all
    <3>1. QED
      BY <2>3, SpreadIsNumber
  <2>5. divide_across_zero(x, y) \in {Plain(-Inf, Inf, FALSE, FALSE), unknown, Spread(all, FALSE)}
    BY DEF divide_across_zero
  <2> HIDE DEF all
  <2>6. QED
    BY <2>4, <2>5, PlainIsNumber, ConstantsAreNumbers, Extremes
<1>3. QED
  BY <1>1, <1>2, ConstantsAreNumbers DEF div

LEMMA MagnitudeIsDouble ==
  ASSUME NEW x \in AbstractNumber
  PROVE  Magnitude(x) \in Double
BY Extremes DEF Magnitude, Greater, Abs, AbstractNumber

LEMMA RemainderIsNumber ==
  ASSUME NEW x \in AbstractNumber, NEW y \in AbstractNumber, NEW nonzero \in BOOLEAN
  PROVE  rem(x, y, nonzero) \in AbstractNumber
<1> DEFINE int == x.integer /\ y.integer
           divisor == IF int /\ Finite(Magnitude(y)) THEN Greater(FAdd(Magnitude(y), -Scale), 0)
                      ELSE Magnitude(y)
           bound == Lesser(Magnitude(x), divisor)
           nan == (~ nonzero /\ includes_zero(y)) \/ ~ IsFinite(x)
<1>1. divisor \in Double
  <2>1. Magnitude(y) \in Double /\ -Scale \in Double /\ ~ Infinite(-Scale)
    BY MagnitudeIsDouble, Extremes DEF Infinite, Abs
  <2>2. FAdd(Magnitude(y), -Scale) \in Double
    BY <2>1, SumIsDouble
  <2>3. QED
    BY <2>1, <2>2, Extremes DEF Greater
<1>2. bound \in Double /\ -bound \in Double
  <2> HIDE DEF divisor
  <2>1. bound \in Double
    BY <1>1, MagnitudeIsDouble DEF Lesser
  <2>2. QED
    BY <2>1, Extremes
<1>3. int \in BOOLEAN /\ nan \in BOOLEAN
  BY DEF AbstractNumber
<1> DEFINE lo == IF x.lower < 0 THEN -bound ELSE 0
           hi == IF x.upper > 0 THEN bound ELSE 0
<1>4. rem(x, y, nonzero) \in {unknown, Plain(lo, hi, int, nan)}
  BY DEF rem
<1>5. lo \in Double /\ hi \in Double
  <2> HIDE DEF bound
  <2>1. QED
    BY <1>2, Extremes
<1> HIDE DEF lo, hi, int, nan
<1>6. QED
  BY <1>3, <1>4, <1>5, PlainIsNumber, ConstantsAreNumbers

LEMMA TruncatedQuotientIsNumber ==
  ASSUME NEW x \in AbstractNumber, NEW y \in AbstractNumber
  PROVE  Quotient(x, y) \in AbstractNumber
<1> DEFINE q == div(x, y)
           m == Magnitude(x)
           lo == Greater(q.lower, -m)
           hi == Lesser(q.upper, m)
<1>1. q \in AbstractNumber
  BY QuotientIsNumber
<1>2. m \in Double /\ -m \in Double
  BY MagnitudeIsDouble, Extremes
<1>3. Quotient(x, y) \in {q, Plain(lo, hi, TRUE, FALSE)}
  BY DEF Quotient, integer_quotient
<1> HIDE DEF q, m
<1>4. lo \in Double /\ hi \in Double
  BY <1>1, <1>2 DEF AbstractNumber, Greater, Lesser
<1> HIDE DEF lo, hi
<1>5. Plain(lo, hi, TRUE, FALSE) \in AbstractNumber
  BY <1>4, PlainIsNumber
<1>6. QED
  BY <1>1, <1>3, <1>5

LEMMA StepsAreDoubles ==
  ASSUME NEW x, NEW k \in Double
  PROVE  After(x, k) \in Double /\ Before(x, k) \in Double
<1>1. /\ Scale \in Double /\ -Scale \in Double
      /\ ~ Infinite(Scale) /\ ~ Infinite(-Scale)
  BY Extremes DEF Infinite, Abs
<1>2. FAdd(k, Scale) \in Double /\ FAdd(k, -Scale) \in Double
  BY <1>1, SumIsDouble
<1>3. QED
  BY <1>2, NeighboursAreDoubles DEF After, Before

LEMMA RefinedIsNumber ==
  ASSUME NEW x \in AbstractNumber, NEW k \in Double
  PROVE  /\ pin(x, k) \in AbstractNumber /\ exclude(x, k) \in AbstractNumber
         /\ \A op : apply_comparison(x, op, k) \in AbstractNumber
<1> DEFINE next == After(x, k)
           prev == Before(x, k)
<1>1. next \in Double /\ prev \in Double
  BY StepsAreDoubles
<1> HIDE DEF next, prev
<1>2. /\ \A v \in Double : [x EXCEPT !.lower = v] \in AbstractNumber
      /\ \A v \in Double : [x EXCEPT !.upper = v] \in AbstractNumber
      /\ [x EXCEPT !.excluded = k] \in AbstractNumber
      /\ [x EXCEPT !.lower = k, !.upper = k, !.excluded = NoPoint] \in AbstractNumber
  BY DEF AbstractNumber
<1>3. pin(x, k) \in AbstractNumber
  BY <1>2 DEF pin
<1>4. exclude(x, k) \in AbstractNumber
  BY <1>1, <1>2 DEF exclude, next, prev
<1>5. ASSUME NEW op
      PROVE  apply_comparison(x, op, k) \in AbstractNumber
  <2>1. x.lower \in Double /\ x.upper \in Double
    BY DEF AbstractNumber
  <2>2. /\ Lesser(x.upper, prev) \in Double /\ Lesser(x.upper, k) \in Double
        /\ Greater(x.lower, next) \in Double /\ Greater(x.lower, k) \in Double
    BY <1>1, <2>1 DEF Lesser, Greater
  <2>3. apply_comparison(x, op, k) \in
          {pin(x, k), exclude(x, k), x,
           [x EXCEPT !.upper = Lesser(x.upper, prev)], [x EXCEPT !.upper = Lesser(x.upper, k)],
           [x EXCEPT !.lower = Greater(x.lower, next)], [x EXCEPT !.lower = Greater(x.lower, k)]}
    BY DEF apply_comparison, next, prev
  <2>4. QED
    BY <1>2, <1>3, <1>4, <2>2, <2>3
<1>6. QED
  BY <1>3, <1>4, <1>5

-----------------------------------------------------------------------------
(***************************************************************************)
(* The transfer of a block and the states on its edges.                    *)
(***************************************************************************)
State(b) == [DOMAIN b.locals -> AbstractNumber]

GuardsOf(b) ==
  [on : DOMAIN b.locals, local : DOMAIN b.locals, op : Comparisons, constant : Double]

OutState(b) == [state : State(b), guards : SUBSET GuardsOf(b)]

LEMMA ConstantIsDouble ==
  ASSUME NEW v \in Int
  PROVE  AsDouble(v) \in Double
BY RoundIsDouble DEF AsDouble

LEMMA OperandIsNumber ==
  ASSUME NEW b, NEW s \in State(b), NEW o, IsOperand(b, o)
  PROVE  eval_operand(s, o) \in AbstractNumber
<1>1. CASE IsLocal(o)
  BY <1>1 DEF IsLocal, IsOperand, eval_operand, State
<1>2. CASE ~ IsLocal(o)
  <2>1. o.value \in Int
    BY <1>2 DEF IsOperand
  <2>2. constant(AsDouble(o.value)) \in AbstractNumber
    BY <2>1, ConstantIsDouble, ConstantsAreNumbers
  <2>3. QED
    BY <1>2, <2>2, ConstantsAreNumbers DEF IsLocal, eval_operand
<1>3. QED
  BY <1>1, <1>2

LEMMA RvalueIsNumber ==
  ASSUME NEW b, NEW s \in State(b), NEW rv, IsRvalue(b, rv)
  PROVE  eval_rvalue(s, rv) \in AbstractNumber
<1>1. CASE rv.op = "Use"
  <2>1. eval_rvalue(s, rv) = eval_operand(s, rv.operand)
    BY <1>1 DEF eval_rvalue
  <2>2. QED
    BY <1>1, <2>1, OperandIsNumber DEF IsRvalue
<1>2. CASE rv.op = "Unary"
  <2>1. eval_operand(s, rv.operand) \in AbstractNumber
    BY <1>2, OperandIsNumber DEF IsRvalue
  <2>2. eval_rvalue(s, rv) \in {negate(eval_operand(s, rv.operand)), unknown}
    BY <1>2 DEF eval_rvalue
  <2>3. QED
    BY <2>1, <2>2, NegationIsNumber, ConstantsAreNumbers
<1>3. CASE rv.op = "Binary"
  <2> DEFINE l == eval_operand(s, rv.left)
             r == eval_operand(s, rv.right)
  <2>1. l \in AbstractNumber /\ r \in AbstractNumber
    BY <1>3, OperandIsNumber DEF IsRvalue
  <2>2. eval_rvalue(s, rv) \in {boolean, add(l, r), sub(l, r), mul(l, r), Quotient(l, r),
                                rem(l, r, ~includes_zero(r)), unknown}
    BY <1>3 DEF eval_rvalue
  <2> HIDE DEF l, r
  <2>3. rem(l, r, ~includes_zero(r)) \in AbstractNumber
    <3>1. (~includes_zero(r)) \in BOOLEAN
      OBVIOUS
    <3>2. QED
      BY <2>1, <3>1, RemainderIsNumber
  <2>4. /\ add(l, r) \in AbstractNumber /\ sub(l, r) \in AbstractNumber
        /\ mul(l, r) \in AbstractNumber /\ Quotient(l, r) \in AbstractNumber
    BY <2>1, SumIsNumber, ProductIsNumber, TruncatedQuotientIsNumber
  <2>5. QED
    BY <2>2, <2>3, <2>4, ConstantsAreNumbers
<1>4. CASE rv.op \notin {"Use", "Unary", "Binary"}
  BY <1>4, ConstantsAreNumbers DEF eval_rvalue
<1>5. QED
  BY <1>1, <1>2, <1>3, <1>4

LEMMA ExtractedGuards ==
  ASSUME NEW b, NEW place \in DOMAIN b.locals, NEW rv, IsRvalue(b, rv)
  PROVE  extract_guard(place, rv) \subseteq GuardsOf(b)
<1>1. CASE rv.op # "Binary" \/ rv.kind \notin Comparisons
  BY <1>1 DEF extract_guard
<1>2. CASE rv.op = "Binary" /\ rv.kind \in Comparisons
  <2>1. IsOperand(b, rv.left) /\ IsOperand(b, rv.right)
    BY <1>2 DEF IsRvalue
  <2>2. rv.kind \in Comparisons /\ flip_comparison(rv.kind) \in Comparisons
    BY <1>2 DEF Comparisons, flip_comparison
  <2>3. CASE IsLocal(rv.left) /\ IsKnown(rv.right)
    <3>1. rv.left.local \in DOMAIN b.locals /\ AsDouble(rv.right.value) \in Double
      BY <2>1, <2>3, ConstantIsDouble DEF IsOperand, IsKnown, IsLocal
    <3>2. Guard(place, rv.left.local, rv.kind, AsDouble(rv.right.value)) \in GuardsOf(b)
      BY <2>2, <3>1 DEF Guard, GuardsOf
    <3>3. QED
      BY <1>2, <2>3, <3>2 DEF extract_guard
  <2>4. CASE ~(IsLocal(rv.left) /\ IsKnown(rv.right)) /\ IsKnown(rv.left) /\ IsLocal(rv.right)
    <3>1. rv.right.local \in DOMAIN b.locals /\ AsDouble(rv.left.value) \in Double
      BY <2>1, <2>4, ConstantIsDouble DEF IsOperand, IsKnown, IsLocal
    <3>2. Guard(place, rv.right.local, flip_comparison(rv.kind), AsDouble(rv.left.value))
            \in GuardsOf(b)
      BY <2>2, <3>1 DEF Guard, GuardsOf
    <3>3. QED
      BY <1>2, <2>4, <3>2 DEF extract_guard
  <2>5. QED
    BY <1>2, <2>3, <2>4 DEF extract_guard
<1>3. QED
  BY <1>1, <1>2

LEMMA AppliedIsOut ==
  ASSUME NEW b, NEW now \in OutState(b), NEW stmt,
         stmt.place \in DOMAIN b.locals, IsRvalue(b, stmt.rvalue)
  PROVE  apply_stmt(now, stmt) \in OutState(b)
<1>1. now.state \in State(b) /\ now.guards \subseteq GuardsOf(b)
  BY DEF OutState
<1>2. eval_rvalue(now.state, stmt.rvalue) \in AbstractNumber
  BY <1>1, RvalueIsNumber
<1>3. [now.state EXCEPT ![stmt.place] = eval_rvalue(now.state, stmt.rvalue)] \in State(b)
  BY <1>1, <1>2 DEF State
<1>4. {g \in now.guards : stmt.place \notin {g.on, g.local}}
        \cup extract_guard(stmt.place, stmt.rvalue) \in SUBSET GuardsOf(b)
  BY <1>1, ExtractedGuards
<1>5. QED
  BY <1>3, <1>4 DEF apply_stmt, OutState

-----------------------------------------------------------------------------
(* Natural numbers up to n: a set with 0 that has i with i - 1 has them    *)
(* all.                                                                    *)
LEMMA InductionUpTo ==
  ASSUME NEW n \in Nat, NEW S, 0 \in S, \A i \in 1..n : i - 1 \in S => i \in S
  PROVE  \A i \in 0..n : i \in S
<1> DEFINE Bad == {i \in 0..n : i \notin S}
<1>1. ASSUME Bad # {}
      PROVE  FALSE
  <2>1. Min(Bad) \in Bad /\ \A i \in Bad : Min(Bad) <= i
    <3>1. \A i \in Bad : i \in Int /\ 0 <= i
      OBVIOUS
    <3> HIDE DEF Bad
    <3>2. QED
      BY <1>1, <3>1, LeastOf
  <2> DEFINE m == Min(Bad)
  <2>2. m \in 0..n /\ m \notin S /\ \A i \in Bad : m <= i
    BY <2>1
  <2> HIDE DEF m
  <2>3. m \in 1..n /\ m - 1 \in 0..n /\ ~(m <= m - 1)
    BY <2>2
  <2>4. m - 1 \in S
    BY <2>2, <2>3
  <2>5. QED
    BY <2>2, <2>3, <2>4
<1>2. QED
  BY <1>1

Iterates(D, d, n, step, f) ==
  f \in [0..n -> D] /\ f[0] = d /\ \A i \in 1..n : f[i] = step[i][f[i - 1]]

(* A step function can be iterated along a sequence of steps, and what     *)
(* every step preserves of a set of values holds of the last one.          *)
LEMMA IterationExists ==
  ASSUME NEW D, NEW d \in D, NEW n \in Nat, NEW step \in [1..n -> [D -> D]]
  PROVE  \E f : Iterates(D, d, n, step, f)
<1> DEFINE Good(m) == \E f \in [0..m -> D] :
                        f[0] = d /\ \A i \in 1..m : f[i] = step[i][f[i - 1]]
           Found == {m \in 0..n : Good(m)}
<1>1. Good(0)
  <2> DEFINE f == [i \in 0..0 |-> d]
  <2>1. f \in [0..0 -> D] /\ f[0] = d /\ \A i \in 1..0 : f[i] = step[i][f[i - 1]]
    OBVIOUS
  <2>2. QED
    BY <2>1
<1>2. ASSUME NEW m \in 1..n, Good(m - 1)
      PROVE  Good(m)
  <2>1. /\ m \in Nat /\ m - 1 \in Nat /\ m - 1 \in 0..m - 1 /\ m \in 0..m /\ 0 \in 0..m - 1
        /\ \A i \in 0..m : i # m => i \in 0..m - 1
        /\ \A i \in 1..m : i # m => i \in 1..m - 1
        /\ \A i \in 1..m : i \in 0..m /\ i - 1 \in 0..m - 1 /\ i - 1 \in 0..m /\ i - 1 # m
    OBVIOUS
  <2>2. PICK g \in [0..m - 1 -> D] : g[0] = d /\ \A i \in 1..m - 1 : g[i] = step[i][g[i - 1]]
    BY <1>2
  <2>3. step[m][g[m - 1]] \in D
    BY <2>1, <2>2
  <2> DEFINE f == [i \in 0..m |-> IF i = m THEN step[m][g[m - 1]] ELSE g[i]]
  <2>4. f \in [0..m -> D]
    BY <2>1, <2>2, <2>3
  <2>5. \A i \in 0..m - 1 : f[i] = g[i]
    OBVIOUS
  <2>6. f[m] = step[m][g[m - 1]]
    BY <2>1
  <2> HIDE DEF f
  <2>7. f[0] = d
    BY <2>1, <2>2, <2>5
  <2>8. ASSUME NEW i \in 1..m
        PROVE  f[i] = step[i][f[i - 1]]
    <3>1. f[i - 1] = g[i - 1]
      BY <2>1, <2>5
    <3>2. CASE i = m
      BY <2>6, <3>1, <3>2
    <3>3. CASE i # m
      <4>1. i \in 1..m - 1 /\ i \in 0..m - 1
        BY <2>1, <3>3
      <4>2. QED
        BY <2>2, <2>5, <3>1, <4>1
    <3>4. QED
      BY <3>2, <3>3
  <2>9. QED
    BY <2>4, <2>7, <2>8
<1>3. \A m \in 0..n : m \in Found
  <2>1. 0 \in Found /\ \A m \in 1..n : m - 1 \in Found => m \in Found
    <3>1. \A m \in 1..n : m \in 0..n /\ m - 1 \in 0..n
      OBVIOUS
    <3> HIDE DEF Good
    <3>2. QED
      BY <1>1, <1>2, <3>1
  <2> HIDE DEF Found
  <2>2. QED
    BY <2>1, InductionUpTo
<1>4. n \in Found
  BY <1>3
<1>5. QED
  BY <1>4 DEF Iterates

AreStates(block, s, f) ==
  f = [i \in 0..Len(block.stmts) |->
         IF i = 0 THEN Entered(s) ELSE apply_stmt(f[i - 1], block.stmts[i])]

LEMMA StatesIs ==
  ASSUME NEW block, NEW s
  PROVE  States(block, s) = CHOOSE f : AreStates(block, s, f)
BY DEF States, AreStates

(* The states after each statement are states of the analysis.             *)
LEMMA StatesAreOut ==
  ASSUME NEW b, NEW block, IsBlock(b, block), NEW s \in State(b)
  PROVE  \A i \in 0..Len(block.stmts) :
           /\ States(block, s)[i] \in OutState(b)
           /\ States(block, s)[i] = IF i = 0 THEN Entered(s)
                                    ELSE apply_stmt(States(block, s)[i - 1], block.stmts[i])
<1> DEFINE n == Len(block.stmts)
           D == OutState(b)
           step == [i \in 1..n |-> [d \in D |-> apply_stmt(d, block.stmts[i])]]
<1>1. n \in Nat /\ Entered(s) \in D
  BY DEF IsBlock, Entered, OutState
<1>2. step \in [1..n -> [D -> D]]
  <2>1. ASSUME NEW i \in 1..n, NEW d \in D
        PROVE  apply_stmt(d, block.stmts[i]) \in D
    <3>1. block.stmts[i].place \in DOMAIN b.locals /\ IsRvalue(b, block.stmts[i].rvalue)
      BY DEF IsBlock
    <3>2. QED
      BY <3>1, AppliedIsOut
  <2> HIDE DEF D, n
  <2>2. QED
    BY <2>1
<1>3. \A i \in 1..n, d \in D : step[i][d] = apply_stmt(d, block.stmts[i])
  OBVIOUS
<1> HIDE DEF n, D, step
<1> DEFINE d0 == Entered(s)
<1> HIDE DEF d0
<1>4. PICK f : Iterates(D, d0, n, step, f)
  BY <1>1, <1>2, IterationExists DEF d0
<1>5. AreStates(block, s, f)
  <2> USE <1>4 DEF Iterates
  <2>1. ASSUME NEW i \in 0..n
        PROVE  f[i] = IF i = 0 THEN Entered(s) ELSE apply_stmt(f[i - 1], block.stmts[i])
    <3>1. CASE i = 0
      BY <1>4, <3>1 DEF d0
    <3>2. CASE i # 0
      <4>1. i \in 1..n /\ i - 1 \in 0..n
        BY <1>1, <3>2
      <4>2. f[i - 1] \in D
        BY <1>4, <4>1
      <4>3. QED
        BY <1>3, <1>4, <3>2, <4>1, <4>2
    <3>3. QED
      BY <3>1, <3>2
  <2>2. QED
    BY <1>4, <2>1 DEF AreStates, n
<1> DEFINE g == States(block, s)
<1>6. AreStates(block, s, g)
  BY <1>5, StatesIs
<1> HIDE DEF g
<1>7. \A i \in 0..n : g[i] = IF i = 0 THEN Entered(s) ELSE apply_stmt(g[i - 1], block.stmts[i])
  BY <1>6 DEF AreStates, n
<1> DEFINE Typed == {i \in 0..n : g[i] \in D}
<1>8. ASSUME NEW i \in 1..n, i - 1 \in Typed
      PROVE  i \in Typed
  <2>1. i \in 0..n /\ i # 0
    BY <1>1
  <2>2. g[i - 1] \in D /\ g[i] = apply_stmt(g[i - 1], block.stmts[i])
    BY <1>7, <1>8, <2>1
  <2>3. block.stmts[i].place \in DOMAIN b.locals /\ IsRvalue(b, block.stmts[i].rvalue)
    BY DEF IsBlock, n
  <2>4. QED
    BY <2>1, <2>2, <2>3, AppliedIsOut DEF D
<1>9. ASSUME NEW i \in 0..n
      PROVE  i \in Typed
  <2>1. 0 \in Typed
    BY <1>1, <1>7
  <2> HIDE DEF Typed
  <2>2. QED
    BY <1>1, <1>8, <2>1, InductionUpTo
<1>10. QED
  BY <1>7, <1>9 DEF g, n, D

LEMMA TransferIsOut ==
  ASSUME NEW b, NEW block, IsBlock(b, block), NEW s \in State(b)
  PROVE  transfer_block(block, s) \in OutState(b)
<1>1. Len(block.stmts) \in 0..Len(block.stmts)
  BY DEF IsBlock
<1>2. QED
  BY <1>1, StatesAreOut DEF transfer_block

LEMMA RefinedIsState ==
  ASSUME NEW b, NEW s \in State(b), NEW g \in GuardsOf(b), NEW assume_true
  PROVE  refine_local(s, g, assume_true) \in State(b)
<1> DEFINE op == IF assume_true THEN g.op ELSE negate_comparison(g.op)
<1>1. s[g.local] \in AbstractNumber /\ g.local \in DOMAIN b.locals /\ g.constant \in Double
  BY DEF State, GuardsOf
<1>2. apply_comparison(s[g.local], op, g.constant) \in AbstractNumber
  BY <1>1, RefinedIsNumber
<1>3. refine_local(s, g, assume_true)
        = [s EXCEPT ![g.local] = apply_comparison(s[g.local], op, g.constant)]
  BY DEF refine_local
<1> HIDE DEF op
<1>4. QED
  BY <1>1, <1>2, <1>3 DEF State

EdgeSet(b) == [to : DOMAIN b.blocks, state : State(b)]

LEMMA SwitchEdges ==
  ASSUME NEW b, NEW t, IsTerminator(b, t), t.kind = "SwitchInt", NEW out \in OutState(b)
  PROVE  switch_states(t, out) \in Seq(EdgeSet(b))
<1> DEFINE local == IF IsLocal(t.discr) THEN {t.discr.local} ELSE {}
           guard == {g \in out.guards : g.on \in local}
           chosen == CHOOSE g \in guard : TRUE
           Pinned(v) == [l \in DOMAIN out.state |->
                           IF l \in local THEN pin(out.state[l], AsDouble(v)) ELSE out.state[l]]
           Without(v) == [l \in DOMAIN out.state |->
                            IF l \in local /\ Len(t.targets) = 1
                            THEN exclude(out.state[l], AsDouble(v)) ELSE out.state[l]]
           Taken(target) ==
             IF guard # {} THEN refine_local(out.state, chosen, target.value # 0)
             ELSE Pinned(target.value)
           onlyFalse == \A i \in DOMAIN t.targets : t.targets[i].value = 0
           otherwise ==
             IF guard # {} THEN IF onlyFalse THEN refine_local(out.state, chosen, TRUE) ELSE out.state
             ELSE [l \in DOMAIN out.state |->
                     IF l \in local /\ Len(t.targets) = 1
                     THEN exclude(out.state[l], AsDouble(t.targets[1].value)) ELSE out.state[l]]
           edges == [i \in DOMAIN t.targets |-> Edge(t.targets[i].block, Taken(t.targets[i]))]
<1>1. /\ t.targets \in Seq([value : Int, block : DOMAIN b.blocks])
      /\ t.otherwise \in DOMAIN b.blocks
  BY DEF IsTerminator
<1>2. /\ out.state \in State(b) /\ DOMAIN out.state = DOMAIN b.locals
      /\ guard \subseteq GuardsOf(b)
      /\ \A l \in DOMAIN out.state : out.state[l] \in AbstractNumber
  BY DEF OutState, State
<1>3. switch_states(t, out) = Append(edges, Edge(t.otherwise, otherwise))
  BY DEF switch_states
<1> HIDE DEF local, guard
<1>4. ASSUME guard # {}
      PROVE  \A assume_true : refine_local(out.state, chosen, assume_true) \in State(b)
  <2>1. chosen \in GuardsOf(b)
    BY <1>2, <1>4
  <2> HIDE DEF chosen
  <2>2. QED
    BY <1>2, <2>1, RefinedIsState
<1>5. \A v \in Int : Pinned(v) \in State(b)
  BY <1>2, ConstantIsDouble, RefinedIsNumber DEF State
<1>6. \A v \in Int : Without(v) \in State(b)
  BY <1>2, ConstantIsDouble, RefinedIsNumber DEF State
<1>7. \A i \in DOMAIN t.targets : t.targets[i].value \in Int /\ t.targets[i].block \in DOMAIN b.blocks
  <2> DEFINE R == [value : Int, block : DOMAIN b.blocks]
  <2>1. \A r \in R : r.value \in Int /\ r.block \in DOMAIN b.blocks
    OBVIOUS
  <2> HIDE DEF R
  <2>2. \A i \in DOMAIN t.targets : t.targets[i] \in R
    <3>1. t.targets \in Seq(R)
      BY <1>1 DEF R
    <3>2. QED
      BY <3>1
  <2>3. QED
    BY <2>1, <2>2
<1>8. otherwise \in State(b)
  <2>1. CASE guard # {}
    BY <1>2, <1>4, <2>1
  <2>2. CASE guard = {} /\ Len(t.targets) = 1
    <3>1. t.targets[1].value \in Int
      BY <1>1, <1>7, <2>2
    <3>2. Without(t.targets[1].value) \in State(b)
      BY <1>6, <3>1
    <3>3. QED
      BY <2>2, <3>2
  <2>3. CASE guard = {} /\ Len(t.targets) # 1
    <3>1. otherwise = [l \in DOMAIN out.state |-> out.state[l]]
      BY <2>3
    <3>2. QED
      BY <1>2, <3>1 DEF State
  <2>4. QED
    BY <2>1, <2>2, <2>3
<1>9. \A i \in DOMAIN t.targets : Taken(t.targets[i]) \in State(b)
  BY <1>4, <1>5, <1>7
<1> HIDE DEF Taken, otherwise
<1>10. /\ \A i \in DOMAIN t.targets : Edge(t.targets[i].block, Taken(t.targets[i])) \in EdgeSet(b)
       /\ Edge(t.otherwise, otherwise) \in EdgeSet(b)
  BY <1>1, <1>7, <1>8, <1>9 DEF Edge, EdgeSet
<1>11. edges \in Seq(EdgeSet(b))
  <2>1. Len(t.targets) \in Nat /\ DOMAIN t.targets = 1..Len(t.targets)
    BY <1>1
  <2>2. edges \in [1..Len(t.targets) -> EdgeSet(b)]
    BY <1>10, <2>1
  <2>3. QED
    BY <2>1, <2>2
<1> HIDE DEF edges
<1>12. QED
  BY <1>3, <1>10, <1>11

(* Every edge out of a block leads to a block of the body and carries a    *)
(* state of the analysis.                                                  *)
LEMMA SuccessorsAreEdges ==
  ASSUME NEW b, NEW t, IsTerminator(b, t), NEW out \in OutState(b)
  PROVE  successor_states(t, out) \in Seq(EdgeSet(b))
<1>1. out.state \in State(b) /\ \A l \in DOMAIN out.state : out.state[l] \in AbstractNumber
  BY DEF OutState, State
<1>2. CASE t.kind \in {"Goto", "Assert"}
  <2>1. successor_states(t, out) = <<Edge(t.block, out.state)>>
    BY <1>2 DEF successor_states
  <2>2. Edge(t.block, out.state) \in EdgeSet(b)
    BY <1>1, <1>2 DEF IsTerminator, Edge, EdgeSet
  <2>3. QED
    BY <2>1, <2>2
<1>3. CASE t.kind = "Call"
  <2> DEFINE havocked == [l \in DOMAIN out.state |->
                            IF l \in t.destination THEN unknown ELSE out.state[l]]
  <2>1. successor_states(t, out) = [i \in DOMAIN t.target |-> Edge(t.target[i], havocked)]
    BY <1>3 DEF successor_states
  <2>2. havocked \in State(b)
    BY <1>1, ConstantsAreNumbers DEF State
  <2>3. t.target \in Seq(DOMAIN b.blocks)
    BY <1>3 DEF IsTerminator
  <2>4. Len(t.target) \in Nat /\ DOMAIN t.target = 1..Len(t.target)
    BY <2>3
  <2> HIDE DEF havocked
  <2>5. [i \in DOMAIN t.target |-> Edge(t.target[i], havocked)] \in [1..Len(t.target) -> EdgeSet(b)]
    BY <2>2, <2>3, <2>4 DEF Edge, EdgeSet
  <2>6. QED
    BY <2>1, <2>4, <2>5
<1>4. CASE t.kind = "Other"
  <2>1. successor_states(t, out) = [i \in DOMAIN t.successors |-> Edge(t.successors[i], out.state)]
    BY <1>4 DEF successor_states
  <2>2. t.successors \in Seq(DOMAIN b.blocks)
    BY <1>4 DEF IsTerminator
  <2>3. Len(t.successors) \in Nat /\ DOMAIN t.successors = 1..Len(t.successors)
    BY <2>2
  <2>4. [i \in DOMAIN t.successors |-> Edge(t.successors[i], out.state)]
          \in [1..Len(t.successors) -> EdgeSet(b)]
    BY <1>1, <2>2, <2>3 DEF Edge, EdgeSet
  <2>5. QED
    BY <2>1, <2>3, <2>4
<1>5. CASE t.kind = "SwitchInt"
  <2>1. successor_states(t, out) = switch_states(t, out)
    BY <1>5 DEF successor_states
  <2>2. QED
    BY <1>5, <2>1, SwitchEdges
<1>6. CASE t.kind \notin {"Goto", "Assert", "Call", "Other", "SwitchInt"}
  <2>1. successor_states(t, out) = << >>
    BY <1>6 DEF successor_states
  <2>2. QED
    BY <2>1
<1>7. QED
  BY <1>2, <1>3, <1>4, <1>5, <1>6

-----------------------------------------------------------------------------
(***************************************************************************)
(* One edge, and the edges of a block in turn.                             *)
(***************************************************************************)
Reached(b) == UNION {[S -> State(b)] : S \in SUBSET DOMAIN b.blocks}

FlowSet(b) ==
  {a \in [block_in : Reached(b), visits : [DOMAIN b.blocks -> 0..MAX_VISITS],
          worklist : Seq(DOMAIN b.blocks)] :
     ToSet(a.worklist) \subseteq DOMAIN a.block_in}

StateWithin(b, s, t) == \A l \in DOMAIN b.locals : Within(s[l], t[l])

(* What the edge carries has reached its target, unless the target is      *)
(* capped.                                                                 *)
Settled(b, a, edge) ==
  a.visits[edge.to] < MAX_VISITS =>
    edge.to \in DOMAIN a.block_in /\ StateWithin(b, edge.state, a.block_in[edge.to])

(* The iteration goes from a to z: entry states and counts only grow, and  *)
(* a block whose entry state changed is on the worklist.                   *)
Grown(b, a, z) ==
  /\ DOMAIN a.block_in \subseteq DOMAIN z.block_in
  /\ \A k \in DOMAIN b.blocks : a.visits[k] <= z.visits[k]
  /\ \A k \in DOMAIN a.block_in : StateWithin(b, a.block_in[k], z.block_in[k])
  /\ ToSet(a.worklist) \subseteq ToSet(z.worklist)
  /\ \A k \in DOMAIN z.block_in : k \notin ToSet(z.worklist) =>
       k \in DOMAIN a.block_in /\ z.block_in[k] = a.block_in[k]

LEMMA FlowFacts ==
  ASSUME NEW b, NEW a \in FlowSet(b)
  PROVE  /\ a.visits \in [DOMAIN b.blocks -> 0..MAX_VISITS]
         /\ a.worklist \in Seq(DOMAIN b.blocks)
         /\ DOMAIN a.block_in \subseteq DOMAIN b.blocks
         /\ a.block_in \in [DOMAIN a.block_in -> State(b)]
         /\ \A k \in DOMAIN a.block_in : a.block_in[k] \in State(b)
<1>1. a.block_in \in Reached(b)
  BY DEF FlowSet
<1>2. PICK S \in SUBSET DOMAIN b.blocks : a.block_in \in [S -> State(b)]
  BY <1>1 DEF Reached
<1>3. QED
  BY <1>2 DEF FlowSet

LEMMA StatesWithin ==
  ASSUME NEW b, NEW s \in State(b), NEW t \in State(b)
  PROVE  /\ StateWithin(b, s, s)
         /\ join_states(s, t) \in State(b)
         /\ StateWithin(b, s, join_states(s, t)) /\ StateWithin(b, t, join_states(s, t))
         /\ StateWithin(b, s, t) =>
              widen_states(s, t) \in State(b) /\ StateWithin(b, t, widen_states(s, t))
<1>1. \A l \in DOMAIN b.locals : s[l] \in AbstractNumber /\ t[l] \in AbstractNumber
  BY DEF State
<1>2. StateWithin(b, s, s)
  BY <1>1, WithinReflexive DEF StateWithin
<1>3. DOMAIN s = DOMAIN b.locals
  BY DEF State
<1>4. /\ join_states(s, t) \in State(b)
      /\ StateWithin(b, s, join_states(s, t)) /\ StateWithin(b, t, join_states(s, t))
  BY <1>1, <1>3, JoinIsNumber DEF join_states, StateWithin, State
<1>5. ASSUME StateWithin(b, s, t)
      PROVE  widen_states(s, t) \in State(b) /\ StateWithin(b, t, widen_states(s, t))
  BY <1>1, <1>3, <1>5, WidenIsNumber DEF widen_states, StateWithin, State
<1>6. QED
  BY <1>2, <1>4, <1>5

LEMMA StatesWithinTransitive ==
  ASSUME NEW b, NEW s \in State(b), NEW t \in State(b), NEW u \in State(b),
         StateWithin(b, s, t), StateWithin(b, t, u)
  PROVE  StateWithin(b, s, u)
BY WithinTransitive DEF StateWithin, State

(* What an edge is merged into: the entry state so far and the edge's.     *)
LEMMA MergedIsState ==
  ASSUME NEW b, NEW a \in FlowSet(b), NEW edge \in EdgeSet(b), NEW count \in Nat
  PROVE  /\ Merged(a.block_in, count, edge) \in State(b)
         /\ StateWithin(b, edge.state, Merged(a.block_in, count, edge))
         /\ edge.to \in DOMAIN a.block_in =>
              StateWithin(b, a.block_in[edge.to], Merged(a.block_in, count, edge))
<1>1. edge.to \in DOMAIN b.blocks /\ edge.state \in State(b)
  BY DEF EdgeSet
<1>2. CASE edge.to \notin DOMAIN a.block_in
  <2>1. Merged(a.block_in, count, edge) = edge.state
    BY <1>2 DEF Merged
  <2>2. QED
    BY <1>1, <1>2, <2>1, StatesWithin
<1>3. CASE edge.to \in DOMAIN a.block_in
  <2> DEFINE s == a.block_in[edge.to]
             j == join_states(s, edge.state)
             w == widen_states(s, j)
  <2>1. s \in State(b)
    BY <1>3, FlowFacts
  <2>2. Merged(a.block_in, count, edge) = IF count >= WIDEN_AFTER THEN w ELSE j
    BY <1>3 DEF Merged
  <2> HIDE DEF s
  <2>3. j \in State(b) /\ StateWithin(b, s, j) /\ StateWithin(b, edge.state, j)
    BY <1>1, <2>1, StatesWithin
  <2> HIDE DEF j
  <2>4. w \in State(b) /\ StateWithin(b, j, w)
    BY <2>1, <2>3, StatesWithin
  <2> HIDE DEF w
  <2>5. StateWithin(b, s, w) /\ StateWithin(b, edge.state, w)
    BY <1>1, <2>1, <2>3, <2>4, StatesWithinTransitive
  <2>6. QED
    BY <2>2, <2>3, <2>4, <2>5 DEF s
<1>4. QED
  BY <1>2, <1>3

LEMMA GrownReflexive ==
  ASSUME NEW b, NEW a \in FlowSet(b)
  PROVE  Grown(b, a, a)
<1>1. \A k \in DOMAIN b.blocks : a.visits[k] \in Int
  BY FlowFacts
<1>2. \A k \in DOMAIN a.block_in : StateWithin(b, a.block_in[k], a.block_in[k])
  BY FlowFacts, StatesWithin
<1>3. QED
  BY <1>1, <1>2 DEF Grown

LEMMA GrownTransitive ==
  ASSUME NEW b, NEW a \in FlowSet(b), NEW m \in FlowSet(b), NEW z \in FlowSet(b),
         Grown(b, a, m), Grown(b, m, z)
  PROVE  Grown(b, a, z)
<1>1. \A k \in DOMAIN b.blocks : a.visits[k] <= z.visits[k]
  <2>1. \A k \in DOMAIN b.blocks :
          /\ a.visits[k] \in Int /\ m.visits[k] \in Int /\ z.visits[k] \in Int
          /\ a.visits[k] <= m.visits[k] /\ m.visits[k] <= z.visits[k]
    BY FlowFacts DEF Grown
  <2>2. QED
    BY <2>1
<1>2. ASSUME NEW k \in DOMAIN a.block_in
      PROVE  StateWithin(b, a.block_in[k], z.block_in[k])
  <2>1. k \in DOMAIN m.block_in /\ k \in DOMAIN z.block_in
    BY DEF Grown
  <2>2. a.block_in[k] \in State(b) /\ m.block_in[k] \in State(b) /\ z.block_in[k] \in State(b)
    BY <2>1, FlowFacts
  <2>3. /\ StateWithin(b, a.block_in[k], m.block_in[k])
        /\ StateWithin(b, m.block_in[k], z.block_in[k])
    BY <2>1 DEF Grown
  <2>4. QED
    BY <2>2, <2>3, StatesWithinTransitive
<1>3. QED
  BY <1>1, <1>2 DEF Grown

(* An edge that is settled stays so as the iteration goes on.              *)
LEMMA SettledStays ==
  ASSUME NEW b, NEW a \in FlowSet(b), NEW z \in FlowSet(b), Grown(b, a, z),
         NEW edge \in EdgeSet(b), Settled(b, a, edge)
  PROVE  Settled(b, z, edge)
<1> SUFFICES ASSUME z.visits[edge.to] < MAX_VISITS
             PROVE  /\ edge.to \in DOMAIN z.block_in
                    /\ StateWithin(b, edge.state, z.block_in[edge.to])
  BY DEF Settled
<1>1. edge.to \in DOMAIN b.blocks /\ edge.state \in State(b)
  BY DEF EdgeSet
<1>2. a.visits[edge.to] < MAX_VISITS
  <2>1. a.visits[edge.to] \in Int /\ z.visits[edge.to] \in Int /\ a.visits[edge.to] <= z.visits[edge.to]
    BY <1>1, FlowFacts DEF Grown
  <2>2. QED
    BY <2>1 DEF MAX_VISITS
<1>3. edge.to \in DOMAIN a.block_in /\ StateWithin(b, edge.state, a.block_in[edge.to])
  BY <1>2 DEF Settled
<1>4. /\ edge.to \in DOMAIN z.block_in
      /\ StateWithin(b, a.block_in[edge.to], z.block_in[edge.to])
  BY <1>3 DEF Grown
<1>5. a.block_in[edge.to] \in State(b) /\ z.block_in[edge.to] \in State(b)
  BY <1>3, <1>4, FlowFacts
<1>6. QED
  BY <1>1, <1>3, <1>4, <1>5, StatesWithinTransitive

LEMMA QueuedOnce ==
  ASSUME NEW S, NEW w \in Seq(S), NEW k \in S
  PROVE  LET q == IF k \in ToSet(w) THEN w ELSE Append(w, k)
         IN  /\ q \in Seq(S) /\ k \in ToSet(q)
             /\ ToSet(w) \subseteq ToSet(q) /\ ToSet(q) \subseteq ToSet(w) \cup {k}
<1>1. CASE k \in ToSet(w)
  BY <1>1
<1>2. CASE k \notin ToSet(w)
  <2> DEFINE q == Append(w, k)
  <2>1. q \in Seq(S) /\ Len(q) = Len(w) + 1 /\ q[Len(q)] = k
        /\ \A i \in 1..Len(w) : q[i] = w[i]
    BY AppendProperties
  <2> HIDE DEF q
  <2>2. Len(w) \in Nat /\ DOMAIN w = 1..Len(w) /\ DOMAIN q = 1..Len(q)
    BY <2>1
  <2>3. Len(q) \in DOMAIN q /\ \A i \in DOMAIN w : i \in DOMAIN q /\ q[i] = w[i]
    BY <2>1, <2>2
  <2>4. \A i \in DOMAIN q : i = Len(q) \/ i \in DOMAIN w
    BY <2>1, <2>2
  <2>5. QED
    BY <1>2, <2>1, <2>3, <2>4 DEF ToSet, q
<1>3. QED
  BY <1>1, <1>2

(* One edge settles, and the iteration goes on.                            *)
LEMMA FlowAdvances ==
  ASSUME NEW b, NEW a \in FlowSet(b), NEW edge \in EdgeSet(b)
  PROVE  /\ Flow(a, edge) \in FlowSet(b)
         /\ Grown(b, a, Flow(a, edge))
         /\ Settled(b, Flow(a, edge), edge)
<1> DEFINE k == edge.to
           merged == Merged(a.block_in, a.visits[k], edge)
           changed == k \notin DOMAIN a.block_in \/ a.block_in[k] # merged
           queue == IF k \in ToSet(a.worklist) THEN a.worklist ELSE Append(a.worklist, k)
           entry == Stored(a.block_in, k, merged)
           n == [block_in |-> entry, visits |-> [a.visits EXCEPT ![k] = @ + 1], worklist |-> queue]
<1>1. k \in DOMAIN b.blocks /\ edge.state \in State(b)
  BY DEF EdgeSet
<1>2. a.visits[k] \in 0..MAX_VISITS
  BY <1>1, FlowFacts
<1>3. /\ merged \in State(b) /\ StateWithin(b, edge.state, merged)
      /\ k \in DOMAIN a.block_in => StateWithin(b, a.block_in[k], merged)
  BY <1>2, MergedIsState DEF MAX_VISITS
<1>4. Flow(a, edge) = IF changed /\ a.visits[k] < MAX_VISITS THEN n ELSE a
  BY DEF Flow
<1>5. /\ queue \in Seq(DOMAIN b.blocks) /\ k \in ToSet(queue)
      /\ ToSet(a.worklist) \subseteq ToSet(queue)
      /\ ToSet(queue) \subseteq ToSet(a.worklist) \cup {k}
  BY <1>1, FlowFacts, QueuedOnce
<1> HIDE DEF merged, queue
<1>6. CASE changed /\ a.visits[k] < MAX_VISITS
  <2>1. /\ DOMAIN entry = DOMAIN a.block_in \cup {k} /\ entry[k] = merged
        /\ \A j \in DOMAIN a.block_in : j # k => entry[j] = a.block_in[j]
        /\ entry = [j \in DOMAIN a.block_in \cup {k} |-> entry[j]]
    BY DEF Stored
  <2> HIDE DEF entry
  <2>2. entry \in Reached(b)
    <3>1. \A j \in DOMAIN a.block_in \cup {k} : entry[j] \in State(b)
      BY <1>3, <2>1, FlowFacts
    <3>2. entry \in [DOMAIN a.block_in \cup {k} -> State(b)]
      BY <2>1, <3>1
    <3>3. (DOMAIN a.block_in \cup {k}) \subseteq DOMAIN b.blocks
      BY <1>1, FlowFacts
    <3>4. QED
      BY <3>2, <3>3 DEF Reached
  <2>3. /\ [a.visits EXCEPT ![k] = @ + 1] \in [DOMAIN b.blocks -> 0..MAX_VISITS]
        /\ \A j \in DOMAIN b.blocks : a.visits[j] <= [a.visits EXCEPT ![k] = @ + 1][j]
    <3>1. a.visits \in [DOMAIN b.blocks -> 0..MAX_VISITS]
      BY FlowFacts
    <3>2. a.visits[k] + 1 \in 0..MAX_VISITS /\ a.visits[k] <= a.visits[k] + 1
      BY <1>2, <1>6 DEF MAX_VISITS
    <3>3. \A j \in DOMAIN b.blocks : a.visits[j] \in Int /\ a.visits[j] <= a.visits[j]
      BY <3>1
    <3>4. QED
      BY <1>1, <3>1, <3>2, <3>3
  <2>4. n \in FlowSet(b)
    <3>1. ToSet(queue) \subseteq DOMAIN entry
      BY <1>5, <2>1 DEF FlowSet
    <3>2. QED
      BY <1>5, <2>2, <2>3, <3>1 DEF FlowSet
  <2>5. Grown(b, a, n)
    <3>1. \A j \in DOMAIN a.block_in : StateWithin(b, a.block_in[j], entry[j])
      <4>1. \A j \in DOMAIN a.block_in : StateWithin(b, a.block_in[j], a.block_in[j])
        BY FlowFacts, StatesWithin
      <4>2. QED
        BY <1>3, <2>1, <4>1
    <3>2. \A j \in DOMAIN entry : j \notin ToSet(queue) =>
            j \in DOMAIN a.block_in /\ entry[j] = a.block_in[j]
      BY <1>5, <2>1
    <3>3. QED
      BY <1>5, <2>1, <2>3, <3>1, <3>2 DEF Grown
  <2>6. Settled(b, n, edge)
    BY <1>3, <2>1 DEF Settled
  <2>7. QED
    BY <1>4, <1>6, <2>4, <2>5, <2>6
<1>7. CASE ~(changed /\ a.visits[k] < MAX_VISITS)
  <2>1. Flow(a, edge) = a
    BY <1>4, <1>7
  <2>2. Settled(b, a, edge)
    BY <1>3, <1>7 DEF Settled
  <2>3. QED
    BY <2>1, <2>2, GrownReflexive
<1>8. QED
  BY <1>6, <1>7

AreFlows(start, edges, f) ==
  f = [i \in 0..Len(edges) |-> IF i = 0 THEN start ELSE Flow(f[i - 1], edges[i])]

LEMMA FlowedIs ==
  ASSUME NEW start, NEW edges
  PROVE  Flowed(start, edges) = (CHOOSE f : AreFlows(start, edges, f))[Len(edges)]
BY DEF Flowed, AreFlows

(* After its edges, one after the other, the iteration has gone on and all *)
(* of them are settled.                                                    *)
LEMMA FlowedSettles ==
  ASSUME NEW b, NEW start \in FlowSet(b), NEW edges \in Seq(EdgeSet(b))
  PROVE  LET z == Flowed(start, edges)
         IN  /\ z \in FlowSet(b) /\ Grown(b, start, z)
             /\ \A i \in DOMAIN edges : Settled(b, z, edges[i])
<1> DEFINE n == Len(edges)
           D == FlowSet(b)
           step == [i \in 1..n |-> [a \in D |-> Flow(a, edges[i])]]
<1>1. n \in Nat /\ DOMAIN edges = 1..n /\ \A i \in 1..n : edges[i] \in EdgeSet(b)
  OBVIOUS
<1>2. step \in [1..n -> [D -> D]]
  <2>1. \A i \in 1..n, a \in D : Flow(a, edges[i]) \in D
    BY <1>1, FlowAdvances
  <2> HIDE DEF D, n
  <2>2. QED
    BY <2>1
<1>3. \A i \in 1..n, a \in D : step[i][a] = Flow(a, edges[i])
  OBVIOUS
<1>4. start \in D
  OBVIOUS
<1> HIDE DEF n, D, step
<1>5. PICK f : Iterates(D, start, n, step, f)
  BY <1>1, <1>2, <1>4, IterationExists
<1>6. AreFlows(start, edges, f)
  <2> USE <1>5 DEF Iterates
  <2>1. ASSUME NEW i \in 0..n
        PROVE  f[i] = IF i = 0 THEN start ELSE Flow(f[i - 1], edges[i])
    <3>1. CASE i = 0
      BY <3>1
    <3>2. CASE i # 0
      <4>1. i \in 1..n /\ i - 1 \in 0..n
        BY <1>1, <3>2
      <4>2. f[i - 1] \in D
        BY <4>1
      <4>3. QED
        BY <1>3, <3>2, <4>1, <4>2
    <3>3. QED
      BY <3>1, <3>2
  <2>2. QED
    BY <2>1 DEF AreFlows, n
<1> DEFINE g == CHOOSE h : AreFlows(start, edges, h)
<1>7. AreFlows(start, edges, g)
  BY <1>6
<1> HIDE DEF g
<1>8. \A i \in 0..n : g[i] = IF i = 0 THEN start ELSE Flow(g[i - 1], edges[i])
  BY <1>7 DEF AreFlows, n
<1> DEFINE Good(i) == /\ g[i] \in D /\ Grown(b, start, g[i])
                      /\ \A j \in 1..i : Settled(b, g[i], edges[j])
           S == {i \in 0..n : Good(i)}
<1>9. 0 \in S
  <2>1. g[0] = start /\ 0 \in 0..n /\ \A j \in 1..0 : FALSE
    BY <1>1, <1>8
  <2>2. Grown(b, start, start)
    BY GrownReflexive
  <2>3. QED
    BY <1>4, <2>1, <2>2
<1>10. ASSUME NEW i \in 1..n, i - 1 \in S
       PROVE  i \in S
  <2> DEFINE m == g[i - 1]
             z == g[i]
  <2>1. i \in 0..n /\ i # 0 /\ \A j \in 1..i : j = i \/ j \in 1..i - 1
    BY <1>1
  <2>2. /\ m \in FlowSet(b) /\ Grown(b, start, m)
        /\ \A j \in 1..i - 1 : Settled(b, m, edges[j])
    BY <1>10 DEF D
  <2>3. z = Flow(m, edges[i]) /\ edges[i] \in EdgeSet(b)
    BY <1>1, <1>8, <2>1
  <2> HIDE DEF m, z
  <2>4. z \in FlowSet(b) /\ Grown(b, m, z) /\ Settled(b, z, edges[i])
    BY <2>2, <2>3, FlowAdvances
  <2>5. Grown(b, start, z)
    BY <2>2, <2>4, GrownTransitive
  <2>6. \A j \in 1..i : Settled(b, z, edges[j])
    <3>1. \A j \in 1..i - 1 : edges[j] \in EdgeSet(b)
      BY <1>1
    <3>2. \A j \in 1..i - 1 : Settled(b, z, edges[j])
      BY <2>2, <2>4, <3>1, SettledStays
    <3>3. QED
      BY <2>1, <2>4, <3>2
  <2>7. QED
    BY <2>1, <2>4, <2>5, <2>6 DEF D, z
<1>11. n \in S
  <2> HIDE DEF S
  <2>1. n \in 0..n
    BY <1>1
  <2>2. QED
    BY <1>1, <1>9, <1>10, <2>1, InductionUpTo
<1>12. Flowed(start, edges) = g[n]
  BY FlowedIs DEF g, n
<1>13. QED
  BY <1>1, <1>11, <1>12 DEF D

-----------------------------------------------------------------------------
(***************************************************************************)
(* The inductive invariant of the iteration: the entry states are states,  *)
(* and every edge of a reached block that is not on the worklist is        *)
(* settled.                                                                *)
(***************************************************************************)
Iteration == [block_in |-> block_in, visits |-> visits, worklist |-> worklist]

IterationTyped == mir \in Programs /\ Iteration \in FlowSet(body)

Converging ==
  \A b \in DOMAIN block_in : b \notin ToSet(worklist) =>
    \A i \in DOMAIN EdgesOf(b) : Settled(body, Iteration, EdgesOf(b)[i])

IInv == IterationTyped /\ Converging

(* No block's count has reached the cap.                                   *)
Uncapped == \A b \in Block : visits[b] < MAX_VISITS

LEMMA BodyFacts ==
  mir \in Programs =>
    /\ IsBody(body) /\ 0 \in DOMAIN body.blocks
    /\ DOMAIN body.blocks = Block /\ DOMAIN body.locals = DOMAIN mir.locals
<1>1. ASSUME mir \in Programs
      PROVE  IsBody(body)
  BY <1>1, BodiesAssumption DEF body
<1>2. DOMAIN body.blocks = Block /\ DOMAIN body.locals = DOMAIN mir.locals
  BY DEF body, Block, lower_body
<1>3. ASSUME IsBody(body)
      PROVE  0 \in DOMAIN body.blocks
  <2> DEFINE last == Max(DOMAIN body.blocks)
  <2>1. last \in Nat /\ DOMAIN body.blocks = 0..last
    BY <1>3 DEF IsBody
  <2> HIDE DEF last
  <2>2. QED
    BY <2>1
<1>4. QED
  BY <1>1, <1>2, <1>3

LEMMA EdgesAreTyped ==
  IterationTyped => \A b \in DOMAIN block_in : EdgesOf(b) \in Seq(EdgeSet(body))
<1> SUFFICES ASSUME IterationTyped, NEW b \in DOMAIN block_in
             PROVE  EdgesOf(b) \in Seq(EdgeSet(body))
  OBVIOUS
<1> DEFINE B == body
           out == transfer_block(B.blocks[b], block_in[b])
<1>1. DOMAIN block_in \subseteq DOMAIN B.blocks /\ block_in[b] \in State(B)
  <2>1. Iteration \in FlowSet(B) /\ Iteration.block_in = block_in
    BY DEF IterationTyped, Iteration
  <2> HIDE DEF B
  <2>2. QED
    BY <2>1, FlowFacts
<1>2. IsBlock(B, B.blocks[b])
  BY <1>1, BodyFacts DEF IterationTyped, IsBody
<1>3. EdgesOf(b) = successor_states(B.blocks[b].terminator, out)
  BY DEF EdgesOf
<1> HIDE DEF B
<1>4. out \in OutState(B)
  BY <1>1, <1>2, TransferIsOut
<1> HIDE DEF out
<1>5. IsTerminator(B, B.blocks[b].terminator)
  BY <1>2 DEF IsBlock
<1>6. EdgesOf(b) \in Seq(EdgeSet(B))
  BY <1>3, <1>4, <1>5, SuccessorsAreEdges
<1>7. QED
  BY <1>6 DEF B

LEMMA InitialState ==
  ASSUME NEW m \in Programs
  PROVE  initial_state(lower_body(m)) \in State(lower_body(m))
<1> DEFINE b == lower_body(m)
<1>1. \A l \in DOMAIN b.locals : start_for_kind(b.locals[l]) \in AbstractNumber
  BY ConstantsAreNumbers DEF start_for_kind
<1> HIDE DEF b
<1>2. initial_state(b) \in State(b)
  BY <1>1, ConstantsAreNumbers DEF initial_state, State
<1>3. QED
  BY <1>2 DEF b

LEMMA InitIInv == Init => IInv
<1> SUFFICES ASSUME Init
             PROVE  IInv
  OBVIOUS
<1> DEFINE B == body
<1>1. mir \in Programs /\ 0 \in DOMAIN B.blocks /\ DOMAIN B.blocks = Block
  BY BodyFacts DEF Init
<1>2. initial_state(B) \in State(B)
  BY <1>1, InitialState DEF body
<1>3. block_in = [b \in {0} |-> initial_state(B)] /\ worklist = <<0>>
  BY DEF Init
<1>4. visits = [b \in DOMAIN B.blocks |-> 0]
  BY <1>1 DEF Init
<1> HIDE DEF B
<1>5. block_in \in Reached(B)
  <2>1. block_in \in [{0} -> State(B)] /\ {0} \in SUBSET DOMAIN B.blocks
    BY <1>1, <1>2, <1>3
  <2>2. QED
    BY <2>1 DEF Reached
<1>6. visits \in [DOMAIN B.blocks -> 0..MAX_VISITS] /\ worklist \in Seq(DOMAIN B.blocks)
  BY <1>1, <1>3, <1>4 DEF MAX_VISITS
<1>7. IterationTyped
  <2>1. ToSet(worklist) \subseteq DOMAIN block_in
    BY <1>3 DEF ToSet
  <2>2. QED
    BY <1>1, <1>5, <1>6, <2>1 DEF IterationTyped, Iteration, FlowSet, B
<1>8. Converging
  <2>1. 0 \in ToSet(worklist) /\ DOMAIN block_in = {0}
    BY <1>3 DEF ToSet
  <2>2. QED
    BY <2>1 DEF Converging
<1>9. QED
  BY <1>7, <1>8 DEF IInv

(* What an edge carries depends on the body and its block's entry state.   *)
LEMMA EdgesUnchanged ==
  ASSUME mir' = mir, NEW b, block_in'[b] = block_in[b]
  PROVE  EdgesOf(b)' = EdgesOf(b)
BY DEF EdgesOf, body

LEMMA PopIInv ==
  ASSUME IInv, Pop
  PROVE  /\ IInv'
         /\ \A k \in DOMAIN block_in :
              k \in DOMAIN block_in' /\ StateWithin(body, block_in[k], block_in'[k])
<1> DEFINE B == body
           w == worklist
           b == Head(w)
           start == [block_in |-> block_in, visits |-> visits, worklist |-> Tail(w)]
           edges == EdgesOf(b)
           z == Flowed(start, edges)
<1>1. /\ w # << >> /\ mir' = mir /\ body' = body
      /\ block_in' = z.block_in /\ visits' = z.visits /\ worklist' = z.worklist
  BY DEF Pop, body
<1>2. /\ Iteration \in FlowSet(B) /\ mir \in Programs
      /\ block_in \in Reached(B) /\ visits \in [DOMAIN B.blocks -> 0..MAX_VISITS]
      /\ w \in Seq(DOMAIN B.blocks) /\ ToSet(w) \subseteq DOMAIN block_in
  BY DEF IInv, IterationTyped, Iteration, FlowSet
<1>3. /\ Tail(w) \in Seq(DOMAIN B.blocks)
      /\ b \in ToSet(w) /\ ToSet(Tail(w)) \subseteq ToSet(w)
      /\ \A k \in ToSet(w) : k = b \/ k \in ToSet(Tail(w))
  <2>1. /\ Tail(w) \in Seq(DOMAIN B.blocks) /\ Len(w) \in Nat /\ Len(w) > 0
        /\ \A i \in 1..Len(w) - 1 : Tail(w)[i] = w[i + 1]
        /\ b = w[1] /\ DOMAIN w = 1..Len(w) /\ DOMAIN Tail(w) = 1..Len(w) - 1
    BY <1>1, <1>2
  <2>2. ASSUME NEW i \in DOMAIN w, i # 1
        PROVE  w[i] \in ToSet(Tail(w))
    <3>1. i - 1 \in 1..Len(w) - 1 /\ (i - 1) + 1 = i
      BY <2>1, <2>2
    <3>2. w[i] = Tail(w)[i - 1] /\ i - 1 \in DOMAIN Tail(w)
      BY <2>1, <3>1
    <3>3. QED
      BY <3>2 DEF ToSet
  <2>3. 1 \in DOMAIN w /\ \A i \in DOMAIN Tail(w) : i + 1 \in DOMAIN w /\ Tail(w)[i] = w[i + 1]
    BY <2>1
  <2>4. b \in ToSet(w)
    BY <2>1, <2>3 DEF ToSet
  <2>5. ToSet(Tail(w)) \subseteq ToSet(w)
    BY <2>3 DEF ToSet
  <2>6. ASSUME NEW k \in ToSet(w)
        PROVE  k = b \/ k \in ToSet(Tail(w))
    <3>1. PICK i \in DOMAIN w : k = w[i]
      BY DEF ToSet
    <3>2. QED
      BY <2>1, <2>2, <3>1
  <2>7. QED
    BY <2>1, <2>4, <2>5, <2>6
<1>4. start \in FlowSet(B)
  BY <1>2, <1>3 DEF FlowSet
<1>5. edges \in Seq(EdgeSet(B))
  BY <1>2, <1>3, EdgesAreTyped DEF IInv
<1> HIDE DEF B, start, edges
<1>6. /\ z \in FlowSet(B) /\ Grown(B, start, z)
      /\ \A i \in DOMAIN edges : Settled(B, z, edges[i])
  BY <1>4, <1>5, FlowedSettles
<1> HIDE DEF z
<1>7. Iteration' = z /\ B' = B
  BY <1>1, <1>6 DEF Iteration, FlowSet, B
<1>8. IterationTyped'
  BY <1>1, <1>2, <1>6, <1>7 DEF IterationTyped, B
<1>9. ASSUME NEW c \in DOMAIN block_in', c \notin ToSet(worklist')
      PROVE  \A i \in DOMAIN EdgesOf(c)' : Settled(B, z, EdgesOf(c)'[i])
  <2>1. c \in DOMAIN block_in /\ block_in'[c] = block_in[c] /\ c \notin ToSet(Tail(w))
    BY <1>1, <1>6, <1>9 DEF Grown, start
  <2>2. EdgesOf(c)' = EdgesOf(c)
    BY <1>1, <2>1, EdgesUnchanged
  <2>3. CASE c = b
    BY <1>6, <2>2, <2>3 DEF edges
  <2>4. CASE c # b
    <3>1. c \notin ToSet(w)
      BY <1>3, <2>1, <2>4
    <3>2. \A i \in DOMAIN EdgesOf(c) : Settled(B, Iteration, EdgesOf(c)[i])
      BY <2>1, <3>1 DEF IInv, Converging, B
    <3>3. EdgesOf(c) \in Seq(EdgeSet(B))
      BY <2>1, EdgesAreTyped DEF IInv, B
    <3>4. \A i \in DOMAIN EdgesOf(c) : Settled(B, start, EdgesOf(c)[i])
      BY <3>2 DEF Settled, Iteration, start
    <3>5. \A i \in DOMAIN EdgesOf(c) : EdgesOf(c)[i] \in EdgeSet(B)
      BY <3>3
    <3>6. QED
      BY <1>4, <1>6, <2>2, <3>4, <3>5, SettledStays
  <2>5. QED
    BY <2>3, <2>4
<1>10. Converging'
  BY <1>7, <1>9 DEF Converging, B
<1>11. \A k \in DOMAIN block_in :
         k \in DOMAIN block_in' /\ StateWithin(B, block_in[k], block_in'[k])
  BY <1>1, <1>6 DEF Grown, start
<1>12. QED
  BY <1>8, <1>10, <1>11 DEF IInv, B

(* The worklist iteration keeps its invariant.                             *)
LEMMA NextIInv == IInv /\ [Next]_vars => IInv'
<1> SUFFICES ASSUME IInv, [Next]_vars
             PROVE  IInv'
  OBVIOUS
<1>1. CASE Pop
  BY <1>1, PopIInv
<1>2. CASE UNCHANGED <<mir, block_in, visits, worklist>>
  <2>1. Iteration' = Iteration /\ body' = body
    BY <1>2 DEF Iteration, body
  <2>2. IterationTyped'
    BY <1>2, <2>1 DEF IInv, IterationTyped
  <2>3. ASSUME NEW b \in DOMAIN block_in', b \notin ToSet(worklist')
        PROVE  \A i \in DOMAIN EdgesOf(b)' : Settled(body', Iteration', EdgesOf(b)'[i])
    <3>1. EdgesOf(b)' = EdgesOf(b)
      BY <1>2, EdgesUnchanged
    <3>2. b \in DOMAIN block_in /\ b \notin ToSet(worklist)
      BY <1>2, <2>3
    <3>3. QED
      BY <2>1, <3>1, <3>2 DEF IInv, Converging
  <2>4. QED
    BY <2>2, <2>3 DEF IInv, Converging
<1>3. QED
  BY <1>1, <1>2 DEF Next, Report, Call, Panic, Statement, Branch, Return, vars

(* When the worklist is empty, whatever an edge carries has reached its    *)
(* target, if no count is at the cap.                                      *)
LEMMA IInvFixedPoint == IInv => (Uncapped => FixedPoint)
<1> SUFFICES ASSUME IInv, Uncapped, worklist = << >>,
                    NEW b \in DOMAIN block_in, NEW i \in DOMAIN EdgesOf(b)
             PROVE  LET edges == EdgesOf(b)
                    IN  /\ edges[i].to \in DOMAIN block_in
                        /\ \A l \in DOMAIN mir.locals :
                             Within(edges[i].state[l], block_in[edges[i].to][l])
  BY DEF FixedPoint
<1>1. mir \in Programs
  BY DEF IInv, IterationTyped
<1>2. EdgesOf(b) \in Seq(EdgeSet(body))
  BY EdgesAreTyped DEF IInv
<1>3. EdgesOf(b)[i].to \in Block
  <2>1. EdgesOf(b)[i] \in EdgeSet(body)
    BY <1>2
  <2>2. EdgesOf(b)[i].to \in DOMAIN body.blocks
    BY <2>1 DEF EdgeSet
  <2>3. QED
    BY <1>1, <2>2, BodyFacts
<1>4. Iteration.visits[EdgesOf(b)[i].to] < MAX_VISITS
  BY <1>3 DEF Uncapped, Iteration
<1>5. b \notin ToSet(worklist)
  BY DEF ToSet
<1>6. Settled(body, Iteration, EdgesOf(b)[i])
  BY <1>5 DEF IInv, Converging
<1>7. QED
  BY <1>1, <1>4, <1>6, BodyFacts DEF Settled, StateWithin, Iteration

-----------------------------------------------------------------------------
(***************************************************************************)
(* The integers of a program, and how rounding treats them.                *)
(***************************************************************************)
LEMMA QuotientFacts ==
  ASSUME NEW n \in Int, NEW d \in Nat, d > 0
  PROVE  /\ n \div d \in Int /\ n % d \in 0..d - 1
         /\ n = (d * (n \div d)) + (n % d)
         /\ n \in Nat => n \div d \in Nat
OBVIOUS

LEMMA Ordered ==
  ASSUME NEW a \in Int, NEW b \in Int, NEW d \in Nat
  PROVE  /\ a * d \in Int /\ b * d \in Int
         /\ a <= b => a * d <= b * d
         /\ d > 0 /\ a * d < b * d => a < b
         /\ d > 0 /\ a * d <= b * d => a <= b
         /\ (a + 1) * d = a * d + d /\ (a - 1) * d = a * d - d
<1>1. a <= b => a * d <= b * d
  OBVIOUS
<1>2. d > 0 /\ a * d < b * d => a < b
  OBVIOUS
<1>3. d > 0 /\ a * d <= b * d => a <= b
  OBVIOUS
<1>4. QED
  BY <1>1, <1>2, <1>3

LEMMA NearestBounds ==
  ASSUME NEW num \in Nat, NEW d \in Nat, d > 0, NEW w \in Nat
  PROVE  /\ num <= w * d => Nearest(num, d, 1) <= w
         /\ num >= w * d => Nearest(num, d, 1) >= w
<1> DEFINE q == num \div d
           r == num % d
<1>1. q \in Nat /\ r \in Nat /\ r < d /\ num = d * q + r
  BY QuotientFacts
<1>2. Nearest(num, d, 1) = IF 2 * (num - q * d) > d \/ (2 * (num - q * d) = d /\ q % 2 = 1)
                           THEN q + 1 ELSE q
  <2>1. d * 1 = d /\ q * (d * 1) = q * d /\ q * 1 = q /\ (q + 1) * 1 = q + 1 /\ num \div (d * 1) = q
    BY <1>1
  <2>2. q * d * 1 = q * d
    BY <1>1
  <2> HIDE DEF q
  <2>3. QED
    BY <2>1, <2>2 DEF Nearest
<1> HIDE DEF q, r
<1>3. num - q * d = r /\ q * d \in Int /\ w * d \in Int
  BY <1>1
<1>4. Nearest(num, d, 1) \in {q, q + 1} /\ (r = 0 => Nearest(num, d, 1) = q)
  BY <1>1, <1>2, <1>3
<1>5. ASSUME num <= w * d
      PROVE  q <= w /\ (q = w => r = 0)
  <2>1. q * d <= w * d
    BY <1>1, <1>3, <1>5
  <2>2. q <= w
    BY <1>1, <2>1, Ordered
  <2>3. q = w => r = 0
    BY <1>1, <1>3, <1>5
  <2>4. QED
    BY <2>2, <2>3
<1>6. ASSUME num >= w * d
      PROVE  q >= w
  <2>1. w * d < (q + 1) * d
    BY <1>1, <1>3, <1>6, Ordered
  <2>2. w < q + 1
    BY <1>1, <2>1, Ordered
  <2>3. QED
    BY <1>1, <2>2
<1>7. QED
  BY <1>1, <1>4, <1>5, <1>6

LEMMA NearestBeyond ==
  ASSUME NEW num \in Nat, NEW d \in Nat, d > 0, num >= Exact * d
  PROVE  Nearest(num, d, Gap) >= Exact
<1> DEFINE u == d * Gap
           q == num \div u
           e == Exact \div Gap
<1>1. Gap \in Nat /\ Gap > 0 /\ Exact \in Nat /\ Exact % Gap = 0
  BY DoublesAssumption
<1>2. e \in Nat /\ Exact = e * Gap
  BY <1>1, QuotientFacts
<1>3. u \in Nat /\ u > 0
  BY <1>1, ProductOfNaturals
<1>4. q \in Nat /\ num \in Int /\ num < (q + 1) * u
  <2> HIDE DEF u
  <2>1. q \in Nat /\ num % u < u /\ num % u \in Nat /\ num = (u * q) + (num % u)
    BY <1>3, QuotientFacts
  <2> HIDE DEF q
  <2>2. (q + 1) * u = u * q + u
    BY <1>3, <2>1, Ordered
  <2>3. u * q \in Int
    BY <1>3, <2>1
  <2>4. QED
    BY <1>3, <2>1, <2>2, <2>3
<1>5. Nearest(num, d, Gap) \in {q * Gap, (q + 1) * Gap}
  BY DEF Nearest
<1> HIDE DEF q, e
<1>6. Exact * d = e * u
  BY <1>1, <1>2
<1> HIDE DEF u
<1>7. e * u < (q + 1) * u
  <2>1. e * u \in Int /\ (q + 1) * u \in Int
    BY <1>2, <1>3, <1>4
  <2>2. QED
    BY <1>4, <1>6, <2>1
<1>8. e < q + 1
  BY <1>2, <1>3, <1>4, <1>7, Ordered
<1>9. e <= q /\ e <= q + 1
  BY <1>2, <1>4, <1>8
<1>10. e * Gap <= q * Gap /\ e * Gap <= (q + 1) * Gap
  BY <1>1, <1>2, <1>4, <1>9, Ordered
<1>11. QED
  BY <1>2, <1>5, <1>10

(* Rounding does not cross an integer that is exact.                       *)
LEMMA RoundKeepsOrder ==
  ASSUME NEW num \in Int, NEW den \in Nat, den > 0,
         NEW w \in Int, -Exact <= w, w <= Exact
  PROVE  /\ num <= w * den => Round(num, den) <= w
         /\ num >= w * den => Round(num, den) >= w
<1> DEFINE n == Abs(num)
           v == IF n <= Exact * den THEN Nearest(n, den, 1) ELSE Nearest(n, den, Gap)
           u == IF v > MaxD THEN Inf ELSE v
           s == IF num < 0 THEN -1 ELSE 1
<1>1. n \in Nat /\ (num < 0 => n = -num) /\ (num >= 0 => n = num)
  BY DEF Abs
<1>2. Round(num, den) = s * u
  <2>1. Abs(den) = den /\ Sign(den) = 1 /\ Sign(num) = s
    BY DEF Abs, Sign
  <2>2. s * 1 = s
    OBVIOUS
  <2>3. QED
    BY <2>1, <2>2 DEF Round
<1>3. Exact \in Nat /\ Gap \in Nat /\ Gap > 0 /\ Exact < MaxD /\ MaxD \in Nat
      /\ Inf \in Nat /\ MaxD < Inf
  BY DoublesAssumption, Extremes
<1>4. Exact * den \in Nat /\ w * den \in Int /\ (-w) * den = -(w * den) /\ (-w) \in Int
  BY <1>3, ProductOfNaturals
<1> HIDE DEF n
<1>5. v \in Nat
  BY <1>1, <1>3, NearestIsNatural
<1>6. ASSUME NEW k \in Nat, k <= Exact
      PROVE  /\ n <= k * den => v <= k
             /\ n >= k * den => v >= k
  <2>1. k * den <= Exact * den /\ k * den \in Int
    BY <1>3, <1>6, Ordered
  <2>2. CASE n <= Exact * den
    BY <1>1, <1>6, <2>2, NearestBounds
  <2>3. CASE ~(n <= Exact * den)
    <3>1. n >= Exact * den
      BY <1>1, <1>4, <2>3
    <3>2. v >= Exact
      BY <1>1, <2>3, <3>1, NearestBeyond
    <3>3. ~(n <= k * den)
      BY <1>1, <1>4, <2>1, <2>3
    <3>4. QED
      BY <1>3, <1>5, <1>6, <3>2, <3>3
  <2>4. QED
    BY <2>2, <2>3
<1> HIDE DEF v
<1>7. u \in Nat /\ (v <= Exact => u = v) /\ (v >= Exact => u >= Exact)
  BY <1>3, <1>5
<1> HIDE DEF u
<1>8. CASE num >= 0
  <2>1. n = num /\ s = 1 /\ Round(num, den) = u
    BY <1>1, <1>2, <1>7, <1>8
  <2>2. ASSUME num <= w * den
        PROVE  Round(num, den) <= w
    <3>1. w >= 0
      <4>1. 0 * den <= w * den /\ 0 * den = 0
        BY <1>4, <1>8, <2>2
      <4>2. QED
        BY <4>1, Ordered
    <3>2. v <= w
      BY <1>6, <2>1, <2>2, <3>1
    <3>3. QED
      BY <1>3, <1>5, <1>7, <2>1, <3>1, <3>2
  <2>3. ASSUME num >= w * den
        PROVE  Round(num, den) >= w
    <3>1. CASE w < 0
      BY <1>7, <2>1, <3>1
    <3>2. CASE w >= 0
      BY <1>3, <1>5, <1>6, <1>7, <2>1, <2>3, <3>2
    <3>3. QED
      BY <3>1, <3>2
  <2>4. QED
    BY <2>2, <2>3
<1>9. CASE num < 0
  <2>1. n = -num /\ s = -1 /\ Round(num, den) = -u
    BY <1>1, <1>2, <1>7, <1>9
  <2>2. ASSUME num >= w * den
        PROVE  Round(num, den) >= w
    <3>1. w < 0 /\ n <= (-w) * den
      <4>1. w * den < 0 * den /\ 0 * den = 0
        BY <1>4, <1>9, <2>2
      <4>2. w < 0
        BY <4>1, Ordered
      <4>3. QED
        BY <1>4, <2>1, <2>2, <4>2
    <3>2. -w \in Nat /\ -w <= Exact
      BY <1>3, <3>1
    <3>3. v <= -w
      BY <1>6, <3>1, <3>2
    <3>4. QED
      BY <1>3, <1>5, <1>7, <2>1, <3>2, <3>3
  <2>3. ASSUME num <= w * den
        PROVE  Round(num, den) <= w
    <3>1. CASE w >= 0
      BY <1>7, <2>1, <3>1
    <3>2. CASE w < 0
      <4>1. -w \in Nat /\ -w <= Exact /\ n >= (-w) * den
        BY <1>3, <1>4, <2>1, <2>3, <3>2
      <4>2. v >= -w
        BY <1>6, <4>1
      <4>3. QED
        BY <1>3, <1>5, <1>7, <2>1, <4>1, <4>2
    <3>3. QED
      BY <3>1, <3>2
  <2>4. QED
    BY <2>2, <2>3
<1>10. QED
  BY <1>8, <1>9

(* A whole number is a multiple of Scale.                                  *)
LEMMA WholeIsMultiple ==
  ASSUME NEW v \in Int
  PROVE  /\ IsWhole(v) <=> v = Scale * (v \div Scale)
         /\ \A k \in Int : v = k * Scale => IsWhole(v)
<1>1. Scale \in Nat /\ Scale > 0
  BY Extremes
<1>2. v \div Scale \in Int /\ v % Scale \in 0..Scale - 1 /\ v = (Scale * (v \div Scale)) + (v % Scale)
  BY <1>1, QuotientFacts
<1>3. IsWhole(v) <=> v = Scale * (v \div Scale)
  <2>1. Scale * (v \div Scale) \in Int
    BY <1>1, <1>2
  <2>2. QED
    BY <1>2, <2>1 DEF IsWhole
<1>4. ASSUME NEW k \in Int, v = k * Scale
      PROVE  IsWhole(v)
  <2> DEFINE q == v \div Scale
             r == v % Scale
  <2>1. q \in Int /\ r \in Int /\ 0 <= r /\ r < Scale /\ k * Scale = (q * Scale) + r
    BY <1>1, <1>2, <1>4
  <2> HIDE DEF q, r
  <2>2. q * Scale \in Int /\ k * Scale \in Int
    BY <1>1, <2>1
  <2>3. k * Scale < (q + 1) * Scale
    BY <1>1, <2>1, <2>2, Ordered
  <2>4. q <= k
    BY <1>1, <2>1, <2>2, Ordered
  <2>5. k < q + 1
    BY <1>1, <2>1, <2>3, Ordered
  <2>6. k = q
    BY <2>1, <2>4, <2>5
  <2>7. r = 0
    BY <2>1, <2>2, <2>6
  <2>8. QED
    BY <2>7 DEF IsWhole, r
<1>5. QED
  BY <1>3, <1>4

LEMMA WordFacts ==
  /\ IntBound \in Nat /\ Exact \in Nat /\ IntBound <= Exact /\ 0 \in Word /\ Scale \in Word
  /\ \A v \in Word :
       /\ v \in Int /\ -IntBound <= v /\ v <= IntBound /\ -Exact <= v /\ v <= Exact
       /\ IsWhole(v) /\ Finite(v) /\ ~Infinite(v) /\ v \in Double /\ v \in Doubles
       /\ v # NaN /\ v # NoPoint /\ v # Inf /\ v # -Inf
       /\ -v \in Word
       /\ \E k \in Int : v = k * Scale
  /\ \A k \in Int : -IntBound <= k * Scale /\ k * Scale <= IntBound => k * Scale \in Word
<1>1. /\ IntBound \in Nat /\ Exact \in Nat /\ IntBound <= Exact /\ Scale <= IntBound
      /\ Scale \in Nat /\ Scale > 0 /\ MaxD \in Nat /\ Exact < MaxD /\ MaxD < Inf /\ Inf \in Nat
  BY WordsAssumption, DoublesAssumption, Extremes
<1>2. ASSUME NEW k \in Int, -IntBound <= k * Scale, k * Scale <= IntBound
      PROVE  k * Scale \in Word
  <2>1. k * Scale \in Int
    BY <1>1
  <2>2. IsWhole(k * Scale)
    BY <2>1, WholeIsMultiple
  <2>3. QED
    BY <1>1, <1>2, <2>1, <2>2 DEF Word
<1>3. 0 \in Word /\ Scale \in Word
  <2>1. 0 * Scale = 0 /\ 1 * Scale = Scale
    BY <1>1
  <2>2. QED
    BY <1>1, <1>2, <2>1
<1>4. ASSUME NEW v \in Word
      PROVE  /\ v \in Int /\ -IntBound <= v /\ v <= IntBound /\ -Exact <= v /\ v <= Exact
             /\ IsWhole(v) /\ Finite(v) /\ ~Infinite(v) /\ v \in Double /\ v \in Doubles
             /\ v # NaN /\ v # NoPoint /\ v # Inf /\ v # -Inf
             /\ -v \in Word
             /\ \E k \in Int : v = k * Scale
  <2>1. v \in Int /\ -IntBound <= v /\ v <= IntBound /\ IsWhole(v)
    BY <1>1 DEF Word
  <2>2. -Exact <= v /\ v <= Exact
    BY <1>1, <2>1
  <2>3. Abs(v) <= Exact /\ Abs(v) \in Int
    BY <1>1, <2>1, <2>2 DEF Abs
  <2>4. v \in -MaxD..MaxD /\ v \in Double
    BY <1>1, <2>1, <2>2 DEF Double
  <2>5. Finite(v) /\ ~Infinite(v) /\ v \in Doubles
    BY <1>1, <2>3, <2>4 DEF Finite, Infinite, Doubles
  <2>6. v # NaN /\ v # NoPoint
    BY <2>4, Extremes
  <2>7. v # Inf /\ v # -Inf
    BY <1>1, <2>1, <2>2
  <2> DEFINE k == v \div Scale
  <2>8. k \in Int /\ v = k * Scale
    BY <1>1, <2>1, WholeIsMultiple, QuotientFacts
  <2> HIDE DEF k
  <2>9. -k \in Int /\ (-k) * Scale = -v
    BY <1>1, <2>8
  <2>10. -v \in Word
    BY <1>1, <1>2, <2>1, <2>9
  <2>11. QED
    BY <2>1, <2>2, <2>4, <2>5, <2>6, <2>7, <2>8, <2>10
<1>5. QED
  BY <1>1, <1>2, <1>3, <1>4

-----------------------------------------------------------------------------
(***************************************************************************)
(* A number of the domain holds an integer of the program.  Every operator *)
(* of the domain holds what the program computes from what its arguments   *)
(* hold.                                                                   *)
(***************************************************************************)
Holds(x, v) == x.lower <= v /\ v <= x.upper /\ v # x.excluded

LEMMA NumberFacts ==
  ASSUME NEW x \in AbstractNumber
  PROVE  /\ x.lower \in Int /\ x.upper \in Int /\ x.lower \in Double /\ x.upper \in Double
         /\ -Inf <= x.lower /\ x.lower <= Inf /\ -Inf <= x.upper /\ x.upper <= Inf
         /\ x.integer \in BOOLEAN /\ x.may_be_nan \in BOOLEAN
         /\ x.excluded \in Double \cup {NoPoint} /\ x.excluded \in Int
<1>1. /\ x.lower \in Double /\ x.upper \in Double /\ x.excluded \in Double \cup {NoPoint}
      /\ x.integer \in BOOLEAN /\ x.may_be_nan \in BOOLEAN
  BY DEF AbstractNumber
<1>2. NoPoint \in Int
  BY DEF NoPoint
<1>3. QED
  BY <1>1, <1>2, Extremes

LEMMA HoldsWithin ==
  ASSUME NEW x \in AbstractNumber, NEW y \in AbstractNumber, Within(x, y),
         NEW v \in Word, Holds(x, v)
  PROVE  Holds(y, v)
<1>1. /\ v \in Int /\ IsWhole(v) /\ v # NoPoint
      /\ x.lower \in Int /\ x.upper \in Int /\ y.lower \in Int /\ y.upper \in Int
  BY WordFacts, NumberFacts
<1>2. v # y.excluded
  BY <1>1 DEF Within, Holds, point_excluded
<1>3. QED
  BY <1>1, <1>2 DEF Within, Holds

LEMMA AsDoubleOfWord ==
  ASSUME NEW v \in Word
  PROVE  AsDouble(v) = v
<1>1. v \in Int /\ -Exact <= v /\ v <= Exact /\ v * 1 = v
  BY WordFacts
<1>2. Round(v, 1) \in Double
  BY <1>1, RoundIsDouble
<1>3. Round(v, 1) <= v /\ Round(v, 1) >= v
  BY <1>1, RoundKeepsOrder
<1>4. AsDouble(v) \in Double /\ AsDouble(v) <= v /\ AsDouble(v) >= v
  BY <1>2, <1>3 DEF AsDouble
<1>5. \A d \in Double : d \in Int
  BY Extremes
<1>6. QED
  BY <1>1, <1>4, <1>5

LEMMA ConstantsHold ==
  ASSUME NEW v \in Word
  PROVE  /\ Holds(unknown, v) /\ Holds(any_integer, v) /\ Holds(constant(v), v)
         /\ v \in {0, Scale} => Holds(boolean, v)
<1>1. v \in Int /\ v # NoPoint /\ -Inf <= v /\ v <= Inf /\ Scale \in Nat
  BY WordFacts, Extremes
<1>2. QED
  BY <1>1 DEF Holds, unknown, any_integer, constant, boolean, Plain

LEMMA NegationHolds ==
  ASSUME NEW x \in AbstractNumber, NEW v \in Word, Holds(x, v)
  PROVE  Holds(negate(x), -v)
<1>1. v \in Int /\ -v # NoPoint /\ x.lower \in Int /\ x.upper \in Int /\ x.excluded \in Int
  BY WordFacts, NumberFacts
<1>2. /\ negate(x).lower = -x.upper /\ negate(x).upper = -x.lower
      /\ negate(x).excluded = IF x.excluded = NoPoint THEN NoPoint ELSE -x.excluded
  BY DEF negate, AbstractNumber
<1>3. QED
  BY <1>1, <1>2 DEF Holds

(* A lower bound of a sum, and an upper one.                               *)
LEMMA SumOfBounds ==
  ASSUME NEW a \in Double, NEW b \in Double, NEW v \in Word, NEW w \in Word, v + w \in Word
  PROVE  /\ a <= v /\ b <= w => Known(FAdd(a, b), -Inf) <= v + w
         /\ a >= v /\ b >= w => Known(FAdd(a, b), Inf) >= v + w
<1>1. /\ a \in Int /\ b \in Int /\ v \in Int /\ w \in Int
      /\ -Inf <= v + w /\ v + w <= Inf /\ -Exact <= v + w /\ v + w <= Exact
      /\ v # Inf /\ v # -Inf /\ w # Inf /\ w # -Inf /\ -Inf <= v /\ v <= Inf /\ -Inf <= w /\ w <= Inf
      /\ Inf \in Nat /\ -Inf <= a /\ a <= Inf /\ -Inf <= b /\ b <= Inf
  BY WordFacts, Extremes
<1>2. NaN \notin {a, b}
  BY Extremes
<1>3. /\ a + b <= v + w => Round(a + b, 1) <= v + w
      /\ a + b >= v + w => Round(a + b, 1) >= v + w
  <2>1. (v + w) * 1 = v + w
    BY <1>1
  <2>2. QED
    BY <1>1, <2>1, RoundKeepsOrder
<1>4. FAdd(a, b) = IF Infinite(a) /\ b = -a THEN NaN
                   ELSE IF Infinite(a) THEN a
                   ELSE IF Infinite(b) THEN b
                   ELSE Round(a + b, 1)
  BY <1>2 DEF FAdd
<1>5. (Infinite(a) <=> a \in {Inf, -Inf}) /\ (Infinite(b) <=> b \in {Inf, -Inf})
  BY <1>1 DEF Infinite, Abs
<1>6. ASSUME a <= v, b <= w
      PROVE  Known(FAdd(a, b), -Inf) <= v + w
  <2>1. a # Inf /\ b # Inf
    BY <1>1, <1>6
  <2>2. a + b <= v + w
    BY <1>1, <1>6
  <2>3. CASE Infinite(a) \/ Infinite(b)
    <3>1. Known(FAdd(a, b), -Inf) = -Inf
      BY <1>1, <1>4, <1>5, <2>1, <2>3 DEF Known
    <3>2. QED
      BY <1>1, <3>1
  <2>4. CASE ~(Infinite(a) \/ Infinite(b))
    BY <1>1, <1>3, <1>4, <2>2, <2>4 DEF Known
  <2>5. QED
    BY <2>3, <2>4
<1>7. ASSUME a >= v, b >= w
      PROVE  Known(FAdd(a, b), Inf) >= v + w
  <2>1. a # -Inf /\ b # -Inf
    BY <1>1, <1>7
  <2>2. a + b >= v + w
    BY <1>1, <1>7
  <2>3. CASE Infinite(a) \/ Infinite(b)
    <3>1. Known(FAdd(a, b), Inf) = Inf
      BY <1>1, <1>4, <1>5, <2>1, <2>3 DEF Known
    <3>2. QED
      BY <1>1, <3>1
  <2>4. CASE ~(Infinite(a) \/ Infinite(b))
    BY <1>1, <1>3, <1>4, <2>2, <2>4 DEF Known
  <2>5. QED
    BY <2>3, <2>4
<1>8. QED
  BY <1>6, <1>7

LEMMA CutHolds ==
  ASSUME NEW x \in AbstractNumber, NEW cut \in BOOLEAN, NEW v \in Word, Holds(x, v),
         cut => v # 0
  PROVE  Holds(CutZero(x, cut), v)
<1>1. /\ CutZero(x, cut).lower = x.lower /\ CutZero(x, cut).upper = x.upper
      /\ CutZero(x, cut).excluded \in {x.excluded} \cup (IF cut THEN {0} ELSE {})
  BY DEF CutZero, AbstractNumber
<1>2. QED
  BY <1>1 DEF Holds

(* A point that is excluded is no integer that is held.                    *)
LEMMA ExcludedIsNotHeld ==
  ASSUME NEW x \in AbstractNumber, NEW v \in Word, Holds(x, v)
  PROVE  ~point_excluded(x, v)
<1>1. v \in Int /\ IsWhole(v) /\ x.lower \in Int /\ x.upper \in Int
  BY WordFacts, NumberFacts
<1>2. QED
  BY <1>1 DEF Holds, point_excluded

LEMMA SumHolds ==
  ASSUME NEW x \in AbstractNumber, NEW y \in AbstractNumber,
         NEW v \in Word, NEW w \in Word, Holds(x, v), Holds(y, w), v + w \in Word
  PROVE  Holds(add(x, y), v + w)
<1> DEFINE lo == Known(FAdd(x.lower, y.lower), -Inf)
           hi == Known(FAdd(x.upper, y.upper), Inf)
           nan == \/ x.may_be_nan \/ y.may_be_nan
                  \/ (x.upper = Inf /\ y.lower = -Inf) \/ (x.lower = -Inf /\ y.upper = Inf)
           sum == Plain(lo, hi, x.integer /\ y.integer, nan)
           cut == IF IsPoint(y) THEN point_excluded(x, -y.lower)
                  ELSE IsPoint(x) /\ point_excluded(y, -x.lower)
<1>1. /\ x.lower \in Double /\ x.upper \in Double /\ y.lower \in Double /\ y.upper \in Double
      /\ x.lower \in Int /\ x.upper \in Int /\ y.lower \in Int /\ y.upper \in Int
      /\ v \in Int /\ w \in Int
  BY NumberFacts, WordFacts
<1>2. lo \in Double /\ hi \in Double
  BY <1>1, SumIsDouble, Extremes DEF Known
<1>3. lo <= v + w /\ v + w <= hi
  <2>1. lo <= v + w
    BY <1>1, SumOfBounds DEF Holds
  <2>2. hi >= v + w
    BY <1>1, SumOfBounds DEF Holds
  <2> HIDE DEF lo, hi
  <2>3. QED
    BY <1>1, <1>2, <2>1, <2>2, Extremes
<1> HIDE DEF lo, hi
<1>4. sum \in AbstractNumber
  BY <1>2, NumberFacts, PlainIsNumber
<1>5. Holds(sum, v + w)
  BY <1>3, WordFacts DEF Holds, Plain
<1>6. cut => v + w # 0
  <2>1. CASE IsPoint(y)
    <3>1. w = y.lower
      BY <1>1, <2>1 DEF IsPoint, Holds
    <3>2. v + w = 0 => v = -y.lower
      BY <1>1, <3>1
    <3>3. QED
      BY <2>1, <3>2, ExcludedIsNotHeld
  <2>2. CASE ~IsPoint(y) /\ IsPoint(x)
    <3>1. v = x.lower
      BY <1>1, <2>2 DEF IsPoint, Holds
    <3>2. v + w = 0 => w = -x.lower
      BY <1>1, <3>1
    <3>3. QED
      BY <2>2, <3>2, ExcludedIsNotHeld
  <2>3. QED
    BY <2>1, <2>2
<1>7. cut \in BOOLEAN
  BY DEF point_excluded
<1>8. add(x, y) = CutZero(sum, cut)
  BY DEF add, lo, hi
<1> HIDE DEF sum, cut
<1>9. QED
  BY <1>4, <1>5, <1>6, <1>7, <1>8, CutHolds

LEMMA DifferenceHolds ==
  ASSUME NEW x \in AbstractNumber, NEW y \in AbstractNumber,
         NEW v \in Word, NEW w \in Word, Holds(x, v), Holds(y, w), v - w \in Word
  PROVE  Holds(sub(x, y), v - w)
<1>1. v \in Int /\ w \in Int /\ -w \in Word /\ v + (-w) = v - w
  BY WordFacts
<1>2. negate(y) \in AbstractNumber /\ Holds(negate(y), -w)
  BY NegationIsNumber, NegationHolds
<1>3. QED
  BY <1>1, <1>2, SumHolds DEF sub

(* The product of two numbers between bounds lies between products of the  *)
(* bounds.                                                                 *)
LEMMA TimesSigned ==
  ASSUME NEW a \in Int, NEW b \in Int, a <= b, NEW d \in Int
  PROVE  (d >= 0 => a * d <= b * d) /\ (d <= 0 => b * d <= a * d)
<1>1. d >= 0 => a * d <= b * d
  BY Ordered
<1>2. ASSUME d <= 0
      PROVE  b * d <= a * d
  <2>1. -d \in Nat /\ a * (-d) <= b * (-d)
    BY <1>2, Ordered
  <2>2. a * (-d) = -(a * d) /\ b * (-d) = -(b * d) /\ a * d \in Int /\ b * d \in Int
    OBVIOUS
  <2>3. QED
    BY <2>1, <2>2
<1>3. QED
  BY <1>1, <1>2

LEMMA CornersAround ==
  ASSUME NEW x \in AbstractNumber, NEW y \in AbstractNumber,
         NEW v \in Word, NEW w \in Word, Holds(x, v), Holds(y, w)
  PROVE  /\ \E c \in Ends(x), d \in Ends(y) : c * d <= v * w
         /\ \E c \in Ends(x), d \in Ends(y) : c * d >= v * w
<1>1. /\ x.lower \in Int /\ x.upper \in Int /\ y.lower \in Int /\ y.upper \in Int
      /\ v \in Int /\ w \in Int
      /\ x.lower <= v /\ v <= x.upper /\ y.lower <= w /\ w <= y.upper
  BY NumberFacts, WordFacts DEF Holds
<1>2. ASSUME NEW c \in Int, NEW d \in Int
      PROVE  c * d = d * c /\ c * d \in Int /\ c * w = w * c /\ c * w \in Int /\ v * w \in Int
  BY <1>1
<1>3. \E c \in Ends(x), d \in Ends(y) : c * d <= v * w
  <2>1. PICK c \in {x.lower, x.upper} : c * w <= v * w
    <3>1. CASE w >= 0
      BY <1>1, <3>1, TimesSigned
    <3>2. CASE w <= 0
      BY <1>1, <3>2, TimesSigned
    <3>3. QED
      BY <1>1, <3>1, <3>2
  <2>2. PICK d \in {y.lower, y.upper} : d * c <= w * c
    <3>1. CASE c >= 0
      BY <1>1, <3>1, TimesSigned
    <3>2. CASE c <= 0
      BY <1>1, <3>2, TimesSigned
    <3>3. QED
      BY <1>1, <3>1, <3>2
  <2>3. c * d <= v * w
    <3>1. c \in Int /\ d \in Int
      BY <1>1
    <3>2. QED
      BY <1>2, <2>1, <2>2, <3>1
  <2>4. QED
    BY <2>3 DEF Ends
<1>4. \E c \in Ends(x), d \in Ends(y) : c * d >= v * w
  <2>1. PICK c \in {x.lower, x.upper} : c * w >= v * w
    <3>1. CASE w >= 0
      BY <1>1, <3>1, TimesSigned
    <3>2. CASE w <= 0
      BY <1>1, <3>2, TimesSigned
    <3>3. QED
      BY <1>1, <3>1, <3>2
  <2>2. PICK d \in {y.lower, y.upper} : d * c >= w * c
    <3>1. CASE c >= 0
      BY <1>1, <3>1, TimesSigned
    <3>2. CASE c <= 0
      BY <1>1, <3>2, TimesSigned
    <3>3. QED
      BY <1>1, <3>1, <3>2
  <2>3. c * d >= v * w
    <3>1. c \in Int /\ d \in Int
      BY <1>1
    <3>2. QED
      BY <1>2, <2>1, <2>2, <3>1
  <2>4. QED
    BY <2>3 DEF Ends
<1>5. QED
  BY <1>3, <1>4

(* The numbers spread over doubles hold what lies between two of them.     *)
LEMMA SpreadHolds ==
  ASSUME NEW S, S \subseteq Double \cup {NaN}, NEW int \in BOOLEAN, NEW v \in Word,
         NEW a \in S, NEW b \in S, a # NaN, b # NaN, a <= v, v <= b
  PROVE  Holds(Spread(S, int), v)
<1> DEFINE R == S \ {NaN}
<1>1. R \subseteq Double /\ (\A u \in R : u \in Int /\ -Inf <= u /\ u <= Inf) /\ a \in R /\ b \in R
  BY Extremes
<1>2. Spread(S, int) = Plain(Min(R), Max(R), int, FALSE)
  BY <1>1 DEF Spread
<1> HIDE DEF R
<1>3. /\ Min(R) \in Int /\ Max(R) \in Int /\ Min(R) <= a /\ Max(R) >= b
  <2>1. Inf \in Int /\ -Inf \in Int
    BY Extremes
  <2>2. Min(R) \in R /\ \A u \in R : Min(R) <= u
    BY <1>1, <2>1, LeastOf
  <2>3. Max(R) \in R /\ \A u \in R : Max(R) >= u
    BY <1>1, <2>1, GreatestOf
  <2>4. QED
    BY <1>1, <2>2, <2>3
<1>4. v \in Int /\ v # NoPoint /\ a \in Int /\ b \in Int
  BY <1>1, WordFacts
<1>5. Min(R) <= v /\ v <= Max(R)
  BY <1>3, <1>4
<1>6. QED
  BY <1>2, <1>4, <1>5 DEF Holds, Plain

LEMMA FiniteProduct ==
  ASSUME NEW a \in Double, NEW b \in Double, Finite(a), Finite(b)
  PROVE  FMul(a, b) = Round(a * b, Scale) /\ FMul(a, b) # NaN
<1>1. ~Infinite(a) /\ ~Infinite(b) /\ a # NaN /\ b # NaN /\ a \in Int /\ b \in Int /\ a * b \in Int
  BY Extremes DEF Finite, Infinite
<1>2. FMul(a, b) = Round(a * b, Scale)
  BY <1>1 DEF FMul
<1>3. QED
  BY <1>1, <1>2, RoundIsDouble, Extremes

LEMMA ProductHolds ==
  ASSUME NEW x \in AbstractNumber, NEW y \in AbstractNumber,
         NEW v \in Word, NEW w \in Word, Holds(x, v), Holds(y, w),
         (v * w) \div Scale \in Word
  PROVE  Holds(mul(x, y), (v * w) \div Scale)
<1> DEFINE p == (v * w) \div Scale
           corners == {FMul(ab[1], ab[2]) : ab \in Ends(x) \X Ends(y)}
           int == x.integer /\ y.integer
           spread == Spread(corners, int)
           cut == IF IsPoint(y) THEN Abs(y.lower) >= Scale /\ point_excluded(x, 0)
                  ELSE IsPoint(x) /\ Abs(x.lower) >= Scale /\ point_excluded(y, 0)
<1>1. /\ x.lower \in Double /\ x.upper \in Double /\ y.lower \in Double /\ y.upper \in Double
      /\ x.lower \in Int /\ x.upper \in Int /\ y.lower \in Int /\ y.upper \in Int
      /\ v \in Int /\ w \in Int /\ v * w \in Int /\ Scale \in Nat /\ Scale > 0
      /\ int \in BOOLEAN /\ NoPoint # 0
  BY NumberFacts, WordFacts, Extremes
<1>2. v * w = p * Scale /\ p \in Int
  <2>1. PICK i \in Int : v = i * Scale
    BY WordFacts
  <2>2. i * w \in Int /\ v * w = (i * w) * Scale
    BY <1>1, <2>1
  <2>3. IsWhole(v * w)
    BY <1>1, <2>2, WholeIsMultiple
  <2>4. v * w = Scale * p
    BY <1>1, <2>3, WholeIsMultiple
  <2>5. p \in Int
    BY WordFacts
  <2> HIDE DEF p
  <2>6. QED
    BY <1>1, <2>4, <2>5
<1>3. CASE ~safe_operands(x, y)
  BY <1>3, ConstantsHold DEF mul
<1>4. CASE safe_operands(x, y)
  <2>1. \A c \in Ends(x), d \in Ends(y) :
          /\ FMul(c, d) = Round(c * d, Scale) /\ FMul(c, d) # NaN /\ FMul(c, d) \in corners
          /\ c \in Int /\ d \in Int /\ c * d \in Int
    <3>1. \A c \in Ends(x), d \in Ends(y) : FMul(c, d) \in corners
      <4>1. ASSUME NEW c \in Ends(x), NEW d \in Ends(y)
            PROVE  FMul(c, d) \in corners
        <5>1. <<c, d>> \in Ends(x) \X Ends(y) /\ <<c, d>>[1] = c /\ <<c, d>>[2] = d
          OBVIOUS
        <5>2. QED
          BY <5>1
      <4>2. QED
        BY <4>1
    <3>2. \A c \in Ends(x) : c \in Double /\ Finite(c) /\ c \in Int
      BY <1>1, <1>4 DEF Ends, safe_operands, IsFinite
    <3>3. \A d \in Ends(y) : d \in Double /\ Finite(d) /\ d \in Int
      BY <1>1, <1>4 DEF Ends, safe_operands, IsFinite
    <3> HIDE DEF corners
    <3>4. QED
      BY <3>1, <3>2, <3>3, FiniteProduct
  <2>2. p \in Int /\ -Exact <= p /\ p <= Exact
    BY WordFacts
  <2> HIDE DEF corners, p
  <2>3. PICK a \in corners : a # NaN /\ a <= p
    <3>1. PICK c \in Ends(x), d \in Ends(y) : c * d <= v * w
      BY CornersAround
    <3>2. Round(c * d, Scale) <= p
      BY <1>1, <1>2, <2>1, <2>2, <3>1, RoundKeepsOrder
    <3>3. FMul(c, d) \in corners /\ FMul(c, d) # NaN /\ FMul(c, d) <= p
      BY <2>1, <3>2
    <3>4. QED
      BY <3>3
  <2>4. PICK b \in corners : b # NaN /\ b >= p
    <3>1. PICK c \in Ends(x), d \in Ends(y) : c * d >= v * w
      BY CornersAround
    <3>2. Round(c * d, Scale) >= p
      BY <1>1, <1>2, <2>1, <2>2, <3>1, RoundKeepsOrder
    <3>3. FMul(c, d) \in corners /\ FMul(c, d) # NaN /\ FMul(c, d) >= p
      BY <2>1, <3>2
    <3>4. QED
      BY <3>3
  <2>5. corners \subseteq Double \cup {NaN}
    BY EndsAreDoubles DEF corners
  <2>6. p <= b
    BY <2>2, <2>4, <2>5, Extremes
  <2>7. p \in Word
    BY DEF p
  <2>8. spread \in AbstractNumber
    BY <1>1, <2>5, SpreadIsNumber
  <2>9. Holds(spread, p)
    BY <1>1, <2>3, <2>4, <2>5, <2>6, <2>7, SpreadHolds
  <2>10. cut \in BOOLEAN /\ (cut => p # 0)
    <3>1. ASSUME cut
          PROVE  p # 0
      <4>1. v # 0 /\ w # 0
        <5>1. CASE IsPoint(y)
          <6>1. w = y.lower /\ Abs(w) >= Scale /\ point_excluded(x, 0)
            BY <1>1, <3>1, <5>1 DEF IsPoint, Holds
          <6>2. w \in Int /\ Scale \in Int /\ Scale > 0
            BY <1>1
          <6>3. w # 0
            BY <6>1, <6>2 DEF Abs
          <6>4. QED
            BY <6>1, <6>3, ExcludedIsNotHeld
        <5>2. CASE ~IsPoint(y)
          <6>1. v = x.lower /\ Abs(v) >= Scale /\ point_excluded(y, 0)
            BY <1>1, <3>1, <5>2 DEF IsPoint, Holds
          <6>2. v \in Int /\ Scale \in Int /\ Scale > 0
            BY <1>1
          <6>3. v # 0
            BY <6>1, <6>2 DEF Abs
          <6>4. QED
            BY <6>1, <6>3, ExcludedIsNotHeld
        <5>3. QED
          BY <5>1, <5>2
      <4>2. v * w # 0
        BY <1>1, <4>1
      <4>3. QED
        BY <1>1, <1>2, <4>2
    <3>2. cut \in BOOLEAN
      BY DEF point_excluded
    <3>3. QED
      BY <3>1, <3>2
  <2>11. mul(x, y) = CutZero(spread, cut)
    BY <1>4 DEF mul, corners
  <2> HIDE DEF spread, cut
  <2>12. Holds(mul(x, y), p)
    BY <2>7, <2>8, <2>9, <2>10, <2>11, CutHolds
  <2>13. QED
    BY <2>12 DEF p
<1>5. QED
  BY <1>3, <1>4

(* The remainder of two integers: of the dividend's sign, no larger than   *)
(* the dividend and at least one below the divisor.                        *)
LEMMA RemainderFacts ==
  ASSUME NEW v \in Word, NEW w \in Word, w # 0
  PROVE  /\ Remainder(v, w) \in Word
         /\ Abs(Remainder(v, w)) <= Abs(v) /\ Abs(Remainder(v, w)) <= Abs(w) - Scale
         /\ v >= 0 => Remainder(v, w) >= 0
         /\ v <= 0 => Remainder(v, w) <= 0
<1> DEFINE n == Abs(v)
           d == Abs(w)
           q == n \div d
           r == n % d
           s == Sign(v)
<1>1. /\ v \in Int /\ w \in Int /\ Scale \in Nat /\ Scale > 0
      /\ -IntBound <= v /\ v <= IntBound /\ IntBound \in Nat
  BY WordFacts, Extremes
<1>2. n \in Nat /\ d \in Nat /\ d > 0 /\ n <= IntBound
  BY <1>1 DEF Abs
<1>3. /\ s \in {-1, 1} /\ v = s * n /\ (v >= 0 => s = 1) /\ (v < 0 => s = -1)
      /\ Sign(w) \in {-1, 1} /\ w * Sign(w) = d
  BY <1>1 DEF Abs, Sign
<1>4. q \in Nat /\ r \in Nat /\ r < d /\ n = (d * q) + r
  <2> HIDE DEF n, d
  <2>1. QED
    BY <1>2, QuotientFacts
<1>5. Remainder(v, w) = v - w * (s * Sign(w) * q)
  BY DEF Remainder, Truncated
<1> HIDE DEF n, d, q, r, s
<1>6. d * q \in Nat
  BY <1>2, <1>4, ProductOfNaturals
<1>7. Remainder(v, w) = s * r
  <2>1. w * (s * Sign(w) * q) = s * (d * q)
    BY <1>1, <1>2, <1>3, <1>4
  <2> DEFINE m == d * q
  <2>2. s * n - s * m = s * (n - m)
    BY <1>2, <1>3, <1>6
  <2> HIDE DEF m
  <2>3. n - m = r
    BY <1>2, <1>4, <1>6 DEF m
  <2>4. QED
    BY <1>3, <1>5, <2>1, <2>2, <2>3 DEF m
<1>8. r <= n
  BY <1>2, <1>4, <1>6
<1>9. PICK i \in Int, j \in Int : n = i * Scale /\ d = j * Scale
  <2>1. n \in Word /\ d \in Word
    BY WordFacts DEF n, d, Abs
  <2>2. QED
    BY <2>1, WordFacts
<1>10. PICK m \in Int : r = m * Scale
  <2>1. i - j * q \in Int
    BY <1>4, <1>9
  <2>2. (i - j * q) * Scale = i * Scale - (j * Scale) * q
    BY <1>1, <1>4, <1>9
  <2>3. r = n - d * q
    BY <1>2, <1>4, <1>6
  <2>4. QED
    BY <1>9, <2>1, <2>2, <2>3
<1>11. r <= d - Scale
  <2>1. m < j
    BY <1>1, <1>4, <1>9, <1>10, Ordered
  <2>2. m * Scale <= (j - 1) * Scale /\ (j - 1) * Scale = j * Scale - Scale
    <3>1. j - 1 \in Int /\ m <= j - 1
      BY <2>1
    <3>2. QED
      BY <1>1, <3>1, Ordered
  <2>3. QED
    BY <1>9, <1>10, <2>2
<1>12. r \in Word /\ s * r \in Word
  <2>1. -IntBound <= r /\ r <= IntBound
    BY <1>1, <1>2, <1>4, <1>8
  <2>2. r \in Word
    BY <1>10, <2>1, WordFacts
  <2>3. s * r \in {r, -r}
    BY <1>3, <1>4
  <2>4. QED
    BY <2>2, <2>3, WordFacts
<1>13. Abs(s * r) = r /\ (v >= 0 => s * r >= 0) /\ (v <= 0 => s * r <= 0)
  <2>1. CASE v >= 0
    <3>1. s * r = r
      BY <1>3, <1>4, <2>1
    <3>2. v <= 0 => r = 0
      BY <1>1, <1>2, <1>3, <1>4, <1>8, <2>1
    <3>3. QED
      BY <1>4, <3>1, <3>2 DEF Abs
  <2>2. CASE v < 0
    <3>1. s * r = -r
      BY <1>3, <1>4, <2>2
    <3>2. QED
      BY <1>1, <1>4, <2>2, <3>1 DEF Abs
  <2>3. QED
    BY <1>1, <2>1, <2>2
<1>14. QED
  BY <1>7, <1>8, <1>11, <1>12, <1>13 DEF n, d

LEMMA MagnitudeHolds ==
  ASSUME NEW x \in AbstractNumber, NEW v \in Word, Holds(x, v)
  PROVE  Magnitude(x) \in Int /\ Abs(v) <= Magnitude(x)
<1>1. x.lower \in Int /\ x.upper \in Int /\ v \in Int
  BY NumberFacts, WordFacts
<1>2. QED
  BY <1>1 DEF Magnitude, Greater, Abs, Holds

LEMMA RemainderHolds ==
  ASSUME NEW x \in AbstractNumber, NEW y \in AbstractNumber,
         NEW v \in Word, NEW w \in Word, Holds(x, v), Holds(y, w), w # 0, NEW nonzero
  PROVE  Holds(rem(x, y, nonzero), Remainder(v, w))
<1> DEFINE R == Remainder(v, w)
           int == x.integer /\ y.integer
           less == FAdd(Magnitude(y), -Scale)
           divisor == IF int /\ Finite(Magnitude(y)) THEN Greater(less, 0) ELSE Magnitude(y)
           bound == Lesser(Magnitude(x), divisor)
           nan == (~nonzero /\ includes_zero(y)) \/ ~IsFinite(x)
<1>1. /\ R \in Word /\ Abs(R) <= Abs(v) /\ Abs(R) <= Abs(w) - Scale
      /\ (v >= 0 => R >= 0) /\ (v <= 0 => R <= 0)
  BY RemainderFacts
<1>2. /\ Magnitude(x) \in Int /\ Abs(v) <= Magnitude(x)
      /\ Magnitude(y) \in Int /\ Abs(w) <= Magnitude(y)
  BY MagnitudeHolds
<1>3. /\ v \in Int /\ w \in Int /\ Scale \in Nat /\ Scale > 0
      /\ x.lower \in Int /\ x.upper \in Int /\ x.lower <= v /\ v <= x.upper
  BY NumberFacts, WordFacts, Extremes DEF Holds
<1>4. Abs(v) \in Word /\ Abs(w) \in Word /\ -Scale \in Word /\ Abs(v) \in Int /\ Abs(w) \in Int
  BY WordFacts DEF Abs
<1> HIDE DEF R
<1>5. R \in Int /\ R # NoPoint /\ Abs(R) \in Int
  BY <1>1, WordFacts DEF Abs
<1>6. Abs(w) - Scale <= divisor /\ divisor \in Int
  <2>1. CASE ~(int /\ Finite(Magnitude(y)))
    BY <1>2, <1>3, <1>4, <2>1
  <2>2. CASE int /\ Finite(Magnitude(y))
    <3>1. Magnitude(y) \in Double /\ -Scale \in Double /\ ~Infinite(-Scale)
      BY MagnitudeIsDouble, Extremes, <1>4, WordFacts
    <3>2. less \in Double
      BY <3>1, SumIsDouble
    <3>3. Known(less, Inf) = less /\ less \in Int
      BY <3>2, Extremes DEF Known
    <3>4. Abs(w) + (-Scale) \in Word
      <4>1. Abs(w) - Scale >= 0 /\ Abs(w) - Scale <= IntBound
        <5>1. PICK j \in Int : Abs(w) = j * Scale
          BY <1>4, WordFacts
        <5>2. Abs(w) > 0
          BY <1>3 DEF Abs
        <5>3. 0 * Scale < j * Scale
          BY <1>3, <5>1, <5>2
        <5>4. 0 < j
          BY <1>3, <5>3, Ordered
        <5>5. 1 * Scale <= j * Scale /\ 1 * Scale = Scale
          BY <1>3, <5>4, Ordered
        <5>6. Abs(w) <= IntBound /\ IntBound \in Int
          BY <1>4, WordFacts
        <5>7. QED
          BY <1>3, <1>4, <5>1, <5>5, <5>6
      <4>2. PICK j \in Int : Abs(w) = j * Scale
        BY <1>4, WordFacts
      <4>3. (j - 1) * Scale = Abs(w) - Scale /\ j - 1 \in Int
        BY <1>3, <4>2, Ordered
      <4>4. IntBound \in Nat /\ Abs(w) - Scale = Abs(w) + (-Scale)
        BY <1>3, <1>4, WordFacts
      <4>5. QED
        BY <4>1, <4>3, <4>4, WordFacts
    <3>5. Known(less, Inf) >= Abs(w) + (-Scale)
      <4>1. Magnitude(y) >= Abs(w) /\ -Scale >= -Scale
        BY <1>2, <1>3, <1>4
      <4>2. QED
        BY <1>4, <3>1, <3>4, <4>1, SumOfBounds
    <3>6. less >= Abs(w) - Scale
      BY <1>3, <1>4, <3>3, <3>5
    <3> HIDE DEF less
    <3>7. QED
      BY <1>3, <1>4, <2>2, <3>3, <3>6 DEF Greater
  <2>3. QED
    BY <2>1, <2>2
<1>7. CASE x.may_be_nan \/ y.may_be_nan
  BY <1>1, <1>7, ConstantsHold DEF rem, R
<1>8. CASE ~(x.may_be_nan \/ y.may_be_nan)
  <2>1. rem(x, y, nonzero) = Plain(IF x.lower < 0 THEN -bound ELSE 0,
                                   IF x.upper > 0 THEN bound ELSE 0, int, nan)
    BY <1>8 DEF rem
  <2> HIDE DEF divisor, nan
  <2>2. Abs(R) <= bound /\ bound \in Int
    BY <1>1, <1>2, <1>3, <1>4, <1>5, <1>6 DEF Lesser
  <2> HIDE DEF bound
  <2>3. -bound <= R /\ R <= bound
    BY <1>5, <2>2 DEF Abs
  <2>4. Holds(Plain(IF x.lower < 0 THEN -bound ELSE 0, IF x.upper > 0 THEN bound ELSE 0, int, nan), R)
    BY <1>1, <1>3, <1>5, <2>2, <2>3 DEF Holds, Plain
  <2>5. QED
    BY <2>1, <2>4 DEF R
<1>9. QED
  BY <1>7, <1>8

-----------------------------------------------------------------------------
(***************************************************************************)
(* What a comparison that came out true leaves of a number still holds the *)
(* value compared.                                                         *)
(***************************************************************************)
LEMMA WholeSteps ==
  ASSUME NEW v \in Word, NEW k \in Word, k < v
  PROVE  k + Scale <= v
<1>1. PICK i \in Int, j \in Int : v = i * Scale /\ k = j * Scale
  BY WordFacts
<1>2. Scale \in Nat /\ Scale > 0
  BY Extremes
<1>3. j < i
  BY <1>1, <1>2, Ordered
<1>4. j + 1 \in Int /\ j + 1 <= i
  BY <1>3
<1>5. (j + 1) * Scale <= i * Scale /\ (j + 1) * Scale = j * Scale + Scale
  BY <1>2, <1>4, Ordered
<1>6. QED
  BY <1>1, <1>5

LEMMA NextUpHolds ==
  ASSUME NEW v \in Word, NEW k \in Word, k < v
  PROVE  next_up(k) <= v
<1> DEFINE above == {w \in Doubles : w > k}
<1>1. v \in Int /\ k \in Int /\ k \in Double /\ k # Inf /\ k # -Inf /\ k # NaN /\ k <= Exact /\ v \in Doubles
  BY WordFacts
<1>2. Exact \in Nat /\ MaxD \in Nat /\ Exact < MaxD
  BY DoublesAssumption
<1>3. next_up(k) = Min(above)
  BY <1>1, <1>2 DEF next_up
<1>4. v \in above /\ \A w \in above : w \in Int /\ k <= w
  BY <1>1, <1>2 DEF Doubles
<1> HIDE DEF above
<1>5. Min(above) <= v
  BY <1>1, <1>4, LeastOf
<1>6. QED
  BY <1>3, <1>5

LEMMA StepsHold ==
  ASSUME NEW x, NEW v \in Word, NEW k \in Word
  PROVE  /\ After(x, k) \in Int /\ Before(x, k) \in Int
         /\ k < v => After(x, k) <= v
         /\ v < k => v <= Before(x, k)
<1>1. /\ v \in Int /\ k \in Int /\ k \in Double /\ v * 1 = v /\ -Exact <= v /\ v <= Exact
      /\ Scale \in Nat /\ -k \in Word /\ -v \in Word /\ Scale \in Word /\ -Scale \in Word
  BY WordFacts, Extremes
<1>2. After(x, k) \in Int /\ Before(x, k) \in Int
  BY <1>1, StepsAreDoubles, Extremes
<1>3. FAdd(k, Scale) = Round(k + Scale, 1) /\ FAdd(k, -Scale) = Round(k + (-Scale), 1)
  BY <1>1, WordFacts DEF FAdd
<1>4. ASSUME k < v
      PROVE  After(x, k) <= v
  <2>1. FAdd(k, Scale) <= v
    <3>1. k + Scale <= v * 1 /\ k + Scale \in Int
      BY <1>1, <1>4, WholeSteps
    <3>2. QED
      BY <1>1, <1>3, <3>1, RoundKeepsOrder
  <2>2. next_up(k) <= v
    BY <1>4, NextUpHolds
  <2>3. QED
    BY <2>1, <2>2 DEF After
<1>5. ASSUME v < k
      PROVE  v <= Before(x, k)
  <2>1. FAdd(k, -Scale) >= v
    <3>1. v + Scale <= k
      BY <1>5, WholeSteps
    <3>2. k + (-Scale) >= v * 1 /\ k + (-Scale) \in Int
      BY <1>1, <3>1
    <3>3. QED
      BY <1>1, <1>3, <3>2, RoundKeepsOrder
  <2>2. next_up(-k) <= -v
    <3>1. -k < -v
      BY <1>1, <1>5
    <3>2. QED
      BY <1>1, <3>1, NextUpHolds
  <2>3. next_down(k) >= v
    <3>1. -k \in Double
      BY <1>1, Extremes
    <3>2. next_up(-k) \in Int
      BY <3>1, NeighboursAreDoubles, Extremes
    <3>3. QED
      BY <1>1, <2>2, <3>2 DEF next_down
  <2>4. Before(x, k) >= v
    BY <2>1, <2>3 DEF Before
  <2>5. QED
    BY <1>1, <1>2, <2>4
<1>6. QED
  BY <1>2, <1>4, <1>5

LEMMA PinHolds ==
  ASSUME NEW x \in AbstractNumber, NEW v \in Word, Holds(x, v)
  PROVE  Holds(pin(x, v), v)
<1>1. v \in Int /\ v # NoPoint
  BY WordFacts
<1>2. CASE v < x.lower \/ v > x.upper
  BY <1>2 DEF pin
<1>3. CASE ~(v < x.lower \/ v > x.upper)
  <2>1. pin(x, v).lower = v /\ pin(x, v).upper = v /\ pin(x, v).excluded = NoPoint
    BY <1>3 DEF pin, AbstractNumber
  <2>2. QED
    BY <1>1, <2>1 DEF Holds
<1>4. QED
  BY <1>2, <1>3

LEMMA ExcludeHolds ==
  ASSUME NEW x \in AbstractNumber, NEW v \in Word, Holds(x, v), NEW k \in Word, v # k
  PROVE  Holds(exclude(x, k), v)
<1>1. v \in Int /\ k \in Int /\ x.lower \in Int /\ x.upper \in Int
  BY WordFacts, NumberFacts
<1>2. CASE k < x.lower \/ k > x.upper
  BY <1>2 DEF exclude
<1>3. CASE ~(k < x.lower \/ k > x.upper) /\ k = x.lower
  <2>1. /\ exclude(x, k).lower = After(x, k) /\ exclude(x, k).upper = x.upper
        /\ exclude(x, k).excluded = x.excluded
    BY <1>3 DEF exclude, AbstractNumber
  <2>2. k < v
    BY <1>1, <1>3 DEF Holds
  <2>3. QED
    BY <2>1, <2>2, StepsHold DEF Holds
<1>4. CASE ~(k < x.lower \/ k > x.upper) /\ k # x.lower /\ k = x.upper
  <2>1. /\ exclude(x, k).lower = x.lower /\ exclude(x, k).upper = Before(x, k)
        /\ exclude(x, k).excluded = x.excluded
    BY <1>4 DEF exclude, AbstractNumber
  <2>2. v < k
    BY <1>1, <1>4 DEF Holds
  <2>3. QED
    BY <2>1, <2>2, StepsHold DEF Holds
<1>5. CASE ~(k < x.lower \/ k > x.upper) /\ k # x.lower /\ k # x.upper
  <2>1. /\ exclude(x, k).lower = x.lower /\ exclude(x, k).upper = x.upper
        /\ exclude(x, k).excluded = k
    BY <1>5 DEF exclude, AbstractNumber
  <2>2. QED
    BY <2>1 DEF Holds
<1>6. QED
  BY <1>2, <1>3, <1>4, <1>5

LEMMA ComparedHolds ==
  ASSUME NEW x \in AbstractNumber, NEW v \in Word, Holds(x, v), NEW k \in Word,
         NEW op \in Comparisons, Compare(op, v, k)
  PROVE  Holds(apply_comparison(x, op, k), v)
<1>1. /\ v \in Int /\ k \in Int /\ x.lower \in Int /\ x.upper \in Int
      /\ After(x, k) \in Int /\ Before(x, k) \in Int
      /\ k < v => After(x, k) <= v
      /\ v < k => v <= Before(x, k)
  BY WordFacts, NumberFacts, StepsHold
<1>2. NaN \notin {v, k}
  BY WordFacts
<1>3. CASE op = "Eq"
  <2>1. v = k /\ apply_comparison(x, op, k) = pin(x, k)
    BY <1>2, <1>3 DEF Compare, apply_comparison
  <2>2. QED
    BY <2>1, PinHolds
<1>4. CASE op = "Ne"
  <2>1. v # k /\ apply_comparison(x, op, k) = exclude(x, k)
    BY <1>2, <1>4 DEF Compare, apply_comparison
  <2>2. QED
    BY <2>1, ExcludeHolds
<1>5. ASSUME NEW hi \in Int, v <= hi
      PROVE  Holds([x EXCEPT !.upper = Lesser(@, hi)], v)
  <2>1. /\ [x EXCEPT !.upper = Lesser(@, hi)].lower = x.lower
        /\ [x EXCEPT !.upper = Lesser(@, hi)].upper = Lesser(x.upper, hi)
        /\ [x EXCEPT !.upper = Lesser(@, hi)].excluded = x.excluded
    BY DEF AbstractNumber
  <2>2. QED
    BY <1>1, <1>5, <2>1 DEF Holds, Lesser
<1>6. ASSUME NEW lo \in Int, lo <= v
      PROVE  Holds([x EXCEPT !.lower = Greater(@, lo)], v)
  <2>1. /\ [x EXCEPT !.lower = Greater(@, lo)].lower = Greater(x.lower, lo)
        /\ [x EXCEPT !.lower = Greater(@, lo)].upper = x.upper
        /\ [x EXCEPT !.lower = Greater(@, lo)].excluded = x.excluded
    BY DEF AbstractNumber
  <2>2. QED
    BY <1>1, <1>6, <2>1 DEF Holds, Greater
<1>7. CASE op = "Lt"
  <2>1. v < k /\ apply_comparison(x, op, k) = [x EXCEPT !.upper = Lesser(@, Before(x, k))]
    BY <1>2, <1>7 DEF Compare, apply_comparison
  <2>2. QED
    BY <1>1, <1>5, <2>1
<1>8. CASE op = "Le"
  <2>1. v <= k /\ apply_comparison(x, op, k) = [x EXCEPT !.upper = Lesser(@, k)]
    BY <1>2, <1>8 DEF Compare, apply_comparison
  <2>2. QED
    BY <1>1, <1>5, <2>1
<1>9. CASE op = "Gt"
  <2>1. v > k /\ apply_comparison(x, op, k) = [x EXCEPT !.lower = Greater(@, After(x, k))]
    BY <1>2, <1>9 DEF Compare, apply_comparison
  <2>2. QED
    BY <1>1, <1>6, <2>1
<1>10. CASE op = "Ge"
  <2>1. v >= k /\ apply_comparison(x, op, k) = [x EXCEPT !.lower = Greater(@, k)]
    BY <1>2, <1>10 DEF Compare, apply_comparison
  <2>2. QED
    BY <1>1, <1>6, <2>1
<1>11. QED
  BY <1>3, <1>4, <1>7, <1>8, <1>9, <1>10 DEF Comparisons

(* Swapping the operands flips a comparison, denying it negates it.        *)
LEMMA ComparisonsAgree ==
  ASSUME NEW op \in Comparisons, NEW v \in Word, NEW k \in Word
  PROVE  /\ flip_comparison(op) \in Comparisons /\ negate_comparison(op) \in Comparisons
         /\ Compare(flip_comparison(op), v, k) <=> Compare(op, k, v)
         /\ Compare(negate_comparison(op), v, k) <=> ~Compare(op, v, k)
<1>1. v \in Int /\ k \in Int /\ NaN \notin {v, k} /\ NaN \notin {k, v}
  BY WordFacts
<1>2. CASE op = "Eq"
  BY <1>1, <1>2 DEF Comparisons, flip_comparison, negate_comparison, Compare
<1>3. CASE op = "Ne"
  BY <1>1, <1>3 DEF Comparisons, flip_comparison, negate_comparison, Compare
<1>4. CASE op = "Lt"
  BY <1>1, <1>4 DEF Comparisons, flip_comparison, negate_comparison, Compare
<1>5. CASE op = "Le"
  BY <1>1, <1>5 DEF Comparisons, flip_comparison, negate_comparison, Compare
<1>6. CASE op = "Gt"
  BY <1>1, <1>6 DEF Comparisons, flip_comparison, negate_comparison, Compare
<1>7. CASE op = "Ge"
  BY <1>1, <1>7 DEF Comparisons, flip_comparison, negate_comparison, Compare
<1>8. QED
  BY <1>2, <1>3, <1>4, <1>5, <1>6, <1>7 DEF Comparisons

-----------------------------------------------------------------------------
(***************************************************************************)
(* Programs on integers.  Their literals and switch values are integers of *)
(* the program, of the type they are compared with, and they do arithmetic *)
(* on integers only.  A comparison is not written over one of its          *)
(* operands: the guard it records would speak of the new value.            *)
(***************************************************************************)
IsWord(o) ==
  IF IsPlace(o) THEN o.local \in DOMAIN mir.locals ELSE o.ty \in IntegerTypes /\ o.value \in Word

WholeStatement(s) ==
  LET rv == s.rvalue IN
  /\ rv.op \in {"Use", "Unary"} => IsWord(rv.operand)
  /\ rv.op \in {"Binary", "Checked"} =>
       /\ IsWord(rv.left) /\ IsWord(rv.right)
       /\ rv.kind \in Arithmetic => IsInteger(TypeOf(rv.left))
       /\ rv.kind \in Comparisons =>
            \A o \in {rv.left, rv.right} : IsPlace(o) => o.local # s.place.local

WholeTerminator(t) ==
  t.kind = "SwitchInt" =>
    /\ IsPlace(t.discr) /\ t.discr.local \in DOMAIN mir.locals /\ 1 \in DOMAIN t.targets
    /\ \A i \in DOMAIN t.targets :
         t.targets[i].value \in Word /\ Fits(mir.locals[t.discr.local], t.targets[i].value)

WholeProgram ==
  /\ \A l \in DOMAIN mir.locals : mir.locals[l] \in IntegerTypes
  /\ \A b \in Block :
       /\ \A i \in DOMAIN mir.blocks[b].stmts : WholeStatement(mir.blocks[b].stmts[i])
       /\ WholeTerminator(mir.blocks[b].terminator)

LEMMA TrustedIsClosed == Trusted \subseteq DOMAIN mir.locals /\ Closed(Trusted)
<1>1. ASSUME NEW b \in Block, NEW i \in DOMAIN mir.blocks[b].stmts,
             mir.blocks[b].stmts[i].place.local \in Trusted,
             ~mir.blocks[b].stmts[i].place.projected
      PROVE  Exactly(mir.blocks[b].stmts[i].rvalue, Trusted)
  <2>1. PICK T \in SUBSET DOMAIN mir.locals : Closed(T) /\ mir.blocks[b].stmts[i].place.local \in T
    BY <1>1 DEF Trusted
  <2>2. Exactly(mir.blocks[b].stmts[i].rvalue, T)
    BY <1>1, <2>1 DEF Closed
  <2>3. T \subseteq Trusted
    BY <2>1 DEF Trusted
  <2>4. QED
    BY <2>2, <2>3 DEF Exactly, ReadsIn
<1>2. QED
  BY <1>1 DEF Closed, Trusted

(* What the locals of a running program may hold.                          *)
Valuation ==
  {vals \in [DOMAIN mir.locals -> Word] :
     \A l \in DOMAIN mir.locals : Fits(mir.locals[l], vals[l])}

(* The bits of a narrow negative value are an integer no value of the type *)
(* is equal to; any other value is its own bits.                           *)
LEMMA SwitchValues ==
  ASSUME NEW ty, NEW k \in Word, Fits(ty, k)
  PROVE  /\ SwitchValue(ty, k) \in Word
         /\ \A v \in Word : Fits(ty, v) /\ v # k => SwitchValue(ty, k) # v
<1>1. /\ k \in Int /\ Scale \in Nat /\ Scale > 0 /\ NarrowModulus \in Int /\ NarrowModulus > 0
      /\ NarrowModulus <= IntBound /\ IntBound \in Nat
  BY WordFacts, Extremes, NarrowAssumption
<1>2. PICK i \in Int : k = i * Scale
  BY WordFacts
<1> DEFINE m == NarrowModulus \div Scale
<1>3. m \in Int /\ NarrowModulus = m * Scale
  BY <1>1, NarrowAssumption, WholeIsMultiple, QuotientFacts
<1> HIDE DEF m
<1>4. k + NarrowModulus = (i + m) * Scale /\ i + m \in Int
  BY <1>1, <1>2, <1>3
<1>5. CASE ty = "i32" /\ k < 0
  <2>1. -NarrowModulus <= 2 * k
    BY <1>5 DEF Fits
  <2>2. k + NarrowModulus >= 0 /\ k + NarrowModulus <= IntBound /\ 2 * (k + NarrowModulus) >= NarrowModulus
    BY <1>1, <1>5, <2>1
  <2>3. k + NarrowModulus \in Word
    BY <1>1, <1>4, <2>2, WordFacts
  <2>4. \A v \in Word : Fits(ty, v) => 2 * v < NarrowModulus
    BY <1>5 DEF Fits
  <2>5. SwitchValue(ty, k) = k + NarrowModulus
    BY <1>5 DEF SwitchValue
  <2>6. ASSUME NEW v \in Word, Fits(ty, v)
        PROVE  v # k + NarrowModulus
    <3>1. v \in Int /\ 2 * v < NarrowModulus
      BY <2>4, <2>6, WordFacts
    <3>2. QED
      BY <1>1, <2>2, <3>1
  <2>7. QED
    BY <2>3, <2>5, <2>6
<1>6. CASE ~(ty = "i32" /\ k < 0)
  BY <1>6 DEF SwitchValue
<1>7. QED
  BY <1>5, <1>6

LEMMA OperandIsWord ==
  ASSUME NEW vals \in Valuation, NEW o, IsWord(o), NEW v \in Values(vals, o) \cup {Value(vals, o)}
  PROVE  v \in Word
<1>1. Inputs("i64") \subseteq Word
  BY WordsAssumption DEF IntegerTypes
<1>2. Value(vals, o) \in Word
  BY DEF IsWord, Value, Valuation
<1>3. QED
  BY <1>1, <1>2 DEF Values

(* What an operand of the program may be, and what the analysis reads for  *)
(* it.                                                                     *)
LEMMA OperandHolds ==
  ASSUME NEW vals \in Valuation, NEW state, NEW T, \A l \in T : Holds(state[l], vals[l]),
         NEW o, IsWord(o), NEW v \in Values(vals, o) \cup {Value(vals, o)}
  PROVE  v \in Word /\ (ReadsIn(o, T) => Holds(eval_operand(state, lower_operand(o)), v))
<1>1. "local" \notin DOMAIN Opaque
  BY DEF Opaque, Lit
<1>2. ASSUME lower_operand(o) = Opaque, v \in Word
      PROVE  Holds(eval_operand(state, lower_operand(o)), v)
  BY <1>1, <1>2, ConstantsHold DEF eval_operand
<1>3. CASE IsPlace(o)
  <2>1. o # Opaque
    BY <1>1, <1>3 DEF IsPlace
  <2>2. v = vals[o.local] /\ o.local \in DOMAIN mir.locals
    BY <1>3, <2>1 DEF Values, Value, IsWord
  <2>3. v \in Word
    BY <2>2 DEF Valuation
  <2>4. CASE o.projected
    <3>1. lower_operand(o) = Opaque
      BY <1>3, <2>4 DEF lower_operand
    <3>2. QED
      BY <1>2, <2>3, <3>1
  <2>5. CASE ~o.projected
    <3>1. lower_operand(o) = [local |-> o.local]
      BY <1>3, <2>5 DEF lower_operand
    <3>2. eval_operand(state, lower_operand(o)) = state[o.local]
      BY <3>1 DEF eval_operand
    <3>3. QED
      BY <1>3, <2>2, <2>3, <2>5, <3>2 DEF ReadsIn
  <2>6. QED
    BY <2>4, <2>5
<1>4. CASE ~IsPlace(o)
  <2>1. o.value \in Word
    BY <1>4 DEF IsWord
  <2>2. CASE o = Opaque
    <3>1. v \in Inputs("i64") \cup {o.value}
      BY <1>4, <2>2 DEF Values, Value
    <3>2. v \in Word
      BY <2>1, <3>1, WordsAssumption DEF IntegerTypes
    <3>3. lower_operand(o) = Opaque
      BY <1>4, <2>2 DEF lower_operand
    <3>4. QED
      BY <1>2, <3>2, <3>3
  <2>3. CASE o # Opaque
    <3>1. v = o.value
      BY <1>4, <2>3 DEF Values, Value
    <3>2. lower_operand(o) \in {Opaque, o}
      BY <1>4 DEF lower_operand
    <3>3. CASE lower_operand(o) = o
      <4>1. eval_operand(state, o) = constant(AsDouble(o.value))
        BY <1>4, <2>3 DEF eval_operand, IsPlace
      <4>2. QED
        BY <2>1, <3>1, <3>3, <4>1, AsDoubleOfWord, ConstantsHold
    <3>4. QED
      BY <1>2, <2>1, <3>1, <3>2, <3>3
  <2>4. QED
    BY <2>2, <2>3
<1>5. QED
  BY <1>3, <1>4

(* Integer arithmetic that does not leave the bound yields integers of the *)
(* program.                                                                *)
LEMMA IntegerResultIsWord ==
  ASSUME NEW v \in Word, NEW w \in Word, NEW kind \in Arithmetic,
         kind \in {"Div", "Rem"} => w # 0, Abs(IntegerResult(kind, v, w)) <= IntBound
  PROVE  IntegerResult(kind, v, w) \in Word
<1>1. /\ v \in Int /\ w \in Int /\ IntBound \in Nat /\ Scale \in Nat /\ Scale > 0
  BY WordFacts, Extremes
<1>2. PICK i \in Int, j \in Int : v = i * Scale /\ w = j * Scale
  BY WordFacts
<1>3. ASSUME NEW k \in Int, IntegerResult(kind, v, w) = k * Scale
      PROVE  IntegerResult(kind, v, w) \in Word
  <2> DEFINE r == IntegerResult(kind, v, w)
  <2>1. r \in Int /\ Abs(r) <= IntBound
    BY <1>1, <1>3
  <2> HIDE DEF r
  <2>2. -IntBound <= r /\ r <= IntBound
    BY <1>1, <2>1 DEF Abs
  <2>3. QED
    BY <1>3, <2>2, WordFacts DEF r
<1>4. CASE kind = "Add"
  <2>1. IntegerResult(kind, v, w) = (i + j) * Scale /\ i + j \in Int
    BY <1>1, <1>2, <1>4 DEF IntegerResult
  <2>2. QED
    BY <1>3, <2>1
<1>5. CASE kind = "Sub"
  <2>1. IntegerResult(kind, v, w) = (i - j) * Scale /\ i - j \in Int
    BY <1>1, <1>2, <1>5 DEF IntegerResult
  <2>2. QED
    BY <1>3, <2>1
<1>6. CASE kind = "Mul"
  <2>1. v * w = (i * w) * Scale /\ i * w \in Int /\ v * w \in Int
    BY <1>1, <1>2
  <2>2. IsWhole(v * w)
    BY <2>1, WholeIsMultiple
  <2>3. v * w = Scale * ((v * w) \div Scale) /\ (v * w) \div Scale \in Int
    BY <1>1, <2>1, <2>2, WholeIsMultiple, QuotientFacts
  <2> DEFINE p == (v * w) \div Scale
  <2>4. IntegerResult(kind, v, w) = p
    BY <1>6 DEF IntegerResult
  <2>5. (i * j) * Scale * Scale = Scale * p /\ i * j \in Int
    BY <1>1, <1>2, <2>3
  <2> HIDE DEF p
  <2>6. p = (i * j) * Scale
    <3> DEFINE m == (i * j) * Scale
    <3>1. m \in Int /\ m * Scale = p * Scale /\ p \in Int
      BY <1>1, <2>3, <2>5 DEF p
    <3> HIDE DEF m
    <3>2. m <= p /\ p <= m
      BY <1>1, <3>1, Ordered
    <3>3. QED
      BY <3>1, <3>2 DEF m
  <2>7. QED
    BY <1>3, <2>4, <2>5, <2>6
<1>7. CASE kind = "Div"
  <2>1. Truncated(v, w) \in Int
    <3>1. Abs(v) \in Nat /\ Abs(w) \in Nat /\ Abs(w) > 0
      BY <1>1, <1>7 DEF Abs
    <3>2. Abs(v) \div Abs(w) \in Int
      BY <3>1, QuotientFacts
    <3>3. Sign(v) \in Int /\ Sign(w) \in Int
      BY DEF Sign
    <3>4. QED
      BY <3>2, <3>3 DEF Truncated
  <2>2. IntegerResult(kind, v, w) = Truncated(v, w) * Scale
    BY <1>1, <1>7, <2>1 DEF IntegerResult
  <2>3. QED
    BY <1>3, <2>1, <2>2
<1>8. CASE kind = "Rem"
  BY <1>8, RemainderFacts DEF IntegerResult
<1>9. QED
  BY <1>4, <1>5, <1>6, <1>7, <1>8 DEF Arithmetic

LEMMA PairFacts ==
  ASSUME NEW v \in Word, NEW w \in Word, NEW ty \in IntegerTypes, NEW kind,
         kind \in Arithmetic => IsInteger(ty), NEW r \in PairResults(ty, kind, v, w)
  PROVE  /\ r \in Word
         /\ kind \in Comparisons => r = IF Compare(kind, v, w) THEN Scale ELSE 0
         /\ kind \in Arithmetic => r = IntegerResult(kind, v, w) /\ (kind \in {"Div", "Rem"} => w # 0)
<1>1. kind \in Comparisons => kind \notin Arithmetic
  BY DEF Comparisons, Arithmetic
<1>2. CASE kind \in Comparisons
  BY <1>1, <1>2, WordFacts DEF PairResults
<1>3. CASE kind \notin Comparisons /\ kind \notin Arithmetic
  BY <1>3, WordsAssumption DEF PairResults
<1>4. CASE kind \in Arithmetic
  <2>1. /\ r = IntegerResult(kind, v, w) /\ Abs(r) <= IntBound
        /\ kind \in {"Div", "Rem"} => w # 0
    BY <1>1, <1>4 DEF PairResults
  <2>2. QED
    BY <1>1, <1>4, <2>1, IntegerResultIsWord
<1>5. QED
  BY <1>2, <1>3, <1>4

LEMMA TypesOfOperands ==
  ASSUME WholeProgram, NEW o, IsWord(o)
  PROVE  TypeOf(o) \in IntegerTypes
BY DEF WholeProgram, IsWord, TypeOf

(* Every value an assignment may compute is an integer of the program; the *)
(* one it leaves is of the type of its local.                              *)
LEMMA ComputedAreWords ==
  ASSUME WholeProgram, NEW vals \in Valuation, NEW s, WholeStatement(s),
         s.place.local \in DOMAIN mir.locals, NEW r \in Computed(vals, s)
  PROVE  r \in Word
<1> DEFINE rv == s.rvalue
           ty == mir.locals[s.place.local]
<1>1. ty \in IntegerTypes
  BY DEF WholeProgram
<1>2. \A t \in IntegerTypes : Inputs(t) \subseteq Word
  BY WordsAssumption
<1>3. ASSUME NEW o, IsWord(o), NEW v \in Values(vals, o) \cup {Value(vals, o)}
      PROVE  v \in Word
  BY <1>3, OperandIsWord
<1>4. CASE s.place.projected
  BY <1>2, <1>4 DEF Computed, IntegerTypes
<1>5. CASE ~s.place.projected /\ rv.op = "Use"
  <2>1. r \in Values(vals, rv.operand)
    BY <1>5 DEF Computed
  <2>2. IsWord(rv.operand)
    BY <1>5 DEF WholeStatement
  <2>3. QED
    BY <1>3, <2>1, <2>2
<1>6. CASE ~s.place.projected /\ rv.op = "Unary"
  <2>1. IsWord(rv.operand)
    BY <1>6 DEF WholeStatement
  <2>2. CASE rv.kind = "Neg"
    <3>1. r = -Value(vals, rv.operand)
      BY <1>6, <2>2 DEF Computed, Negated
    <3>2. Value(vals, rv.operand) \in Word
      BY <1>3, <2>1
    <3>3. QED
      BY <3>1, <3>2, WordFacts
  <2>3. CASE rv.kind # "Neg"
    <3>1. r \in Inputs(ty)
      BY <1>6, <2>3 DEF Computed
    <3>2. QED
      BY <1>1, <1>2, <3>1
  <2>4. QED
    BY <2>2, <2>3
<1>7. CASE ~s.place.projected /\ rv.op \in {"Binary", "Checked"}
  <2>1. IsWord(rv.left) /\ IsWord(rv.right) /\ (rv.kind \in Arithmetic => IsInteger(TypeOf(rv.left)))
    BY <1>7 DEF WholeStatement
  <2>2. Computed(vals, s) = UNION {PairResults(TypeOf(rv.left), rv.kind, ab[1], ab[2]) :
                                    ab \in Values(vals, rv.left) \X Values(vals, rv.right)}
    BY <1>7 DEF Computed
  <2>3. PICK v \in Values(vals, rv.left), w \in Values(vals, rv.right) :
          r \in PairResults(TypeOf(rv.left), rv.kind, v, w)
    BY <2>2
  <2>4. v \in Word /\ w \in Word /\ TypeOf(rv.left) \in IntegerTypes
    BY <1>3, <2>1, TypesOfOperands
  <2>5. QED
    BY <2>1, <2>3, <2>4, PairFacts
<1>8. CASE ~s.place.projected /\ rv.op \notin {"Use", "Unary", "Binary", "Checked"}
  <2>1. r \in Inputs(ty)
    BY <1>8 DEF Computed
  <2>2. QED
    BY <1>1, <1>2, <2>1
<1>9. QED
  BY <1>4, <1>5, <1>6, <1>7, <1>8

LEMMA ResultsAreWords ==
  ASSUME WholeProgram, NEW vals \in Valuation, NEW s, WholeStatement(s),
         s.place.local \in DOMAIN mir.locals, NEW r \in Results(vals, s)
  PROVE  r \in Word /\ Fits(mir.locals[s.place.local], r)
BY ComputedAreWords DEF Results

(* What the analysis computes for an assignment to a trusted local holds   *)
(* what the program assigns.                                               *)
LEMMA RvalueHolds ==
  ASSUME WholeProgram, NEW vals \in Valuation, NEW state, NEW T,
         \A l \in T : state[l] \in AbstractNumber /\ Holds(state[l], vals[l]),
         NEW s, WholeStatement(s), s.place.local \in DOMAIN mir.locals,
         ~s.place.projected => Exactly(s.rvalue, T), NEW r \in Results(vals, s),
         IsRvalue(body, lower_statement(s).rvalue), state \in State(body)
  PROVE  Holds(eval_rvalue(state, lower_statement(s).rvalue), r)
<1> DEFINE rv == s.rvalue
           low == lower_statement(s).rvalue
<1>0. r \in Computed(vals, s)
  BY DEF Results
<1>1. r \in Word
  BY ResultsAreWords
<1>2. Holds(unknown, r)
  BY <1>1, ConstantsHold
<1>3. ASSUME NEW o, IsWord(o), ReadsIn(o, T), NEW v \in Values(vals, o) \cup {Value(vals, o)}
      PROVE  v \in Word /\ Holds(eval_operand(state, lower_operand(o)), v)
  BY <1>3, OperandHolds
<1>4. CASE s.place.projected
  <2>1. low.op = "Unknown"
    BY <1>4 DEF lower_statement
  <2>2. eval_rvalue(state, low) = unknown
    BY <2>1 DEF eval_rvalue
  <2>3. QED
    BY <1>2, <2>2
<1>5. CASE ~s.place.projected
  <2>1. low = lower_rvalue(rv) /\ Exactly(rv, T)
    BY <1>5 DEF lower_statement
  <2>2. IsRvalue(body, lower_rvalue(rv))
    BY <2>1
  <2> HIDE DEF low
  <2>3. CASE rv.op = "Use"
    <3>1. low.op = "Use" /\ low.operand = lower_operand(rv.operand)
      BY <2>1, <2>3 DEF lower_rvalue
    <3>2. eval_rvalue(state, low) = eval_operand(state, lower_operand(rv.operand))
      BY <3>1 DEF eval_rvalue
    <3>3. r \in Values(vals, rv.operand) /\ IsWord(rv.operand) /\ ReadsIn(rv.operand, T)
      BY <1>0, <1>5, <2>1, <2>3 DEF Computed, WholeStatement, Exactly
    <3>4. QED
      BY <1>3, <3>2, <3>3 DEF low
  <2>4. CASE rv.op = "Unary"
    <3>1. low.op = "Unary" /\ low.operand = lower_operand(rv.operand) /\ low.kind = rv.kind
      BY <2>1, <2>4 DEF lower_rvalue
    <3>2. CASE rv.kind = "Neg"
      <4> DEFINE x == eval_operand(state, lower_operand(rv.operand))
                 v == Value(vals, rv.operand)
      <4>1. eval_rvalue(state, low) = negate(x)
        BY <3>1, <3>2 DEF eval_rvalue
      <4>2. r = -v
        BY <1>0, <1>5, <2>4, <3>2 DEF Computed, Negated
      <4>3. IsWord(rv.operand) /\ ReadsIn(rv.operand, T)
        BY <2>1, <2>4, <3>2 DEF WholeStatement, Exactly
      <4>4. v \in Word /\ Holds(x, v)
        BY <1>3, <4>3
      <4>5. IsOperand(body, lower_operand(rv.operand))
        BY <2>1, <2>2, <3>1 DEF IsRvalue
      <4>6. x \in AbstractNumber
        BY <4>5, OperandIsNumber
      <4> HIDE DEF x, v
      <4>7. QED
        BY <4>1, <4>2, <4>4, <4>6, NegationHolds DEF low
    <3>3. CASE rv.kind # "Neg"
      <4>1. eval_rvalue(state, low) = unknown
        BY <3>1, <3>3 DEF eval_rvalue
      <4>2. QED
        BY <1>2, <4>1 DEF low
    <3>4. QED
      BY <3>2, <3>3
  <2>5. CASE rv.op \in {"Binary", "Checked"}
    <3> DEFINE x == eval_operand(state, lower_operand(rv.left))
               y == eval_operand(state, lower_operand(rv.right))
    <3>1. /\ low.op = "Binary" /\ low.kind = lower_binop(rv.kind)
          /\ low.left = lower_operand(rv.left) /\ low.right = lower_operand(rv.right)
      BY <2>1, <2>5 DEF lower_rvalue
    <3>2. IsWord(rv.left) /\ IsWord(rv.right) /\ (rv.kind \in Arithmetic => IsInteger(TypeOf(rv.left)))
      BY <2>5 DEF WholeStatement
    <3>3. Computed(vals, s) = UNION {PairResults(TypeOf(rv.left), rv.kind, ab[1], ab[2]) :
                                       ab \in Values(vals, rv.left) \X Values(vals, rv.right)}
      BY <1>5, <2>5 DEF Computed
    <3>4. PICK v \in Values(vals, rv.left), w \in Values(vals, rv.right) :
            r \in PairResults(TypeOf(rv.left), rv.kind, v, w)
      BY <1>0, <3>3
    <3>5. v \in Word /\ w \in Word /\ TypeOf(rv.left) \in IntegerTypes
      BY <3>2, OperandIsWord, TypesOfOperands
    <3>6. x \in AbstractNumber /\ y \in AbstractNumber
      <4>1. IsOperand(body, lower_operand(rv.left)) /\ IsOperand(body, lower_operand(rv.right))
        BY <2>1, <2>2, <3>1 DEF IsRvalue
      <4>2. QED
        BY <4>1, OperandIsNumber
    <3>7. /\ rv.kind \in Comparisons => r = IF Compare(rv.kind, v, w) THEN Scale ELSE 0
          /\ rv.kind \in Arithmetic => /\ r = IntegerResult(rv.kind, v, w)
                                       /\ rv.kind \in {"Div", "Rem"} => w # 0
      BY <3>2, <3>4, <3>5, PairFacts
    <3>8. CASE rv.kind \in Comparisons
      <4>1. low.kind \in Comparisons
        BY <3>1, <3>8 DEF lower_binop
      <4>2. eval_rvalue(state, low) = boolean
        BY <3>1, <4>1 DEF eval_rvalue, Comparisons
      <4>3. QED
        BY <1>1, <3>7, <3>8, <4>2, ConstantsHold DEF low
    <3>9. CASE rv.kind \in Arithmetic
      <4>1. low.kind = rv.kind /\ low.kind \notin Comparisons
        BY <3>1, <3>9 DEF lower_binop, Comparisons, Arithmetic
      <4>2. rv.kind # "Div" /\ ReadsIn(rv.left, T) /\ ReadsIn(rv.right, T)
        BY <2>1, <2>5, <3>2, <3>9 DEF Exactly
      <4>3. Holds(x, v) /\ Holds(y, w)
        BY <1>3, <3>2, <3>4, <4>2
      <4>4. /\ rv.kind = "Add" => eval_rvalue(state, low) = add(x, y)
            /\ rv.kind = "Sub" => eval_rvalue(state, low) = sub(x, y)
            /\ rv.kind = "Mul" => eval_rvalue(state, low) = mul(x, y)
            /\ rv.kind = "Rem" => eval_rvalue(state, low) = rem(x, y, ~includes_zero(y))
        BY <3>1, <4>1 DEF eval_rvalue
      <4> HIDE DEF x, y
      <4>5. CASE rv.kind = "Add"
        <5>1. r = v + w
          BY <3>7, <3>9, <4>5 DEF IntegerResult
        <5>2. QED
          BY <1>1, <3>5, <3>6, <4>3, <4>4, <4>5, <5>1, SumHolds DEF low
      <4>6. CASE rv.kind = "Sub"
        <5>1. r = v - w
          BY <3>7, <3>9, <4>6 DEF IntegerResult
        <5>2. QED
          BY <1>1, <3>5, <3>6, <4>3, <4>4, <4>6, <5>1, DifferenceHolds DEF low
      <4>7. CASE rv.kind = "Mul"
        <5>1. r = (v * w) \div Scale
          BY <3>7, <3>9, <4>7 DEF IntegerResult
        <5>2. QED
          BY <1>1, <3>5, <3>6, <4>3, <4>4, <4>7, <5>1, ProductHolds DEF low
      <4>8. CASE rv.kind = "Rem"
        <5>1. r = Remainder(v, w) /\ w # 0
          BY <3>7, <3>9, <4>8 DEF IntegerResult
        <5>2. QED
          BY <1>1, <3>5, <3>6, <4>3, <4>4, <4>8, <5>1, RemainderHolds DEF low
      <4>9. QED
        BY <3>9, <4>2, <4>5, <4>6, <4>7, <4>8 DEF Arithmetic
    <3>10. CASE rv.kind \notin Comparisons /\ rv.kind \notin Arithmetic
      <4>1. low.kind = "Other"
        BY <3>1, <3>10 DEF lower_binop
      <4>2. eval_rvalue(state, low) = unknown
        BY <3>1, <4>1 DEF eval_rvalue, Comparisons
      <4>3. QED
        BY <1>2, <4>2 DEF low
    <3>11. QED
      BY <3>8, <3>9, <3>10
  <2>6. CASE rv.op \notin {"Use", "Unary", "Binary", "Checked"}
    <3>1. low.op = "Unknown"
      BY <2>1, <2>6 DEF lower_rvalue
    <3>2. eval_rvalue(state, low) = unknown
      BY <3>1 DEF eval_rvalue
    <3>3. QED
      BY <1>2, <3>2 DEF low
  <2>7. QED
    BY <2>3, <2>4, <2>5, <2>6
<1>6. QED
  BY <1>4, <1>5

(* A guard states what its boolean local holds.                            *)
GuardHolds(vals, g) ==
  /\ g.constant \in Word
  /\ vals[g.on] = IF Compare(g.op, vals[g.local], g.constant) THEN Scale ELSE 0

Follows(T, now, vals) ==
  /\ \A l \in T : Holds(now.state[l], vals[l])
  /\ \A g \in now.guards : GuardHolds(vals, g)

(* The literal a comparison may be guarded by.                             *)
LEMMA KnownOperand ==
  ASSUME NEW o, IsWord(o), IsKnown(lower_operand(o)), NEW vals
  PROVE  /\ lower_operand(o) = o /\ o.value \in Word /\ Values(vals, o) = {o.value}
         /\ AsDouble(lower_operand(o).value) = o.value
<1>1. ~IsPlace(o)
  BY DEF IsKnown, lower_operand, IsPlace
<1>2. lower_operand(o) = o /\ o # Opaque
  BY <1>1 DEF IsKnown, lower_operand
<1>3. o.value \in Word
  BY <1>1 DEF IsWord
<1>4. QED
  BY <1>1, <1>2, <1>3, AsDoubleOfWord DEF Values, Value

LEMMA LocalOperand ==
  ASSUME NEW o, IsLocal(lower_operand(o)), NEW vals
  PROVE  IsPlace(o) /\ lower_operand(o).local = o.local /\ Values(vals, o) = {vals[o.local]}
<1>1. "local" \notin DOMAIN Opaque
  BY DEF Opaque, Lit
<1>2. IsPlace(o)
  BY <1>1 DEF IsLocal, lower_operand, IsPlace
<1>3. lower_operand(o) = [local |-> o.local]
  BY <1>1, <1>2 DEF IsLocal, lower_operand
<1>4. o # Opaque
  BY <1>1, <1>2 DEF IsPlace
<1>5. QED
  BY <1>2, <1>3, <1>4 DEF Values, Value

(* The guard an assignment records speaks of what it assigns.              *)
LEMMA RecordedGuardHolds ==
  ASSUME WholeProgram, NEW vals \in Valuation, NEW s, WholeStatement(s),
         s.place.local \in DOMAIN mir.locals, NEW r \in Results(vals, s),
         NEW g \in extract_guard(lower_statement(s).place, lower_statement(s).rvalue)
  PROVE  GuardHolds([vals EXCEPT ![s.place.local] = r], g)
<1> DEFINE rv == s.rvalue
           low == lower_statement(s).rvalue
           p == s.place.local
           after == [vals EXCEPT ![p] = r]
<1>1. low.op = "Binary" /\ low.kind \in Comparisons /\ lower_statement(s).place = p
  BY DEF extract_guard, lower_statement
<1>2. ~s.place.projected /\ low = lower_rvalue(rv) /\ rv.op \in {"Binary", "Checked"}
  <2>1. ~s.place.projected /\ low = lower_rvalue(rv)
    BY <1>1 DEF lower_statement
  <2>2. lower_rvalue(rv).op = "Binary"
    BY <1>1, <2>1
  <2>3. rv.op \in {"Binary", "Checked"}
    BY <2>2 DEF lower_rvalue
  <2>4. QED
    BY <2>1, <2>3
<1>3. /\ low.kind = lower_binop(rv.kind)
      /\ low.left = lower_operand(rv.left) /\ low.right = lower_operand(rv.right)
  BY <1>2 DEF lower_rvalue
<1>4. rv.kind \in Comparisons /\ low.kind = rv.kind
  BY <1>1, <1>3 DEF lower_binop, Comparisons, Arithmetic
<1>5. /\ IsWord(rv.left) /\ IsWord(rv.right)
      /\ \A o \in {rv.left, rv.right} : IsPlace(o) => o.local # p
  BY <1>2, <1>4 DEF WholeStatement
<1>6. PICK v \in Values(vals, rv.left), w \in Values(vals, rv.right) :
        r = IF Compare(rv.kind, v, w) THEN Scale ELSE 0
  <2>1. r \in UNION {PairResults(TypeOf(rv.left), rv.kind, ab[1], ab[2]) :
                      ab \in Values(vals, rv.left) \X Values(vals, rv.right)}
    <3>1. r \in Computed(vals, s)
      BY DEF Results
    <3>2. QED
      BY <1>2, <3>1 DEF Computed
  <2>2. PICK v \in Values(vals, rv.left), w \in Values(vals, rv.right) :
          r \in PairResults(TypeOf(rv.left), rv.kind, v, w)
    BY <2>1
  <2>3. QED
    BY <1>4, <2>2 DEF PairResults
<1>7. DOMAIN vals = DOMAIN mir.locals /\ after[p] = r /\ \A l \in DOMAIN mir.locals : l # p => after[l] = vals[l]
  BY DEF Valuation
<1> HIDE DEF low, after
<1>8. CASE IsLocal(low.left) /\ IsKnown(low.right)
  <2>1. g = Guard(p, low.left.local, low.kind, AsDouble(low.right.value))
    BY <1>1, <1>8 DEF extract_guard, low
  <2>2. IsPlace(rv.left) /\ low.left.local = rv.left.local /\ Values(vals, rv.left) = {vals[rv.left.local]}
    BY <1>3, <1>8, LocalOperand
  <2>3. /\ rv.right.value \in Word /\ Values(vals, rv.right) = {rv.right.value}
        /\ AsDouble(low.right.value) = rv.right.value
    BY <1>3, <1>5, <1>8, KnownOperand
  <2>4. after[rv.left.local] = vals[rv.left.local]
    BY <1>5, <1>7, <2>2 DEF IsWord
  <2>5. /\ g.on = p /\ g.local = rv.left.local /\ g.op = rv.kind
        /\ g.constant = rv.right.value
    BY <1>4, <2>1, <2>2, <2>3 DEF Guard
  <2>6. r = IF Compare(rv.kind, vals[rv.left.local], rv.right.value) THEN Scale ELSE 0
    BY <1>6, <2>2, <2>3
  <2>7. QED
    BY <1>7, <2>3, <2>4, <2>5, <2>6 DEF GuardHolds, after
<1>9. CASE ~(IsLocal(low.left) /\ IsKnown(low.right)) /\ IsKnown(low.left) /\ IsLocal(low.right)
  <2>1. g = Guard(p, low.right.local, flip_comparison(low.kind), AsDouble(low.left.value))
    BY <1>1, <1>9 DEF extract_guard, low
  <2>2. IsPlace(rv.right) /\ low.right.local = rv.right.local /\ Values(vals, rv.right) = {vals[rv.right.local]}
    BY <1>3, <1>9, LocalOperand
  <2>3. /\ rv.left.value \in Word /\ Values(vals, rv.left) = {rv.left.value}
        /\ AsDouble(low.left.value) = rv.left.value
    BY <1>3, <1>5, <1>9, KnownOperand
  <2>4. after[rv.right.local] = vals[rv.right.local] /\ vals[rv.right.local] \in Word
    BY <1>5, <1>7, <2>2 DEF IsWord, Valuation
  <2>5. /\ g.on = p /\ g.local = rv.right.local /\ g.op = flip_comparison(rv.kind)
        /\ g.constant = rv.left.value
    BY <1>4, <2>1, <2>2, <2>3 DEF Guard
  <2>6. r = IF Compare(rv.kind, rv.left.value, vals[rv.right.local]) THEN Scale ELSE 0
    BY <1>6, <2>2, <2>3
  <2>7. Compare(flip_comparison(rv.kind), vals[rv.right.local], rv.left.value)
          <=> Compare(rv.kind, rv.left.value, vals[rv.right.local])
    BY <1>4, <2>3, <2>4, ComparisonsAgree
  <2>8. QED
    BY <1>7, <2>3, <2>4, <2>5, <2>6, <2>7 DEF GuardHolds, after
<1>10. QED
  BY <1>1, <1>8, <1>9 DEF extract_guard, low

(* An assignment of the program and its transfer go together.              *)
LEMMA StatementFollows ==
  ASSUME WholeProgram, NEW vals \in Valuation, NEW now \in OutState(body),
         NEW T \in SUBSET DOMAIN mir.locals, DOMAIN body.locals = DOMAIN mir.locals,
         Follows(T, now, vals),
         NEW s, WholeStatement(s), s.place.local \in DOMAIN mir.locals,
         s.place.local \in T /\ ~s.place.projected => Exactly(s.rvalue, T),
         IsRvalue(body, lower_statement(s).rvalue), NEW r \in Results(vals, s)
  PROVE  /\ [vals EXCEPT ![s.place.local] = r] \in Valuation
         /\ Follows(T, apply_stmt(now, lower_statement(s)), [vals EXCEPT ![s.place.local] = r])
<1> DEFINE p == s.place.local
           low == lower_statement(s).rvalue
           after == [vals EXCEPT ![p] = r]
           x == eval_rvalue(now.state, low)
<1>1. after \in Valuation
  BY ResultsAreWords DEF Valuation
<1>2. lower_statement(s).place = p
  BY DEF lower_statement
<1>3. now.state \in State(body) /\ now.guards \subseteq GuardsOf(body)
  BY DEF OutState
<1>4. DOMAIN now.state = DOMAIN mir.locals /\ \A l \in T : now.state[l] \in AbstractNumber
  BY <1>3 DEF State
<1>5. \A l \in DOMAIN mir.locals : after[l] = IF l = p THEN r ELSE vals[l]
  BY DEF Valuation
<1>6. p \in T => Holds(x, r)
  BY <1>3, <1>4, RvalueHolds DEF Follows
<1>7. /\ apply_stmt(now, lower_statement(s)).state = [now.state EXCEPT ![p] = x]
      /\ apply_stmt(now, lower_statement(s)).guards
           = {g \in now.guards : p \notin {g.on, g.local}} \cup extract_guard(lower_statement(s).place, low)
  BY <1>2 DEF apply_stmt
<1> HIDE DEF x
<1>8. ASSUME NEW l \in T
      PROVE  Holds([now.state EXCEPT ![p] = x][l], after[l])
  <2>1. [now.state EXCEPT ![p] = x][l] = IF l = p THEN x ELSE now.state[l]
    BY <1>4
  <2> HIDE DEF after
  <2>2. QED
    BY <1>5, <1>6, <2>1 DEF Follows
<1>9. ASSUME NEW g \in now.guards, p \notin {g.on, g.local}
      PROVE  GuardHolds(after, g)
  <2>1. g.on \in DOMAIN mir.locals /\ g.local \in DOMAIN mir.locals
    BY <1>3 DEF GuardsOf
  <2>2. after[g.on] = vals[g.on] /\ after[g.local] = vals[g.local]
    BY <1>5, <1>9, <2>1
  <2> HIDE DEF after
  <2>3. QED
    BY <2>2 DEF Follows, GuardHolds
<1>10. \A g \in extract_guard(lower_statement(s).place, low) : GuardHolds(after, g)
  BY RecordedGuardHolds
<1> HIDE DEF after, low
<1>11. Follows(T, apply_stmt(now, lower_statement(s)), after)
  BY <1>7, <1>8, <1>9, <1>10 DEF Follows
<1>12. QED
  BY <1>1, <1>11 DEF after

(* An edge that assumes what a guard found.                                *)
LEMMA RefinedHolds ==
  ASSUME NEW b, NEW out \in OutState(b), DOMAIN b.locals = DOMAIN mir.locals,
         NEW T \in SUBSET DOMAIN mir.locals, NEW vals \in Valuation, Follows(T, out, vals),
         NEW g \in out.guards, NEW true \in BOOLEAN, true <=> vals[g.on] # 0
  PROVE  \A l \in T : Holds(refine_local(out.state, g, true)[l], vals[l])
<1> DEFINE op == IF true THEN g.op ELSE negate_comparison(g.op)
           v == vals[g.local]
           y == apply_comparison(out.state[g.local], op, g.constant)
<1>1. /\ g \in GuardsOf(b) /\ out.state \in State(b)
      /\ g.constant \in Word /\ vals[g.on] = IF Compare(g.op, v, g.constant) THEN Scale ELSE 0
  BY DEF OutState, Follows, GuardHolds
<1>2. /\ g.local \in DOMAIN mir.locals /\ g.op \in Comparisons /\ v \in Word
      /\ out.state[g.local] \in AbstractNumber /\ DOMAIN out.state = DOMAIN mir.locals
  BY <1>1 DEF GuardsOf, Valuation, State
<1>3. true <=> Compare(g.op, v, g.constant)
  <2>1. Scale # 0
    BY Extremes
  <2>2. QED
    BY <1>1, <2>1
<1>4. op \in Comparisons /\ Compare(op, v, g.constant)
  BY <1>1, <1>2, <1>3, ComparisonsAgree
<1>5. refine_local(out.state, g, true) = [out.state EXCEPT ![g.local] = y]
  BY DEF refine_local
<1> HIDE DEF op
<1>6. g.local \in T => Holds(y, v)
  <2>1. ASSUME g.local \in T
        PROVE  Holds(y, v)
    <3>1. Holds(out.state[g.local], v)
      BY <2>1 DEF Follows
    <3>2. QED
      BY <1>1, <1>2, <1>4, <3>1, ComparedHolds
  <2>2. QED
    BY <2>1
<1> HIDE DEF y
<1>7. ASSUME NEW l \in T
      PROVE  Holds([out.state EXCEPT ![g.local] = y][l], vals[l])
  <2>1. [out.state EXCEPT ![g.local] = y][l] = IF l = g.local THEN y ELSE out.state[l]
    BY <1>2
  <2>2. QED
    BY <1>6, <2>1 DEF Follows
<1>8. QED
  BY <1>5, <1>7

(* An edge to a block whose state holds the locals.                        *)
Carries(edge, to, T, vals) == edge.to = to /\ \A l \in T : Holds(edge.state[l], vals[l])

(* The edge a switch takes on a value holds the locals.                    *)
LEMMA SwitchHolds ==
  ASSUME NEW b, NEW t, IsTerminator(b, t), t.kind = "SwitchInt", NEW out \in OutState(b),
         DOMAIN b.locals = DOMAIN mir.locals, NEW T \in SUBSET DOMAIN mir.locals,
         NEW vals \in Valuation, Follows(T, out, vals),
         1 \in DOMAIN t.targets, \A i \in DOMAIN t.targets : t.targets[i].value \in Word,
         NEW v \in Word, IsLocal(t.discr) => v = vals[t.discr.local]
  PROVE  /\ \A i \in DOMAIN t.targets : t.targets[i].value = v =>
              /\ i \in DOMAIN switch_states(t, out)
              /\ Carries(switch_states(t, out)[i], t.targets[i].block, T, vals)
         /\ (\A i \in DOMAIN t.targets : t.targets[i].value # v) =>
              /\ Len(t.targets) + 1 \in DOMAIN switch_states(t, out)
              /\ Carries(switch_states(t, out)[Len(t.targets) + 1], t.otherwise, T, vals)
<1> DEFINE local == IF IsLocal(t.discr) THEN {t.discr.local} ELSE {}
           guard == {g \in out.guards : g.on \in local}
           chosen == CHOOSE g \in guard : TRUE
           Pinned(k) == [l \in DOMAIN out.state |->
                           IF l \in local THEN pin(out.state[l], AsDouble(k)) ELSE out.state[l]]
           Taken(target) ==
             IF guard # {} THEN refine_local(out.state, chosen, target.value # 0)
             ELSE Pinned(target.value)
           onlyFalse == \A i \in DOMAIN t.targets : t.targets[i].value = 0
           Without == [l \in DOMAIN out.state |->
                         IF l \in local /\ Len(t.targets) = 1
                         THEN exclude(out.state[l], AsDouble(t.targets[1].value)) ELSE out.state[l]]
           otherwise ==
             IF guard # {} THEN IF onlyFalse THEN refine_local(out.state, chosen, TRUE) ELSE out.state
             ELSE Without
           taken == [i \in DOMAIN t.targets |-> Edge(t.targets[i].block, Taken(t.targets[i]))]
           edges == switch_states(t, out)
           n == Len(t.targets)
<1>1. n \in Nat /\ DOMAIN t.targets = 1..n
  <2>1. t.targets \in Seq([value : Int, block : DOMAIN b.blocks])
    BY DEF IsTerminator
  <2>2. QED
    BY <2>1
<1>2. edges = Append(taken, Edge(t.otherwise, otherwise))
  BY DEF switch_states
<1>3. /\ \A i \in DOMAIN t.targets : i \in DOMAIN edges /\ edges[i] = taken[i]
      /\ n + 1 \in DOMAIN edges /\ edges[n + 1] = Edge(t.otherwise, otherwise)
  <2>1. taken \in [1..n -> {taken[i] : i \in 1..n}]
    BY <1>1
  <2> DEFINE S == {taken[i] : i \in 1..n} \cup {Edge(t.otherwise, otherwise)}
             e == Edge(t.otherwise, otherwise)
  <2>2. taken \in [1..n -> S] /\ e \in S
    BY <2>1
  <2> HIDE DEF taken, S, e
  <2>3. taken \in Seq(S) /\ Len(taken) = n
    BY <1>1, <2>2
  <2>4. Append(taken, e)[n + 1] = e /\ Len(Append(taken, e)) = n + 1
        /\ \A i \in 1..n : Append(taken, e)[i] = taken[i]
    BY <1>1, <2>2, <2>3
  <2>5. DOMAIN Append(taken, e) = 1..n + 1
    BY <1>1, <2>2, <2>3, <2>4
  <2>6. edges = Append(taken, e) /\ e = Edge(t.otherwise, otherwise)
    BY <1>2 DEF e
  <2> HIDE DEF edges, otherwise, n
  <2>7. QED
    BY <1>1, <2>4, <2>5, <2>6
<1>4. \A i \in DOMAIN t.targets :
        taken[i].to = t.targets[i].block /\ taken[i].state = Taken(t.targets[i])
  BY DEF Edge
<1>5. /\ Edge(t.otherwise, otherwise).to = t.otherwise
      /\ Edge(t.otherwise, otherwise).state = otherwise
  BY DEF Edge
<1> HIDE DEF edges, taken
<1>6. \A l \in T : /\ l \in DOMAIN out.state /\ out.state[l] \in AbstractNumber
                   /\ Holds(out.state[l], vals[l])
                   /\ l \in local => v = vals[l]
  BY DEF OutState, State, Follows
<1>7. ASSUME guard # {}
      PROVE  chosen \in out.guards /\ vals[chosen.on] = v
  <2>1. chosen \in guard
    BY <1>7
  <2> HIDE DEF chosen
  <2>2. QED
    BY <2>1
<1> HIDE DEF chosen
<1>8. ASSUME NEW i \in DOMAIN t.targets, t.targets[i].value = v
      PROVE  \A l \in T : Holds(Taken(t.targets[i])[l], vals[l])
  <2>1. CASE guard # {}
    <3>1. (v # 0) \in BOOLEAN /\ Taken(t.targets[i]) = refine_local(out.state, chosen, v # 0)
      BY <1>8, <2>1
    <3>2. QED
      BY <1>7, <2>1, <3>1, RefinedHolds
  <2>2. CASE guard = {}
    <3>1. Taken(t.targets[i]) = Pinned(v) /\ AsDouble(v) = v
      BY <1>8, <2>2, AsDoubleOfWord
    <3> HIDE DEF Taken, guard, local
    <3>2. \A l \in T : Pinned(v)[l] = IF l \in local THEN pin(out.state[l], v) ELSE out.state[l]
      BY <1>6, <3>1
    <3>3. \A l \in T : l \in local => Holds(pin(out.state[l], v), vals[l])
      BY <1>6, PinHolds
    <3>4. QED
      BY <1>6, <3>1, <3>2, <3>3
  <2>3. QED
    BY <2>1, <2>2
<1>9. ASSUME \A i \in DOMAIN t.targets : t.targets[i].value # v
      PROVE  \A l \in T : Holds(otherwise[l], vals[l])
  <2>1. CASE guard # {} /\ onlyFalse
    <3>1. v # 0
      BY <1>9, <2>1
    <3>2. QED
      BY <1>7, <2>1, <3>1, RefinedHolds
  <2>2. CASE guard # {} /\ ~onlyFalse
    BY <1>6, <2>2
  <2>3. CASE guard = {}
    <3> DEFINE k == t.targets[1].value
    <3>1. k \in Word /\ k # v /\ AsDouble(k) = k
      BY <1>9, AsDoubleOfWord
    <3>2. otherwise = Without
      BY <2>3
    <3> HIDE DEF otherwise, guard, local
    <3>3. \A l \in T : Without[l] \in {exclude(out.state[l], k), out.state[l]}
                       /\ (l \notin local => Without[l] = out.state[l])
      BY <1>6, <3>1
    <3>4. \A l \in T : l \in local => Holds(exclude(out.state[l], k), vals[l])
      BY <1>6, <3>1, ExcludeHolds
    <3>5. QED
      BY <1>6, <3>2, <3>3, <3>4
  <2>4. QED
    BY <2>1, <2>2, <2>3
<1> HIDE DEF Taken, otherwise, n
<1>10. QED
  BY <1>3, <1>4, <1>5, <1>8, <1>9 DEF edges, n, Carries

(* Wherever a terminator takes the program, an edge leads and holds the    *)
(* locals.                                                                 *)
LEMMA BranchFollows ==
  ASSUME WholeProgram, NEW t, WholeTerminator(t),
         IsTerminator(body, lower_terminator(t, mir.locals)),
         NEW out \in OutState(body), DOMAIN body.locals = DOMAIN mir.locals,
         NEW T \in SUBSET DOMAIN mir.locals, NEW vals \in Valuation, Follows(T, out, vals),
         NEW k \in Successors(t, vals), NEW after \in Destination(t, vals), ~Misreads(t, vals)
  PROVE  LET edges == successor_states(lower_terminator(t, mir.locals), out)
         IN  after \in Valuation /\ \E i \in DOMAIN edges : Carries(edges[i], k, T, after)
<1> DEFINE low == lower_terminator(t, mir.locals)
           edges == successor_states(low, out)
<1>1. \A l \in T : /\ l \in DOMAIN out.state /\ l \in DOMAIN mir.locals
                   /\ Holds(out.state[l], vals[l])
  BY DEF OutState, State, Follows
<1>2. t.kind # "Call" => after = vals
  BY DEF Destination
<1>3. CASE t.kind \in {"Goto", "Assert"}
  <2>1. k = t.block /\ after = vals
    BY <1>2, <1>3 DEF Successors
  <2>2. low = t
    BY <1>3 DEF lower_terminator
  <2>3. edges = <<Edge(t.block, out.state)>>
    BY <1>3, <2>2 DEF successor_states
  <2>4. 1 \in DOMAIN edges /\ edges[1].to = k /\ edges[1].state = out.state
    BY <2>1, <2>3 DEF Edge
  <2> HIDE DEF edges
  <2>5. QED
    BY <1>1, <2>1, <2>4 DEF edges, Carries
<1>4. CASE t.kind = "Drop"
  <2>1. k = t.block /\ after = vals
    BY <1>2, <1>4 DEF Successors
  <2>2. low = [kind |-> "Other", successors |-> <<t.block>>]
    BY <1>4 DEF lower_terminator
  <2>3. low.kind = "Other" /\ low.successors = <<t.block>>
    BY <2>2
  <2> HIDE DEF low
  <2>4. edges = [i \in DOMAIN low.successors |-> Edge(low.successors[i], out.state)]
    BY <2>3 DEF successor_states
  <2>5. 1 \in DOMAIN edges /\ edges[1].to = k /\ edges[1].state = out.state
    BY <2>1, <2>3, <2>4 DEF Edge
  <2> HIDE DEF edges
  <2>6. QED
    BY <1>1, <2>1, <2>5 DEF edges, low, Carries
<1>5. CASE t.kind = "Call"
  <2> DEFINE d == t.destination.local
             gone == IF t.destination.projected THEN {} ELSE {d}
             havocked == [l \in DOMAIN out.state |-> IF l \in gone THEN unknown ELSE out.state[l]]
  <2>1. k \in ToSet(t.target)
    BY <1>5 DEF Successors
  <2>2. low = [kind |-> "Call", target |-> t.target, destination |-> gone]
    BY <1>5 DEF lower_terminator
  <2>3. low.kind = "Call" /\ low.target = t.target /\ low.destination = gone
    BY <2>2
  <2>4. PICK i \in DOMAIN t.target : t.target[i] = k
    BY <2>1 DEF ToSet
  <2> HIDE DEF low, gone
  <2>5. edges = [j \in DOMAIN t.target |-> Edge(t.target[j], havocked)]
    BY <2>3 DEF successor_states
  <2>6. i \in DOMAIN edges /\ edges[i].to = k /\ edges[i].state = havocked
    BY <2>4, <2>5 DEF Edge
  <2> HIDE DEF edges
  <2>7. /\ after \in Valuation
        /\ \A l \in DOMAIN mir.locals : l \notin gone => after[l] = vals[l]
    <3>1. CASE t.destination.projected
      BY <1>5, <3>1 DEF Destination, gone
    <3>2. CASE ~t.destination.projected
      <4>1. PICK v \in Inputs(mir.locals[d]) : after = [vals EXCEPT ![d] = v]
        BY <1>5, <3>2 DEF Destination
      <4>2. d \in DOMAIN mir.locals => v \in Word /\ Fits(mir.locals[d], v)
        BY <4>1, WordsAssumption, NarrowAssumption DEF WholeProgram, Fits
      <4>3. /\ DOMAIN vals = DOMAIN mir.locals
            /\ \A l \in DOMAIN mir.locals : vals[l] \in Word /\ Fits(mir.locals[l], vals[l])
            /\ vals \in [DOMAIN mir.locals -> Word]
        BY DEF Valuation
      <4> HIDE DEF d
      <4>4. /\ after \in [DOMAIN mir.locals -> Word]
            /\ \A l \in DOMAIN mir.locals : Fits(mir.locals[l], after[l])
        BY <4>1, <4>2, <4>3
      <4>5. \A l \in DOMAIN mir.locals : l # d => after[l] = vals[l]
        BY <4>1, <4>3
      <4>6. QED
        BY <3>2, <4>4, <4>5 DEF Valuation, gone, d
    <3>3. QED
      BY <3>1, <3>2
  <2>8. ASSUME NEW l \in T
        PROVE  Holds(havocked[l], after[l])
    <3>1. havocked[l] = IF l \in gone THEN unknown ELSE out.state[l]
      BY <1>1
    <3>2. after[l] \in Word
      BY <1>1, <2>7 DEF Valuation
    <3>3. QED
      BY <1>1, <2>7, <3>1, <3>2, ConstantsHold
  <2> HIDE DEF havocked
  <2>9. QED
    BY <2>6, <2>7, <2>8 DEF edges, low, Carries
<1>6. CASE t.kind = "SwitchInt"
  <2> DEFINE v == Value(vals, t.discr)
             hit == Hit(t, vals)
             ty == mir.locals[t.discr.local]
  <2>1. after = vals /\ k \in IF hit = {} THEN {t.otherwise} ELSE {t.targets[Min(hit)].block}
    BY <1>2, <1>6 DEF Successors
  <2>2. hit = {i \in DOMAIN t.targets : t.targets[i].value = v}
    BY DEF Hit
  <2>3. /\ low.kind = "SwitchInt" /\ low.otherwise = t.otherwise
        /\ low.discr = lower_operand(t.discr)
        /\ low.targets = [i \in DOMAIN t.targets |->
                            [value |-> SwitchValue(mir.locals[t.discr.local], t.targets[i].value),
                             block |-> t.targets[i].block]]
    BY <1>6 DEF lower_terminator
  <2>4. 1 \in DOMAIN t.targets
    BY <1>6 DEF WholeTerminator
  <2>5. /\ DOMAIN low.targets = DOMAIN t.targets
        /\ \A i \in DOMAIN t.targets : /\ low.targets[i].value = SwitchValue(ty, t.targets[i].value)
                                       /\ low.targets[i].block = t.targets[i].block
                                       /\ t.targets[i].value \in Word /\ Fits(ty, t.targets[i].value)
    BY <1>6, <2>3 DEF WholeTerminator
  <2>6. edges = switch_states(low, out)
    BY <2>3 DEF successor_states
  <2>7. IsTerminator(body, low)
    OBVIOUS
  <2> HIDE DEF low, edges
  <2>8. DOMAIN low.targets = 1..Len(low.targets) /\ Len(low.targets) \in Nat
    <3>1. low.targets \in Seq([value : Int, block : DOMAIN body.blocks])
      BY <2>3, <2>7 DEF IsTerminator
    <3>2. QED
      BY <3>1
  <2>9. IsLocal(low.discr) => v = vals[low.discr.local]
    BY <2>3, LocalOperand DEF Value
  <2>10. v \in Word /\ Fits(ty, v)
    BY <1>6 DEF WholeTerminator, Value, Valuation
  <2> DEFINE sw == switch_states(low, out)
             n == Len(low.targets)
  <2>11. 1 \in DOMAIN low.targets /\ \A i \in DOMAIN low.targets : low.targets[i].value \in Word
    BY <2>4, <2>5, SwitchValues
  <2>12. \A i \in hit : low.targets[i].value = v
    BY <1>6, <2>5, <2>2 DEF Misreads
  <2>13. hit = {} => \A i \in DOMAIN low.targets : low.targets[i].value # v
    BY <2>5, <2>10, <2>2, SwitchValues
  <2>14. v \in Word /\ (IsLocal(low.discr) => v = vals[low.discr.local])
    BY <2>9, <2>10
  <2> HIDE DEF v
  <2>15. /\ \A i \in DOMAIN low.targets : low.targets[i].value = v =>
              i \in DOMAIN sw /\ Carries(sw[i], low.targets[i].block, T, vals)
         /\ (\A i \in DOMAIN low.targets : low.targets[i].value # v) =>
              n + 1 \in DOMAIN sw /\ Carries(sw[n + 1], low.otherwise, T, vals)
    BY <2>3, <2>7, <2>11, <2>14, SwitchHolds
  <2> HIDE DEF sw, n
  <2>16. \E i \in DOMAIN sw : Carries(sw[i], k, T, vals)
    <3>1. CASE hit # {}
      <4>1. Min(hit) \in hit
        <5>1. \A i \in hit : i \in 1..Len(low.targets)
          BY <2>5, <2>8, <2>2
        <5> HIDE DEF hit
        <5>2. \A i \in hit : i \in Int /\ 1 <= i
          BY <5>1
        <5>3. hit # {} /\ 1 \in Int
          BY <3>1
        <5>4. QED
          BY <5>2, <5>3, LeastOf, Zenon
      <4> DEFINE m == Min(hit)
      <4>2. m \in DOMAIN t.targets /\ low.targets[m].value = v /\ k = t.targets[m].block
        BY <2>1, <2>2, <2>12, <3>1, <4>1
      <4> HIDE DEF m, hit
      <4>3. m \in DOMAIN sw /\ Carries(sw[m], low.targets[m].block, T, vals)
        BY <2>5, <2>15, <4>2
      <4>4. QED
        BY <2>5, <4>2, <4>3
    <3>2. CASE hit = {}
      <4>1. k = t.otherwise /\ \A i \in DOMAIN low.targets : low.targets[i].value # v
        BY <2>1, <2>13, <3>2
      <4> HIDE DEF hit
      <4>2. QED
        BY <2>3, <2>15, <4>1
    <3>3. QED
      BY <3>1, <3>2
  <2>17. QED
    BY <2>1, <2>6, <2>16 DEF edges, low, sw
<1>7. CASE t.kind \notin {"Goto", "Assert", "Drop", "Call", "SwitchInt"}
  BY <1>7 DEF Successors
<1>8. QED
  BY <1>3, <1>4, <1>5, <1>6, <1>7

-----------------------------------------------------------------------------
(***************************************************************************)
(* The running program stays with the analysis: before statement next of   *)
(* block at, what the analysis has after next - 1 statements holds the     *)
(* trusted locals.                                                         *)
(***************************************************************************)
Tracked(at, next, vals) ==
  /\ at \in DOMAIN block_in
  /\ next \in 1..Len(mir.blocks[at].stmts) + 1
  /\ vals \in Valuation
  /\ Follows(Trusted, States(body.blocks[at], block_in[at])[next - 1], vals)

LEMMA HereFacts ==
  ASSUME IInv, WholeProgram, NEW b \in DOMAIN block_in
  PROVE  /\ b \in Block /\ block_in[b] \in State(body) /\ IsBlock(body, body.blocks[b])
         /\ DOMAIN body.locals = DOMAIN mir.locals
         /\ Len(mir.blocks[b].stmts) \in Nat /\ DOMAIN mir.blocks[b].stmts = 1..Len(mir.blocks[b].stmts)
         /\ Len(body.blocks[b].stmts) = Len(mir.blocks[b].stmts)
         /\ \A i \in 1..Len(mir.blocks[b].stmts) :
              /\ body.blocks[b].stmts[i] = lower_statement(mir.blocks[b].stmts[i])
              /\ WholeStatement(mir.blocks[b].stmts[i])
              /\ mir.blocks[b].stmts[i].place.local \in DOMAIN mir.locals
              /\ IsRvalue(body, lower_statement(mir.blocks[b].stmts[i]).rvalue)
         /\ body.blocks[b].terminator = lower_terminator(mir.blocks[b].terminator, mir.locals)
         /\ WholeTerminator(mir.blocks[b].terminator)
         /\ IsTerminator(body, lower_terminator(mir.blocks[b].terminator, mir.locals))
<1>1. mir \in Programs /\ DOMAIN block_in \subseteq Block /\ block_in[b] \in State(body)
  <2>1. mir \in Programs /\ Iteration \in FlowSet(body) /\ Iteration.block_in = block_in
    BY DEF IInv, IterationTyped, Iteration
  <2>2. DOMAIN block_in \subseteq DOMAIN body.blocks /\ block_in[b] \in State(body)
    BY <2>1, FlowFacts
  <2>3. QED
    BY <2>1, <2>2, BodyFacts
<1>2. /\ IsBody(body) /\ DOMAIN body.blocks = Block /\ DOMAIN body.locals = DOMAIN mir.locals
  BY <1>1, BodyFacts
<1>3. IsBlock(body, body.blocks[b])
  BY <1>1, <1>2 DEF IsBody
<1>4. b \in DOMAIN mir.blocks
  BY <1>1 DEF Block
<1>5. /\ body.blocks[b].stmts = [i \in DOMAIN mir.blocks[b].stmts |-> lower_statement(mir.blocks[b].stmts[i])]
      /\ body.blocks[b].terminator = lower_terminator(mir.blocks[b].terminator, mir.locals)
  BY <1>4 DEF body, lower_body
<1>6. Len(mir.blocks[b].stmts) \in Nat /\ DOMAIN mir.blocks[b].stmts = 1..Len(mir.blocks[b].stmts)
  BY <1>1, <1>4, BodiesAssumption
<1>7. /\ Len(body.blocks[b].stmts) \in Nat
      /\ DOMAIN body.blocks[b].stmts = 1..Len(body.blocks[b].stmts)
      /\ \A i \in DOMAIN body.blocks[b].stmts :
           /\ body.blocks[b].stmts[i].place \in DOMAIN body.locals
           /\ IsRvalue(body, body.blocks[b].stmts[i].rvalue)
      /\ IsTerminator(body, body.blocks[b].terminator)
  BY <1>3 DEF IsBlock
<1>8. Len(body.blocks[b].stmts) = Len(mir.blocks[b].stmts)
  <2>1. ASSUME NEW m \in Nat, NEW n \in Nat, 1..m = 1..n
        PROVE  m = n
    <3>1. m \in 1..m => m \in 1..n
      BY <2>1
    <3>2. n \in 1..n => n \in 1..m
      BY <2>1
    <3>3. QED
      BY <3>1, <3>2
  <2>2. DOMAIN body.blocks[b].stmts = DOMAIN mir.blocks[b].stmts
    BY <1>5
  <2>3. QED
    BY <1>6, <1>7, <2>1, <2>2
<1>9. ASSUME NEW i \in 1..Len(mir.blocks[b].stmts)
      PROVE  /\ body.blocks[b].stmts[i] = lower_statement(mir.blocks[b].stmts[i])
             /\ WholeStatement(mir.blocks[b].stmts[i])
             /\ mir.blocks[b].stmts[i].place.local \in DOMAIN mir.locals
             /\ IsRvalue(body, lower_statement(mir.blocks[b].stmts[i]).rvalue)
  <2>1. body.blocks[b].stmts[i] = lower_statement(mir.blocks[b].stmts[i])
    BY <1>5, <1>6
  <2>2. lower_statement(mir.blocks[b].stmts[i]).place = mir.blocks[b].stmts[i].place.local
    BY DEF lower_statement
  <2>3. WholeStatement(mir.blocks[b].stmts[i])
    BY <1>1, <1>6 DEF WholeProgram
  <2>4. QED
    BY <1>2, <1>7, <1>8, <2>1, <2>2, <2>3
<1>10. WholeTerminator(mir.blocks[b].terminator)
  BY <1>1 DEF WholeProgram
<1>11. QED
  BY <1>1, <1>2, <1>3, <1>5, <1>6, <1>7, <1>8, <1>9, <1>10

(* What holds as a block is entered.                                       *)
LEMMA EntryTracked ==
  ASSUME IInv, WholeProgram, NEW b \in DOMAIN block_in, NEW vals \in Valuation,
         \A l \in Trusted : Holds(block_in[b][l], vals[l])
  PROVE  Tracked(b, 1, vals)
<1>1. /\ Len(mir.blocks[b].stmts) \in Nat /\ IsBlock(body, body.blocks[b])
      /\ block_in[b] \in State(body) /\ Len(body.blocks[b].stmts) = Len(mir.blocks[b].stmts)
  BY HereFacts
<1>2. States(body.blocks[b], block_in[b])[0] = Entered(block_in[b])
  <2>1. 0 \in 0..Len(body.blocks[b].stmts)
    BY <1>1
  <2>2. QED
    BY <1>1, <2>1, StatesAreOut
<1>3. Follows(Trusted, Entered(block_in[b]), vals)
  BY DEF Follows, Entered
<1>4. 1 \in 1..Len(mir.blocks[b].stmts) + 1 /\ 1 - 1 = 0
  BY <1>1
<1>5. QED
  BY <1>2, <1>3, <1>4 DEF Tracked

(* One statement of the program.                                           *)
LEMMA StatementTracked ==
  ASSUME IInv, WholeProgram, NEW at, NEW next, NEW vals, Tracked(at, next, vals),
         next <= Len(mir.blocks[at].stmts), NEW r \in Results(vals, mir.blocks[at].stmts[next])
  PROVE  Tracked(at, next + 1, [vals EXCEPT ![mir.blocks[at].stmts[next].place.local] = r])
<1> DEFINE s == mir.blocks[at].stmts[next]
           n == Len(mir.blocks[at].stmts)
           states == States(body.blocks[at], block_in[at])
           after == [vals EXCEPT ![s.place.local] = r]
<1>1. /\ at \in DOMAIN block_in /\ next \in 1..n + 1 /\ vals \in Valuation
      /\ Follows(Trusted, states[next - 1], vals)
  BY DEF Tracked
<1>2. /\ at \in Block /\ n \in Nat /\ DOMAIN mir.blocks[at].stmts = 1..n
      /\ Len(body.blocks[at].stmts) = n
      /\ IsBlock(body, body.blocks[at]) /\ block_in[at] \in State(body)
      /\ DOMAIN body.locals = DOMAIN mir.locals
  BY <1>1, HereFacts
<1> HIDE DEF n
<1>3. next \in 1..n /\ next \in 0..n /\ next - 1 \in 0..n /\ next # 0
      /\ next + 1 \in 1..n + 1 /\ (next + 1) - 1 = next
  BY <1>1, <1>2 DEF n
<1>4. /\ body.blocks[at].stmts[next] = lower_statement(s) /\ WholeStatement(s)
      /\ s.place.local \in DOMAIN mir.locals /\ IsRvalue(body, lower_statement(s).rvalue)
  BY <1>1, <1>3, HereFacts DEF n
<1>5. states[next - 1] \in OutState(body) /\ states[next] = apply_stmt(states[next - 1], lower_statement(s))
  BY <1>2, <1>3, <1>4, StatesAreOut
<1>6. Trusted \in SUBSET DOMAIN mir.locals
      /\ (s.place.local \in Trusted /\ ~s.place.projected => Exactly(s.rvalue, Trusted))
  BY <1>2, <1>3, TrustedIsClosed DEF Closed
<1> HIDE DEF states
<1>7. after \in Valuation /\ Follows(Trusted, apply_stmt(states[next - 1], lower_statement(s)), after)
  <2> HIDE DEF s
  <2>1. r \in Results(vals, s)
    BY DEF s
  <2>2. QED
    BY <1>1, <1>2, <1>4, <1>5, <1>6, <2>1, StatementFollows
<1> HIDE DEF s, after
<1>8. Tracked(at, next + 1, after)
  BY <1>1, <1>3, <1>5, <1>7 DEF Tracked, states, n
<1>9. QED
  BY <1>8 DEF after, s

(* What the edges carry is within the entry states, so the next block is   *)
(* entered in a state that holds the trusted locals.                       *)
LEMMA BranchTracked ==
  ASSUME IInv, Uncapped, worklist = << >>, WholeProgram,
         NEW at, NEW next, NEW vals, Tracked(at, next, vals), next > Len(mir.blocks[at].stmts),
         NEW k \in Successors(mir.blocks[at].terminator, vals),
         NEW after \in Destination(mir.blocks[at].terminator, vals),
         ~Misreads(mir.blocks[at].terminator, vals)
  PROVE  Tracked(k, 1, after)
<1> DEFINE t == mir.blocks[at].terminator
           n == Len(mir.blocks[at].stmts)
           states == States(body.blocks[at], block_in[at])
           out == transfer_block(body.blocks[at], block_in[at])
           edges == EdgesOf(at)
<1>1. /\ at \in DOMAIN block_in /\ next \in 1..n + 1 /\ vals \in Valuation
      /\ Follows(Trusted, states[next - 1], vals)
  BY DEF Tracked
<1>2. /\ at \in Block /\ n \in Nat /\ Len(body.blocks[at].stmts) = n
      /\ IsBlock(body, body.blocks[at]) /\ block_in[at] \in State(body)
      /\ DOMAIN body.locals = DOMAIN mir.locals
      /\ body.blocks[at].terminator = lower_terminator(t, mir.locals) /\ WholeTerminator(t)
      /\ IsTerminator(body, lower_terminator(t, mir.locals))
  BY <1>1, HereFacts
<1>3. next - 1 = n
  BY <1>1, <1>2
<1>4. out \in OutState(body) /\ out = states[n] /\ Follows(Trusted, out, vals)
  BY <1>1, <1>2, <1>3, TransferIsOut DEF transfer_block
<1>5. edges = successor_states(lower_terminator(t, mir.locals), out)
  BY <1>2 DEF EdgesOf
<1> HIDE DEF states, out, n
<1>6. Trusted \in SUBSET DOMAIN mir.locals
  BY TrustedIsClosed
<1>7. after \in Valuation /\ \E i \in DOMAIN edges : Carries(edges[i], k, Trusted, after)
  <2> HIDE DEF t, edges
  <2>1. k \in Successors(t, vals) /\ after \in Destination(t, vals) /\ ~Misreads(t, vals)
    BY DEF t
  <2>2. QED
    BY <1>1, <1>2, <1>4, <1>5, <1>6, <2>1, BranchFollows
<1> HIDE DEF edges
<1>8. PICK i \in DOMAIN edges : Carries(edges[i], k, Trusted, after)
  BY <1>7
<1>9. /\ k \in DOMAIN block_in
      /\ \A l \in DOMAIN mir.locals : Within(edges[i].state[l], block_in[k][l])
  BY <1>1, <1>8, IInvFixedPoint DEF FixedPoint, edges, Carries
<1>10. /\ edges[i].state \in State(body) /\ block_in[k] \in State(body)
  <2>1. EdgesOf(at) \in Seq(EdgeSet(body))
    BY <1>1, EdgesAreTyped DEF IInv
  <2>2. edges[i] \in EdgeSet(body)
    BY <1>8, <2>1 DEF edges
  <2>3. QED
    BY <1>9, <2>2, HereFacts DEF EdgeSet
<1>11. ASSUME NEW l \in Trusted
       PROVE  Holds(block_in[k][l], after[l])
  <2>1. l \in DOMAIN mir.locals /\ after[l] \in Word
    BY <1>6, <1>7 DEF Valuation
  <2>2. edges[i].state[l] \in AbstractNumber /\ block_in[k][l] \in AbstractNumber
    BY <1>2, <1>10, <2>1 DEF State
  <2>3. Holds(edges[i].state[l], after[l])
    BY <1>8 DEF Carries
  <2>4. QED
    BY <1>9, <2>1, <2>2, <2>3, HoldsWithin
<1>12. QED
  BY <1>7, <1>9, <1>11, EntryTracked

-----------------------------------------------------------------------------
(***************************************************************************)
(* The return range: the ranges at the reached blocks that return, joined. *)
(***************************************************************************)
RangeAt(b) == transfer_block(body.blocks[b], block_in[b]).state[0]

Returning(b) == b \in DOMAIN block_in /\ body.blocks[b].terminator.kind = "Return"

Extended(b, R) ==
  IF ~Returning(b) THEN R
  ELSE IF R = {} THEN {RangeAt(b)}
  ELSE {join(r, RangeAt(b)) : r \in R}

AreRanges(f) ==
  f = [k \in 0..Max(Block) + 1 |-> IF k = 0 THEN {} ELSE Extended(k - 1, f[k - 1])]

LEMMA ReturnRangesIs == ReturnRanges = (CHOOSE f : AreRanges(f))[Max(Block) + 1]
BY DEF ReturnRanges, AreRanges, Extended, Returning, RangeAt

LEMMA RangeIsNumber ==
  ASSUME IInv, NEW b \in DOMAIN block_in
  PROVE  RangeAt(b) \in AbstractNumber
<1>1. /\ mir \in Programs /\ DOMAIN block_in \subseteq Block /\ block_in[b] \in State(body)
  <2>1. mir \in Programs /\ Iteration \in FlowSet(body) /\ Iteration.block_in = block_in
    BY DEF IInv, IterationTyped, Iteration
  <2>2. DOMAIN block_in \subseteq DOMAIN body.blocks /\ block_in[b] \in State(body)
    BY <2>1, FlowFacts
  <2>3. QED
    BY <2>1, <2>2, BodyFacts
<1>2. IsBody(body) /\ DOMAIN body.blocks = Block
  BY <1>1, BodyFacts
<1>3. IsBlock(body, body.blocks[b]) /\ 0 \in DOMAIN body.locals
  BY <1>1, <1>2 DEF IsBody
<1>4. transfer_block(body.blocks[b], block_in[b]) \in OutState(body)
  BY <1>1, <1>3, TransferIsOut
<1>5. transfer_block(body.blocks[b], block_in[b]).state \in State(body)
  BY <1>4 DEF OutState
<1>6. QED
  BY <1>3, <1>5 DEF RangeAt, State

(* What the return range of the summary stands for includes the range of   *)
(* every reached block that returns.                                       *)
LEMMA ReturnRangeIncludes ==
  ASSUME IInv, NEW b \in DOMAIN block_in, body.blocks[b].terminator.kind = "Return"
  PROVE  ReturnRange \in AbstractNumber /\ Within(RangeAt(b), ReturnRange)
<1> DEFINE last == Max(Block)
           n == last + 1
           D == {{}} \cup {{x} : x \in AbstractNumber}
           step == [k \in 1..n |-> [R \in D |-> Extended(k - 1, R)]]
<1>1. last \in Nat /\ Block = 0..last /\ DOMAIN block_in \subseteq Block
  <2>1. mir \in Programs /\ Iteration \in FlowSet(body) /\ Iteration.block_in = block_in
    BY DEF IInv, IterationTyped, Iteration
  <2>2. DOMAIN block_in \subseteq DOMAIN body.blocks
    BY <2>1, FlowFacts
  <2>3. IsBody(body) /\ DOMAIN body.blocks = Block
    BY <2>1, BodyFacts
  <2>4. Max(Block) \in Nat /\ Block = 0..Max(Block)
    BY <2>3 DEF IsBody
  <2>5. QED
    BY <2>2, <2>3, <2>4
<1>2. n \in Nat /\ b \in 0..last /\ b + 1 \in 1..n
  BY <1>1
<1> HIDE DEF n, last
<1>3. ASSUME NEW k, NEW R \in D
      PROVE  /\ Extended(k, R) \in D
             /\ Returning(k) => \E x \in AbstractNumber : Extended(k, R) = {x} /\ Within(RangeAt(k), x)
             /\ \A y \in AbstractNumber : R = {y} =>
                  \E x \in AbstractNumber : Extended(k, R) = {x} /\ Within(y, x)
  <2>1. CASE ~Returning(k)
    BY <2>1, WithinReflexive DEF Extended
  <2>2. CASE Returning(k)
    <3>1. RangeAt(k) \in AbstractNumber
      BY <2>2, RangeIsNumber DEF Returning
    <3> DEFINE a == RangeAt(k)
    <3> HIDE DEF a
    <3>2. CASE R = {}
      <4>1. Extended(k, R) = {a}
        BY <2>2, <3>2 DEF Extended, a
      <4>2. QED
        BY <3>1, <3>2, <4>1, WithinReflexive DEF a
    <3>3. CASE R # {}
      <4>1. PICK y \in AbstractNumber : R = {y}
        BY <3>3
      <4>2. Extended(k, R) = {join(y, a)}
        BY <2>2, <4>1 DEF Extended, a
      <4>3. join(y, a) \in AbstractNumber /\ Within(y, join(y, a)) /\ Within(a, join(y, a))
        BY <3>1, JoinIsNumber DEF a
      <4>4. QED
        BY <4>1, <4>2, <4>3 DEF a
    <3>4. QED
      BY <3>2, <3>3
  <2>3. QED
    BY <2>1, <2>2
<1>4. {} \in D
  OBVIOUS
<1> HIDE DEF D
<1>5. step \in [1..n -> [D -> D]] /\ \A k \in 1..n, R \in D : step[k][R] = Extended(k - 1, R)
  BY <1>3
<1> HIDE DEF step
<1>6. PICK f : Iterates(D, {}, n, step, f)
  BY <1>2, <1>4, <1>5, IterationExists
<1>7. AreRanges(f)
  <2>1. f \in [0..n -> D] /\ f[0] = {} /\ \A k \in 1..n : f[k] = step[k][f[k - 1]]
    BY <1>6 DEF Iterates
  <2>2. ASSUME NEW k \in 0..n
        PROVE  f[k] = IF k = 0 THEN {} ELSE Extended(k - 1, f[k - 1])
    <3>1. CASE k = 0
      BY <2>1, <3>1
    <3>2. CASE k # 0
      <4>1. k \in 1..n /\ k - 1 \in 0..n
        BY <1>2, <3>2
      <4>2. f[k - 1] \in D
        BY <2>1, <4>1
      <4>3. QED
        BY <1>5, <2>1, <3>2, <4>1, <4>2
    <3>3. QED
      BY <3>1, <3>2
  <2>3. QED
    BY <2>1, <2>2 DEF AreRanges, n, last
<1> DEFINE g == CHOOSE h : AreRanges(h)
<1>8. AreRanges(g) /\ ReturnRanges = g[n]
  BY <1>7, ReturnRangesIs DEF n, last
<1> HIDE DEF g
<1>9. \A k \in 0..n : g[k] = IF k = 0 THEN {} ELSE Extended(k - 1, g[k - 1])
  BY <1>8 DEF AreRanges, n, last
<1> DEFINE Good == {k \in 0..n : /\ g[k] \in D
                                 /\ b < k => \E x \in AbstractNumber : g[k] = {x} /\ Within(RangeAt(b), x)}
<1>10. 0 \in Good
  BY <1>2, <1>4, <1>9
<1>11. ASSUME NEW k \in 1..n, k - 1 \in Good
       PROVE  k \in Good
  <2>1. k \in 0..n /\ k # 0 /\ (b < k => b < k - 1 \/ b = k - 1) /\ k - 1 \in Int
    BY <1>2
  <2> DEFINE R == g[k - 1]
  <2>2. R \in D /\ g[k] = Extended(k - 1, R)
        /\ (b < k - 1 => \E x \in AbstractNumber : R = {x} /\ Within(RangeAt(b), x))
    BY <1>9, <1>11, <2>1
  <2> HIDE DEF R
  <2>3. g[k] \in D
    BY <1>3, <2>2
  <2>4. CASE b = k - 1
    <3>1. Returning(b)
      BY DEF Returning
    <3>2. \E x \in AbstractNumber : g[k] = {x} /\ Within(RangeAt(b), x)
      BY <1>3, <2>2, <2>4, <3>1
    <3>3. QED
      BY <2>1, <2>3, <3>2
  <2>5. CASE b < k - 1
    <3>1. PICK y \in AbstractNumber : R = {y} /\ Within(RangeAt(b), y)
      BY <2>2, <2>5
    <3>2. PICK x \in AbstractNumber : g[k] = {x} /\ Within(y, x)
      BY <1>3, <2>2, <3>1
    <3>3. Within(RangeAt(b), x)
      BY <3>1, <3>2, RangeIsNumber, WithinTransitive
    <3>4. QED
      BY <2>1, <2>3, <3>2, <3>3
  <2>6. CASE ~(b < k)
    BY <2>1, <2>3, <2>6
  <2>7. QED
    BY <2>1, <2>4, <2>5, <2>6
<1>12. n \in Good /\ b < n
  <2>1. n \in 0..n /\ b < n
    BY <1>2
  <2> HIDE DEF Good
  <2>2. QED
    BY <1>2, <1>10, <1>11, <2>1, InductionUpTo
<1>13. PICK x \in AbstractNumber : ReturnRanges = {x} /\ Within(RangeAt(b), x)
  BY <1>8, <1>12
<1>14. ReturnRange = x
  BY <1>13 DEF ReturnRange
<1>15. QED
  BY <1>13, <1>14

-----------------------------------------------------------------------------
(* What holds an integer of the program covers it.                         *)
LEMMA HoldsCovers ==
  ASSUME NEW x \in AbstractNumber, NEW v \in Word, Holds(x, v)
  PROVE  Covers(x, v)
<1>1. IsWhole(v) /\ v # NaN
  BY WordFacts
<1>2. QED
  BY <1>1 DEF Holds, Covers

-----------------------------------------------------------------------------
(***************************************************************************)
(* The entry state of block 0 keeps standing for what it starts as, which  *)
(* holds whatever the caller passes.                                       *)
(***************************************************************************)
Entry == 0 \in DOMAIN block_in /\ StateWithin(body, initial_state(body), block_in[0])

LEMMA InitEntry == Init => Entry
<1> SUFFICES ASSUME Init
             PROVE  Entry
  OBVIOUS
<1>1. mir \in Programs /\ block_in = [b \in {0} |-> initial_state(body)]
  BY DEF Init
<1>2. initial_state(body) \in State(body)
  BY <1>1, InitialState DEF body
<1>3. StateWithin(body, initial_state(body), initial_state(body))
  BY <1>2, StatesWithin
<1>4. QED
  BY <1>1, <1>3 DEF Entry

LEMMA StateTyped ==
  ASSUME IInv
  PROVE  /\ initial_state(body) \in State(body)
         /\ \A b \in DOMAIN block_in : block_in[b] \in State(body)
<1>1. mir \in Programs /\ Iteration \in FlowSet(body) /\ Iteration.block_in = block_in
  BY DEF IInv, IterationTyped, Iteration
<1>2. \A b \in DOMAIN block_in : block_in[b] \in State(body)
  BY <1>1, FlowFacts
<1>3. QED
  BY <1>1, <1>2, InitialState DEF body

LEMMA NextEntry == IInv /\ IInv' /\ Entry /\ [Next]_vars => Entry'
<1> SUFFICES ASSUME IInv, IInv', Entry, [Next]_vars
             PROVE  Entry'
  OBVIOUS
<1>1. CASE Pop
  <2>1. body' = body
    BY <1>1 DEF Pop, body
  <2>2. 0 \in DOMAIN block_in' /\ StateWithin(body, block_in[0], block_in'[0])
    BY <1>1, PopIInv DEF Entry
  <2>3. initial_state(body) \in State(body) /\ block_in[0] \in State(body)
    BY StateTyped DEF Entry
  <2>4. block_in'[0] \in State(body)
    <3>1. mir' \in Programs /\ Iteration' \in FlowSet(body') /\ Iteration'.block_in = block_in'
      BY DEF IInv, IterationTyped, Iteration
    <3>2. QED
      BY <2>1, <2>2, <3>1, FlowFacts
  <2>5. StateWithin(body, initial_state(body), block_in'[0])
    BY <2>2, <2>3, <2>4, StatesWithinTransitive DEF Entry
  <2>6. QED
    BY <2>1, <2>2, <2>5 DEF Entry
<1>2. CASE UNCHANGED <<mir, block_in>>
  BY <1>2 DEF Entry, body
<1>3. QED
  BY <1>1, <1>2 DEF Next, Report, Call, Panic, Statement, Branch, Return, vars

LEMMA KindHolds ==
  ASSUME NEW ty \in IntegerTypes, NEW v \in Inputs(ty)
  PROVE  Holds(start_for_kind(num_kind(ty)), v)
<1>1. v \in Word /\ (ty = "bool" => v \in {0, Scale})
  BY WordsAssumption
<1>2. /\ Holds(unknown, v) /\ Holds(any_integer, v) /\ (ty = "bool" => Holds(boolean, v))
  BY <1>1, ConstantsHold
<1>3. num_kind(ty) = "Bool" => ty = "bool"
  BY DEF num_kind
<1>4. num_kind(ty) # "Float"
  BY DEF num_kind, IntegerTypes
<1>5. QED
  BY <1>2, <1>3, <1>4 DEF start_for_kind

(* The program enters block 0 with the arguments of its caller.            *)
LEMMA CallTracked ==
  ASSUME IInv, Entry, WholeProgram, NEW vals \in Arguments(mir)
  PROVE  Tracked(0, 1, vals)
<1>1. mir \in Programs /\ DOMAIN body.locals = DOMAIN mir.locals
  BY BodyFacts DEF IInv, IterationTyped
<1>2. /\ body.arg_count = mir.arg_count
      /\ \A l \in DOMAIN mir.locals : body.locals[l] = num_kind(mir.locals[l])
  BY DEF body, lower_body
<1>3. ASSUME NEW l \in DOMAIN mir.locals
      PROVE  /\ vals[l] \in Word /\ Fits(mir.locals[l], vals[l])
             /\ Holds(initial_state(body)[l], vals[l])
  <2>1. vals[l] \in IF l \in 1..mir.arg_count THEN Inputs(mir.locals[l]) ELSE {0}
    BY DEF Arguments
  <2>2. mir.locals[l] \in IntegerTypes
    BY DEF WholeProgram
  <2>3. vals[l] \in Word
    BY <2>1, <2>2, WordsAssumption, WordFacts
  <2>6. Fits(mir.locals[l], vals[l])
    BY <2>1, NarrowAssumption DEF Fits
  <2>4. initial_state(body)[l] = IF l \in 1..mir.arg_count THEN start_for_kind(num_kind(mir.locals[l]))
                                 ELSE unknown
    BY <1>1, <1>2 DEF initial_state
  <2>5. QED
    BY <2>1, <2>2, <2>3, <2>4, <2>6, KindHolds, ConstantsHold
<1>4. vals \in Valuation
  <2>1. vals \in [DOMAIN mir.locals -> UNION {Inputs(mir.locals[l]) : l \in DOMAIN mir.locals} \cup {0}]
    BY DEF Arguments
  <2>2. QED
    BY <1>3, <2>1 DEF Valuation
<1>5. ASSUME NEW l \in Trusted
      PROVE  Holds(block_in[0][l], vals[l])
  <2>1. l \in DOMAIN mir.locals
    BY TrustedIsClosed
  <2>2. /\ initial_state(body)[l] \in AbstractNumber /\ block_in[0][l] \in AbstractNumber
        /\ Within(initial_state(body)[l], block_in[0][l])
    BY <1>1, <2>1, StateTyped DEF Entry, State, StateWithin
  <2>3. QED
    BY <1>3, <2>1, <2>2, HoldsWithin
<1>6. QED
  BY <1>4, <1>5, EntryTracked DEF Entry

-----------------------------------------------------------------------------
(***************************************************************************)
(* The whole system: the report comes once, of the last entry states; the  *)
(* program runs after it and stays with the analysis.                      *)
(***************************************************************************)
Fields(m) ==
  [at |-> m.at, next |-> m.next, vals |-> m.vals, end |-> m.end, misread |-> m.misread]

Phases ==
  /\ machine = Fields(machine)
  /\ report = {} => machine.end = "uncalled"
  /\ report # {} => worklist = << >> /\ report = {function_summary}
  /\ machine.end = "uncalled" => machine.at = 0 /\ machine.next = 1

Panicked ==
  /\ machine.next <= Len(Here.stmts)
  /\ DividesByZero(machine.vals, Here.stmts[machine.next])

Followed ==
  /\ Uncapped /\ WholeProgram /\ ~machine.misread /\ machine.end # "uncalled" =>
       Tracked(machine.at, machine.next, machine.vals)
  /\ machine.end = "panicked" => Panicked
  /\ machine.end = "returned" =>
       machine.next > Len(Here.stmts) /\ Here.terminator.kind = "Return"

RunInv == IInv /\ Entry /\ Phases /\ Followed

(* A step of the program leaves the analysis alone.                        *)
LEMMA AnalysisUnchanged ==
  ASSUME UNCHANGED <<mir, block_in, visits, worklist>>
  PROVE  /\ Uncapped' = Uncapped /\ WholeProgram' = WholeProgram
         /\ function_summary' = function_summary
<1>1. body' = body /\ Block' = Block
  BY DEF body, Block
<1>2. Uncapped' = Uncapped
  BY <1>1 DEF Uncapped
<1>3. WholeProgram' = WholeProgram
  BY <1>1 DEF WholeProgram, WholeStatement, WholeTerminator, IsWord, TypeOf
<1>4. ReturnRanges' = ReturnRanges
  BY <1>1 DEF ReturnRanges
<1>5. ReturnRange' = ReturnRange
  BY <1>4 DEF ReturnRange
<1>6. function_summary' = function_summary
  BY <1>1, <1>5 DEF function_summary, Divisions, divisor_hazard, Divisor, StateAt
<1>7. QED
  BY <1>2, <1>3, <1>6

LEMMA TrackedLater ==
  ASSUME UNCHANGED <<mir, block_in>>, NEW at, NEW next, NEW vals, Tracked(at, next, vals),
         machine'.at = at, machine'.next = next, machine'.vals = vals
  PROVE  Tracked(machine.at, machine.next, machine.vals)'
<1>1. body' = body /\ Block' = Block
  BY DEF body, Block
<1>2. Trusted' = Trusted
  BY <1>1 DEF Trusted, Closed, Exactly, TypeOf
<1>3. Valuation' = Valuation
  BY DEF Valuation
<1>4. QED
  BY <1>1, <1>2, <1>3 DEF Tracked

LEMMA InitRunInv == Init => RunInv
<1> SUFFICES ASSUME Init
             PROVE  RunInv
  OBVIOUS
<1>1. IInv /\ Entry
  BY InitIInv, InitEntry
<1>2. machine = [at |-> 0, next |-> 1, vals |-> [l \in DOMAIN mir.locals |-> 0],
                 end |-> "uncalled", misread |-> FALSE]
  BY DEF Init
<1>3. Phases
  BY <1>2 DEF Phases, Fields, Init
<1>4. Followed
  BY <1>2 DEF Followed
<1>5. QED
  BY <1>1, <1>3, <1>4 DEF RunInv

LEMMA PopRunInv ==
  ASSUME RunInv, Pop
  PROVE  Phases' /\ Followed'
<1>1. report = {} /\ machine.end = "uncalled" /\ report' = report /\ machine' = machine
  BY DEF RunInv, Phases, Pop
<1>2. Phases'
  BY <1>1 DEF RunInv, Phases, Fields
<1>3. Followed'
  BY <1>1 DEF Followed
<1>4. QED
  BY <1>2, <1>3

LEMMA ReportRunInv ==
  ASSUME RunInv, Report
  PROVE  Phases' /\ Followed'
<1>1. /\ machine.end = "uncalled" /\ machine' = machine /\ worklist = << >>
      /\ report' = {function_summary} /\ UNCHANGED <<mir, block_in, visits, worklist>>
  BY DEF RunInv, Phases, Report
<1>2. Phases'
  BY <1>1, AnalysisUnchanged DEF RunInv, Phases, Fields
<1>3. Followed'
  BY <1>1 DEF Followed
<1>4. QED
  BY <1>2, <1>3

(* A step of the program leaves the report alone and its own fields in     *)
(* place.                                                                  *)
LEMMA MachineSteps ==
  ASSUME Phases, report # {}, UNCHANGED <<mir, block_in, visits, worklist, report>>,
         machine' = Fields(machine'),
         machine'.end # "uncalled"
  PROVE  Phases'
<1>1. function_summary' = function_summary
  BY AnalysisUnchanged
<1>2. QED
  BY <1>1 DEF Phases, Fields

LEMMA CallRunInv ==
  ASSUME RunInv, Call
  PROVE  Phases' /\ Followed'
<1>1. PICK vals \in Arguments(mir) : machine' = [machine EXCEPT !.vals = vals, !.end = "none"]
  BY DEF Call
<1>2. /\ report # {} /\ machine.end = "uncalled"
      /\ UNCHANGED <<mir, block_in, visits, worklist, report>>
  BY DEF Call
<1>3. machine = Fields(machine) /\ machine.at = 0 /\ machine.next = 1
  BY <1>2 DEF RunInv, Phases
<1>4. machine' = [at |-> 0, next |-> 1, vals |-> vals, end |-> "none", misread |-> machine.misread]
  BY <1>1, <1>3 DEF Fields
<1>5. Phases'
  BY <1>2, <1>4, MachineSteps DEF RunInv, Fields
<1>6. ASSUME Uncapped, WholeProgram
      PROVE  Tracked(machine.at, machine.next, machine.vals)'
  <2>1. Tracked(0, 1, vals)
    BY <1>6, CallTracked DEF RunInv
  <2>2. QED
    BY <1>2, <1>4, <2>1, TrackedLater
<1>7. Followed'
  BY <1>2, <1>4, <1>6, AnalysisUnchanged DEF Followed
<1>8. QED
  BY <1>5, <1>7

LEMMA EndRunInv ==
  ASSUME RunInv, Panic \/ Return
  PROVE  Phases' /\ Followed'
<1>1. PICK end \in {"panicked", "returned"} : machine' = [machine EXCEPT !.end = end]
  BY DEF Panic, Return
<1>2. /\ report # {} /\ machine.end = "none" /\ UNCHANGED <<mir, block_in, visits, worklist, report>>
  BY DEF Panic, Return, Running
<1>3. machine = Fields(machine)
  BY DEF RunInv, Phases
<1>4. machine' = [at |-> machine.at, next |-> machine.next, vals |-> machine.vals, end |-> end, misread |-> machine.misread]
  BY <1>1, <1>3 DEF Fields
<1>5. Phases'
  BY <1>2, <1>4, MachineSteps DEF RunInv, Fields
<1>6. ASSUME Uncapped, WholeProgram, ~machine.misread
      PROVE  Tracked(machine.at, machine.next, machine.vals)'
  <2>1. Tracked(machine.at, machine.next, machine.vals)
    BY <1>2, <1>6 DEF RunInv, Followed
  <2>2. QED
    BY <1>2, <1>4, <2>1, TrackedLater
<1>7. Here' = Here
  BY <1>2, <1>4 DEF Here
<1>8. CASE Panic
  <2>1. end = "panicked"
    BY <1>1, <1>3, <1>4, <1>8 DEF Panic
  <2>2. Panicked
    BY <1>8 DEF Panic, Panicked
  <2>3. Panicked'
    <3>1. \A vals, s : DividesByZero(vals, s)' <=> DividesByZero(vals, s)
      BY <1>2 DEF DividesByZero, TypeOf, Values, Value
    <3>2. /\ machine'.next = machine.next /\ machine'.vals = machine.vals
      BY <1>4
    <3>3. QED
      BY <1>2, <1>7, <2>2, <3>2 DEF Panicked, DividesByZero, TypeOf, Values, Value
  <2>4. QED
    BY <1>2, <1>4, <1>5, <1>6, <2>1, <2>3, AnalysisUnchanged DEF Followed
<1>9. CASE Return
  <2>1. end = "returned"
    BY <1>1, <1>3, <1>4, <1>9 DEF Return
  <2>2. machine.next > Len(Here.stmts) /\ Here.terminator.kind = "Return"
    BY <1>9 DEF Return
  <2>3. machine'.next = machine.next
    BY <1>4
  <2>4. QED
    BY <1>2, <1>4, <1>5, <1>6, <1>7, <2>1, <2>2, <2>3, AnalysisUnchanged DEF Followed
<1>10. QED
  BY <1>8, <1>9

LEMMA StatementRunInv ==
  ASSUME RunInv, Statement
  PROVE  Phases' /\ Followed'
<1> DEFINE s == Here.stmts[machine.next]
<1>1. /\ report # {} /\ machine.end = "none" /\ UNCHANGED <<mir, block_in, visits, worklist, report>>
      /\ machine.next <= Len(Here.stmts)
  BY DEF Statement, Running
<1>2. PICK v \in Results(machine.vals, s) :
        machine' = [machine EXCEPT !.next = @ + 1, !.vals[s.place.local] = v]
  BY DEF Statement
<1>3. machine = Fields(machine)
  BY DEF RunInv, Phases
<1> DEFINE after == [machine.vals EXCEPT ![s.place.local] = v]
<1>4. machine' = [at |-> machine.at, next |-> machine.next + 1, vals |-> after, end |-> "none", misread |-> machine.misread]
  <2> HIDE DEF s
  <2>1. machine' = [machine EXCEPT !.next = machine.next + 1, !.vals = [machine.vals EXCEPT ![s.place.local] = v]]
    BY <1>2
  <2>2. QED
    BY <1>1, <1>3, <2>1 DEF Fields
<1>5. Phases'
  BY <1>1, <1>4, MachineSteps DEF RunInv, Fields
<1>6. ASSUME Uncapped, WholeProgram, ~machine.misread
      PROVE  Tracked(machine.at, machine.next, machine.vals)'
  <2>1. Tracked(machine.at, machine.next, machine.vals)
    BY <1>1, <1>6 DEF RunInv, Followed
  <2>2. Tracked(machine.at, machine.next + 1, after)
    BY <1>1, <1>2, <1>6, <2>1, StatementTracked DEF RunInv, Here
  <2> HIDE DEF after
  <2>3. QED
    BY <1>1, <1>4, <2>2, TrackedLater
<1>7. Followed'
  BY <1>1, <1>4, <1>6, AnalysisUnchanged DEF Followed
<1>8. QED
  BY <1>5, <1>7

LEMMA BranchRunInv ==
  ASSUME RunInv, Branch
  PROVE  Phases' /\ Followed'
<1> DEFINE misread == machine.misread \/ Misreads(Here.terminator, machine.vals)
<1>1. /\ report # {} /\ machine.end = "none" /\ UNCHANGED <<mir, block_in, visits, worklist, report>>
      /\ machine.next > Len(Here.stmts)
  BY DEF Branch, Running
<1>2. PICK k \in Successors(Here.terminator, machine.vals),
           after \in Destination(Here.terminator, machine.vals) :
        machine' = [machine EXCEPT !.at = k, !.next = 1, !.vals = after, !.misread = misread]
  BY DEF Branch
<1>3. machine = Fields(machine)
  BY DEF RunInv, Phases
<1>4. machine' = [at |-> k, next |-> 1, vals |-> after, end |-> "none", misread |-> misread]
  BY <1>1, <1>2, <1>3 DEF Fields
<1>5. Phases'
  BY <1>1, <1>4, MachineSteps DEF RunInv, Fields
<1>6. ASSUME Uncapped, WholeProgram, ~misread
      PROVE  Tracked(machine.at, machine.next, machine.vals)'
  <2>1. Tracked(machine.at, machine.next, machine.vals) /\ worklist = << >>
    BY <1>1, <1>6 DEF RunInv, Followed, Phases
  <2>2. ~Misreads(mir.blocks[machine.at].terminator, machine.vals)
    BY <1>6 DEF Here
  <2>3. Tracked(k, 1, after)
    BY <1>1, <1>2, <1>6, <2>1, <2>2, BranchTracked DEF RunInv, Here
  <2>4. QED
    BY <1>1, <1>4, <2>3, TrackedLater
<1>7. (~machine.misread)' => ~misread
  BY <1>4
<1>8. machine'.end = "none"
  BY <1>4
<1> HIDE DEF misread
<1>9. Followed'
  BY <1>1, <1>6, <1>7, <1>8, AnalysisUnchanged DEF Followed
<1>10. QED
  BY <1>5, <1>9

LEMMA NextRunInv == RunInv /\ [Next]_vars => RunInv'
<1> SUFFICES ASSUME RunInv, [Next]_vars
             PROVE  RunInv'
  OBVIOUS
<1>1. IInv' /\ Entry'
  BY NextIInv, NextEntry DEF RunInv
<1>2. CASE UNCHANGED vars
  <2>1. Phases'
    BY <1>2, AnalysisUnchanged DEF RunInv, Phases, Fields, vars
  <2>2. Followed'
    <3>1. ASSUME Uncapped, WholeProgram, ~machine.misread, machine.end # "uncalled"
          PROVE  Tracked(machine.at, machine.next, machine.vals)'
      <4>1. Tracked(machine.at, machine.next, machine.vals)
        BY <3>1 DEF RunInv, Followed
      <4>2. QED
        BY <1>2, <4>1, TrackedLater DEF vars
    <3>2. Uncapped' = Uncapped /\ WholeProgram' = WholeProgram
      BY <1>2, AnalysisUnchanged DEF vars
    <3>3. Panicked' <=> Panicked
      BY <1>2 DEF vars, Panicked, Here, DividesByZero, TypeOf, Values, Value
    <3>4. Here' = Here
      BY <1>2 DEF vars, Here
    <3>5. QED
      BY <1>2, <3>1, <3>2, <3>3, <3>4 DEF RunInv, Followed, vars
  <2>3. QED
    BY <1>1, <2>1, <2>2 DEF RunInv
<1>3. CASE Pop
  BY <1>1, <1>3, PopRunInv DEF RunInv
<1>4. CASE Report
  BY <1>1, <1>4, ReportRunInv DEF RunInv
<1>5. CASE Call
  BY <1>1, <1>5, CallRunInv DEF RunInv
<1>6. CASE Panic \/ Return
  BY <1>1, <1>6, EndRunInv DEF RunInv
<1>7. CASE Statement
  BY <1>1, <1>7, StatementRunInv DEF RunInv
<1>8. CASE Branch
  BY <1>1, <1>8, BranchRunInv DEF RunInv
<1>9. QED
  BY <1>2, <1>3, <1>4, <1>5, <1>6, <1>7, <1>8 DEF Next

-----------------------------------------------------------------------------
LEMMA RunInvSound == RunInv => (Uncapped /\ WholeProgram => Sound)
<1> SUFFICES ASSUME RunInv, Uncapped, WholeProgram, NEW r \in report, ~machine.misread,
                    machine.end # "uncalled"
             PROVE  /\ machine.end = "none" /\ machine.next = 1 =>
                         /\ machine.at \in DOMAIN block_in
                         /\ \A l \in Trusted : Covers(block_in[machine.at][l], machine.vals[l])
                    /\ machine.end = "returned" /\ 0 \in Trusted => Covers(r.returns, machine.vals[0])
  BY DEF Sound
<1> DEFINE at == machine.at
           n == Len(mir.blocks[at].stmts)
<1>1. IInv /\ Tracked(at, machine.next, machine.vals) /\ r = function_summary
  BY DEF RunInv, Followed, Phases
<1>2. /\ at \in DOMAIN block_in /\ machine.next \in 1..n + 1 /\ machine.vals \in Valuation
      /\ Follows(Trusted, States(body.blocks[at], block_in[at])[machine.next - 1], machine.vals)
  BY <1>1 DEF Tracked
<1>3. /\ at \in Block /\ n \in Nat /\ Len(body.blocks[at].stmts) = n
      /\ IsBlock(body, body.blocks[at]) /\ block_in[at] \in State(body)
      /\ DOMAIN body.locals = DOMAIN mir.locals
      /\ body.blocks[at].terminator = lower_terminator(mir.blocks[at].terminator, mir.locals)
  BY <1>1, <1>2, HereFacts
<1>4. \A l \in Trusted : l \in DOMAIN mir.locals /\ machine.vals[l] \in Word
  BY <1>2, TrustedIsClosed DEF Valuation
<1> HIDE DEF at, n
<1>5. ASSUME machine.next = 1, NEW l \in Trusted
      PROVE  Covers(block_in[at][l], machine.vals[l])
  <2>1. 0 \in 0..Len(body.blocks[at].stmts) /\ machine.next - 1 = 0
    BY <1>3, <1>5
  <2>2. States(body.blocks[at], block_in[at])[0] = Entered(block_in[at])
    BY <1>3, <2>1, StatesAreOut
  <2>3. Holds(block_in[at][l], machine.vals[l])
    BY <1>2, <1>5, <2>1, <2>2 DEF Follows, Entered
  <2>4. block_in[at][l] \in AbstractNumber
    BY <1>3, <1>4 DEF State
  <2>5. QED
    BY <1>4, <2>3, <2>4, HoldsCovers
<1>6. ASSUME machine.end = "returned", 0 \in Trusted
      PROVE  Covers(ReturnRange, machine.vals[0])
  <2>1. machine.next > n /\ mir.blocks[at].terminator.kind = "Return"
    BY <1>6 DEF RunInv, Followed, Here, at, n
  <2>2. machine.next - 1 = n
    BY <1>2, <1>3, <2>1
  <2>3. body.blocks[at].terminator.kind = "Return"
    BY <1>3, <2>1 DEF lower_terminator
  <2>4. Holds(RangeAt(at), machine.vals[0])
    BY <1>2, <1>3, <1>6, <2>2 DEF Follows, RangeAt, transfer_block
  <2>5. /\ RangeAt(at) \in AbstractNumber
        /\ ReturnRange \in AbstractNumber /\ Within(RangeAt(at), ReturnRange)
    BY <1>1, <1>2, <2>3, RangeIsNumber, ReturnRangeIncludes
  <2>6. Holds(ReturnRange, machine.vals[0])
    BY <1>4, <1>6, <2>4, <2>5, HoldsWithin
  <2>7. QED
    BY <1>4, <1>6, <2>5, <2>6, HoldsCovers
<1>7. r.returns = ReturnRange
  BY <1>1 DEF function_summary
<1>8. QED
  BY <1>2, <1>5, <1>6, <1>7 DEF at

LEMMA RunInvReports == RunInv => (Uncapped /\ WholeProgram => PanicsReported)
<1> SUFFICES ASSUME RunInv, Uncapped, WholeProgram, NEW r \in report,
                    machine.end = "panicked", ~machine.misread,
                    Divisor(machine.at, machine.next).integer,
                    ~Here.stmts[machine.next].place.projected,
                    ReadsIn(Here.stmts[machine.next].rvalue.right, Trusted)
             PROVE  <<machine.at, machine.next>> \in r.hazards
  BY DEF PanicsReported
<1> DEFINE at == machine.at
           i == machine.next
           s == mir.blocks[at].stmts[i]
           n == Len(mir.blocks[at].stmts)
<1>1. /\ IInv /\ Tracked(at, i, machine.vals) /\ r = function_summary
      /\ i <= n /\ DividesByZero(machine.vals, s)
  BY DEF RunInv, Followed, Phases, Panicked, Here
<1>2. /\ at \in DOMAIN block_in /\ i \in 1..n + 1 /\ machine.vals \in Valuation
      /\ Follows(Trusted, States(body.blocks[at], block_in[at])[i - 1], machine.vals)
  BY <1>1 DEF Tracked
<1>3. /\ at \in Block /\ n \in Nat /\ DOMAIN mir.blocks[at].stmts = 1..n
      /\ Len(body.blocks[at].stmts) = n /\ IsBlock(body, body.blocks[at])
  BY <1>1, <1>2, HereFacts
<1>4. i \in 1..n
  BY <1>1, <1>2, <1>3
<1>5. body.blocks[at].stmts[i] = lower_statement(s) /\ WholeStatement(s)
  BY <1>1, <1>2, <1>4, HereFacts
<1>6. /\ s.rvalue.op = "Binary" /\ s.rvalue.kind \in {"Div", "Rem"}
      /\ 0 \in Values(machine.vals, s.rvalue.right)
  BY <1>1 DEF DividesByZero
<1>7. ~s.place.projected /\ ReadsIn(s.rvalue.right, Trusted)
  BY DEF Here
<1> HIDE DEF s
<1>8. lower_statement(s).rvalue = [op |-> "Binary", kind |-> lower_binop(s.rvalue.kind),
         left |-> lower_operand(s.rvalue.left), right |-> lower_operand(s.rvalue.right)]
  BY <1>6, <1>7 DEF lower_statement, lower_rvalue
<1>9. lower_binop(s.rvalue.kind) = s.rvalue.kind
  BY <1>6 DEF lower_binop, Arithmetic
<1>10. i \in Divisions(at)
  <2>1. i \in DOMAIN body.blocks[at].stmts
    BY <1>3, <1>4 DEF IsBlock
  <2>2. QED
    BY <1>5, <1>6, <1>8, <1>9, <2>1 DEF Divisions
<1>11. Holds(Divisor(at, i), 0)
  <2>1. Divisor(at, i) = eval_operand(StateAt(at, i), lower_operand(s.rvalue.right))
    BY <1>5, <1>8 DEF Divisor
  <2>2. \A l \in Trusted : Holds(StateAt(at, i)[l], machine.vals[l])
    BY <1>2 DEF Follows, StateAt
  <2>3. IsWord(s.rvalue.right)
    BY <1>5, <1>6 DEF WholeStatement
  <2>4. QED
    BY <1>2, <1>6, <1>7, <2>1, <2>2, <2>3, OperandHolds
<1>12. divisor_hazard(at, i)
  <2>1. includes_zero(Divisor(at, i))
    BY <1>11 DEF Holds, includes_zero
  <2>2. QED
    BY <2>1 DEF divisor_hazard
<1>13. QED
  BY <1>1, <1>2, <1>10, <1>12 DEF function_summary

-----------------------------------------------------------------------------
(* The entry states stay maps of locals to numbers of the domain, the      *)
(* counts stay within the cap and every block on the worklist is one that  *)
(* was reached (analyze_function, engine.rs).                              *)
THEOREM IterationStaysTyped == Spec => []IterationTyped
<1>1. IInv => IterationTyped
  BY DEF IInv
<1>2. QED
  BY <1>1, InitIInv, NextIInv, PTL DEF Spec

(* At any time, an edge of a reached block that is not queued again has    *)
(* put all it carries into the entry state of its target, or its target's  *)
(* count is at the cap.                                                    *)
THEOREM EdgesSettle == Spec => []Converging
<1>1. IInv => Converging
  BY DEF IInv
<1>2. QED
  BY <1>1, InitIInv, NextIInv, PTL DEF Spec

(* When the worklist runs dry the entry states are a fixed point of the    *)
(* transfer of every block, as long as no count reached the cap on visits  *)
(* (MAX_VISITS, engine.rs): the divisions and the return range are then    *)
(* read off states that every edge's state lies within.                    *)
THEOREM FixedPointUnlessCapped == Spec => [](Uncapped => FixedPoint)
<1>1. IInv => (Uncapped => FixedPoint)
  BY IInvFixedPoint
<1>2. QED
  BY <1>1, InitIInv, NextIInv, PTL DEF Spec

(* From the call on, what the analysis has before each statement of a      *)
(* block holds the values of the running program; the report was made once *)
(* of the entry states the iteration ended in (analyze_function, engine.rs).*)
THEOREM RunFollowsAnalysis == Spec => []RunInv
<1>1. Init => RunInv
  BY InitRunInv
<1>2. RunInv /\ [Next]_vars => RunInv'
  BY NextRunInv
<1>3. QED
  BY <1>1, <1>2, PTL DEF Spec

(* Whenever an integer program enters a block, the analysis has reached    *)
(* the block, and its entry state covers every local that no integer       *)
(* quotient flows into; so does the return range (analyze_function and     *)
(* function_summary, engine.rs).  A run that took an arm whose negative    *)
(* value the facts misread is past both.                                   *)
THEOREM SoundOnIntegers == Spec => [](Uncapped /\ WholeProgram => Sound)
<1>1. RunInv => (Uncapped /\ WholeProgram => Sound)
  BY RunInvSound
<1>2. QED
  BY <1>1, RunFollowsAnalysis, PTL

(* Every integer division that panics is reported, for every integer       *)
(* program (divisor_hazard, engine.rs): no guard, loop, join, call, switch *)
(* or rounding hides it.  Only a divisor that a quotient flows into, a     *)
(* result stored through a projection and a misread arm do.                *)
THEOREM PanicsAreReported == Spec => [](Uncapped /\ WholeProgram => PanicsReported)
<1>1. RunInv => (Uncapped /\ WholeProgram => PanicsReported)
  BY RunInvReports
<1>2. QED
  BY <1>1, RunFollowsAnalysis, PTL
=============================================================================
