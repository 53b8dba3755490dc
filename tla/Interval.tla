------------------------------ MODULE Interval ------------------------------
(***************************************************************************)
(* The numeric domain of the range analysis                                *)
(* (crates/hinzu-core/src/absint/interval.rs) over doubles of few bits.    *)
(*                                                                         *)
(* A double is an integer v that stands for v / Scale.  All v up to Exact  *)
(* are doubles, above it only the multiples of Gap up to MaxD; every       *)
(* operation rounds to the nearest double, half to even, and beyond MaxD   *)
(* to an infinity.  So a sum absorbs a small summand, MaxD + 1 = MaxD, and *)
(* integers above Exact have no double of their own, as with 2^53.         *)
(***************************************************************************)
EXTENDS Integers, FiniteSets, FiniteSetsExt

CONSTANTS Scale, Exact, Gap, MaxD

ASSUME DoublesAssumption ==
  /\ Scale \in Nat \ {0} /\ Gap \in Nat \ {0}
  /\ Exact \in Nat /\ Exact % Gap = 0 /\ Exact % Scale = 0
  /\ MaxD \in Nat /\ MaxD % Gap = 0 /\ MaxD > Exact
  /\ Scale <= Exact

Inf == 1000000
NaN == 2000000
NoPoint == 3000000

ASSUME InfAssumption == MaxD < Inf

Abs(v) == IF v < 0 THEN -v ELSE v
Sign(v) == IF v < 0 THEN -1 ELSE 1
Lesser(a, b) == IF a < b THEN a ELSE b
Greater(a, b) == IF a > b THEN a ELSE b

Finite(v) == Abs(v) <= MaxD
Infinite(v) == Abs(v) = Inf
IsWhole(v) == v % Scale = 0

Doubles == {v \in -MaxD..MaxD : Abs(v) <= Exact \/ v % Gap = 0}

(* The multiple of unit nearest to num / den, half to even; num, den > 0.  *)
Nearest(num, den, unit) ==
  LET q == num \div (den * unit)
      twice == 2 * (num - q * den * unit)
  IN  IF twice > den * unit \/ (twice = den * unit /\ q % 2 = 1) THEN (q + 1) * unit ELSE q * unit

Round(num, den) ==
  LET s == Sign(num) * Sign(den)
      n == Abs(num)
      d == Abs(den)
      v == IF n <= Exact * d THEN Nearest(n, d, 1) ELSE Nearest(n, d, Gap)
  IN  s * (IF v > MaxD THEN Inf ELSE v)

FAdd(a, b) ==
  IF NaN \in {a, b} \/ (Infinite(a) /\ b = -a) THEN NaN
  ELSE IF Infinite(a) THEN a
  ELSE IF Infinite(b) THEN b
  ELSE Round(a + b, 1)

FMul(a, b) ==
  IF NaN \in {a, b} \/ (Infinite(a) /\ b = 0) \/ (Infinite(b) /\ a = 0) THEN NaN
  ELSE IF Infinite(a) \/ Infinite(b) THEN Sign(a) * Sign(b) * Inf
  ELSE Round(a * b, Scale)

FDiv(a, b) ==
  IF NaN \in {a, b} \/ (Infinite(a) /\ Infinite(b)) \/ (a = 0 /\ b = 0) THEN NaN
  ELSE IF Infinite(b) THEN 0
  ELSE IF Infinite(a) \/ b = 0 THEN Sign(a) * Sign(b) * Inf
  ELSE Round(a * Scale, b)

(* The double next above, next below.                                      *)
next_up(v) ==
  IF v \in {NaN, Inf} THEN v
  ELSE IF v = -Inf THEN -MaxD
  ELSE IF v = MaxD THEN Inf
  ELSE Min({w \in Doubles : w > v})

next_down(v) == -next_up(-v)

-----------------------------------------------------------------------------
(* AbstractNumber: an interval with an integer flag, a NaN flag and at     *)
(* most one point cut out.                                                 *)
Plain(lo, hi, int, nan) ==
  [lower |-> lo, upper |-> hi, integer |-> int, may_be_nan |-> nan, excluded |-> NoPoint]

unknown == Plain(-Inf, Inf, FALSE, TRUE)
any_integer == Plain(-Inf, Inf, TRUE, FALSE)
finite_input == Plain(-MaxD, MaxD, FALSE, FALSE)
constant(v) == Plain(v, v, Finite(v) /\ IsWhole(v), FALSE)
boolean == Plain(0, Scale, TRUE, FALSE)

IsFinite(x) == Finite(x.lower) /\ Finite(x.upper)

includes_zero(x) == x.lower <= 0 /\ x.upper >= 0 /\ x.excluded # 0

point_excluded(x, p) ==
  \/ p < x.lower \/ p > x.upper
  \/ (x.integer /\ Finite(p) /\ ~IsWhole(p))
  \/ x.excluded = p

safe_operands(x, y) == IsFinite(x) /\ IsFinite(y) /\ ~x.may_be_nan /\ ~y.may_be_nan

negate(x) ==
  [x EXCEPT !.lower = -x.upper, !.upper = -x.lower,
            !.excluded = IF @ = NoPoint THEN NoPoint ELSE -@]

IsPoint(x) == x.lower = x.upper /\ ~x.may_be_nan

(* The zero an exact point and a value that avoids p cut out of the result.*)
CutZero(x, cut) ==
  [x EXCEPT !.excluded = IF cut /\ x.lower < 0 /\ x.upper > 0 THEN 0 ELSE @]

Known(v, otherwise) == IF v = NaN THEN otherwise ELSE v

add(x, y) ==
  LET sum == Plain(Known(FAdd(x.lower, y.lower), -Inf), Known(FAdd(x.upper, y.upper), Inf),
                   x.integer /\ y.integer,
                   \/ x.may_be_nan \/ y.may_be_nan
                   \/ (x.upper = Inf /\ y.lower = -Inf) \/ (x.lower = -Inf /\ y.upper = Inf))
  IN  CutZero(sum, IF IsPoint(y) THEN point_excluded(x, -y.lower)
                   ELSE IsPoint(x) /\ point_excluded(y, -x.lower))

sub(x, y) == add(x, negate(y))

(* min_max leaves NaN out.                                                 *)
Spread(S, int) ==
  LET R == S \ {NaN}
  IN  IF R = {} THEN Plain(Inf, -Inf, int, FALSE) ELSE Plain(Min(R), Max(R), int, FALSE)

Ends(x) == {x.lower, x.upper}

mul(x, y) ==
  IF ~safe_operands(x, y) THEN unknown
  ELSE CutZero(Spread({FMul(ab[1], ab[2]) : ab \in Ends(x) \X Ends(y)}, x.integer /\ y.integer),
               IF IsPoint(y) THEN Abs(y.lower) >= Scale /\ point_excluded(x, 0)
               ELSE IsPoint(x) /\ Abs(x.lower) >= Scale /\ point_excluded(y, 0))

Quotients(x, y) == {FDiv(ab[1], ab[2]) : ab \in Ends(x) \X Ends(y)}

(* A whole divisor that is not zero is at least one away from it.          *)
divide_across_zero(x, y) ==
  LET parts == {q \in {[y EXCEPT !.upper = Lesser(@, -Scale)], [y EXCEPT !.lower = Greater(@, Scale)]} :
                  q.lower <= q.upper}
  IN  IF ~y.integer THEN Plain(-Inf, Inf, FALSE, FALSE)
      ELSE IF parts = {} \/ ~safe_operands(x, y) THEN unknown
      ELSE Spread(UNION {Quotients(x, q) : q \in parts}, FALSE)

div(x, y) ==
  IF ~x.may_be_nan /\ ~y.may_be_nan /\ IsFinite(y) /\ (y.lower > 0 \/ y.upper < 0)
  THEN Spread(Quotients(x, y), FALSE)
  ELSE IF ~x.may_be_nan /\ ~y.may_be_nan /\ IsFinite(y) /\ y.excluded = 0
  THEN divide_across_zero(x, y)
  ELSE IF ~safe_operands(x, y) \/ (y.lower <= 0 /\ y.upper >= 0) THEN unknown
  ELSE Spread(Quotients(x, y), FALSE)

Magnitude(x) == Greater(Abs(x.lower), Abs(x.upper))

rem(x, y, divisor_nonzero) ==
  LET int == x.integer /\ y.integer
      divisor == IF int /\ Finite(Magnitude(y)) THEN Greater(FAdd(Magnitude(y), -Scale), 0)
                 ELSE Magnitude(y)
      bound == Lesser(Magnitude(x), divisor)
  IN  IF x.may_be_nan \/ y.may_be_nan THEN unknown
      ELSE Plain(IF x.lower < 0 THEN -bound ELSE 0, IF x.upper > 0 THEN bound ELSE 0, int,
                 (~divisor_nonzero /\ includes_zero(y)) \/ ~IsFinite(x))

(* The one hole a join or widening keeps: the first of these points that   *)
(* both sides exclude and the result has inside.                           *)
Hole(x, y, result) ==
  LET Shared(p) == /\ p # NoPoint
                   /\ point_excluded(x, p) /\ point_excluded(y, p)
                   /\ result.lower < p /\ p < result.upper
  IN  [result EXCEPT !.excluded = IF Shared(x.excluded) THEN x.excluded
                                  ELSE IF Shared(y.excluded) THEN y.excluded
                                  ELSE IF Shared(0) THEN 0 ELSE NoPoint]

(* Mutant: a hole of either side is kept.                                  *)
join_EitherHole(x, y) ==
  [Plain(Lesser(x.lower, y.lower), Greater(x.upper, y.upper),
         x.integer /\ y.integer, x.may_be_nan \/ y.may_be_nan)
     EXCEPT !.excluded = IF x.excluded # NoPoint THEN x.excluded ELSE y.excluded]

join(x, y) ==
  Hole(x, y, Plain(Lesser(x.lower, y.lower), Greater(x.upper, y.upper),
                   x.integer /\ y.integer, x.may_be_nan \/ y.may_be_nan))

(* A bound that moved goes to the extreme.                                 *)
widen(previous, next) ==
  LET far == IF IsFinite(previous) /\ IsFinite(next) THEN MaxD ELSE Inf
  IN  Hole(previous, next,
           Plain(IF next.lower < previous.lower THEN -far ELSE next.lower,
                 IF next.upper > previous.upper THEN far ELSE next.upper,
                 next.integer, next.may_be_nan))

-----------------------------------------------------------------------------
(* x stands for no number that y does not stand for.                       *)
Within(x, y) ==
  /\ y.lower <= x.lower /\ x.upper <= y.upper
  /\ y.integer => x.integer
  /\ x.may_be_nan => y.may_be_nan
  /\ y.excluded # NoPoint => point_excluded(x, y.excluded)
=============================================================================
