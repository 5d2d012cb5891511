-------------------------------- MODULE Numbers --------------------------------
(***************************************************************************)
(* Numbers that are kept within limits: bounded, whose limits are part of  *)
(* its type and which is rotated within them; and pid, a regulator whose   *)
(* output and integral are clamped to limits that change.  The floats of   *)
(* pid are integers here; the time is an unsigned number that wraps.       *)
(***************************************************************************)
EXTENDS Integers

CONSTANTS
  BoundedTypes,  (* Records [min, max, low, size, arith, steps]: the type  *)
                 (* T has size values from low on; arith is "unsigned" if  *)
                 (* arithmetic on T wraps, "signed" if its overflow is     *)
                 (* undefined, "promoted" if T is narrower than int, whose *)
                 (* arithmetic is wide enough; steps are rotated by.       *)
  Limits,        (* The limits of the regulator, pairs,                    *)
  Coefficients,  (* its coefficients, records [p, i, d],                   *)
  Measures,      (* what is measured and what is desired,                  *)
  Clock          (* and the modulus of the time.                           *)

VARIABLES
  type, val,       (* A bounded and its type.                              *)
  turned,          (* How far it was rotated to the right since make(),    *)
  exact,           (* and if every step of that was Safe.                  *)
  pid,             (* The regulator,                                       *)
  coeff            (* and its coefficients.                                *)

boundedVars == <<type, val, turned, exact>>
pidVars == <<pid, coeff>>

Width(t) == 1 + t.max - t.min
ValuesOf(t) == t.low .. t.low + t.size - 1

(* A conversion to T, and the value of an expression on numbers of T.      *)
ToT(t, x) == t.low + ((x - t.low) % t.size)
Arith(t, x) == IF t.arith = "unsigned" THEN ToT(t, x) ELSE x

(* A number of T: 0 if the range is all of T, and negative if T is signed  *)
(* and narrow and the range is larger than its largest value.              *)
IntervalRange(t) == ToT(t, Width(t))

(* The static_assert of bounded, on limits that are values of T; without   *)
(* an overflow in a constant.                                              *)
NumbersAssumption ==
  /\ \A t \in BoundedTypes :
       /\ t.low \in Int /\ t.size \in Nat \ {0}
       /\ t.min \in ValuesOf(t) /\ t.max \in ValuesOf(t) /\ t.min <= t.max
       /\ t.steps \subseteq ValuesOf(t)
       /\ t.arith = "unsigned" => t.low = 0
       /\ t.arith = "signed" => Width(t) \in ValuesOf(t)
  /\ \A lim \in Limits : lim[1] \in Int /\ lim[2] \in Int /\ lim[1] <= lim[2]
  /\ \A c \in Coefficients : c.p \in Int /\ c.i \in Int /\ c.d \in Int
  /\ Measures \subseteq Int
  /\ 0 \in Measures
  /\ Clock \in Nat \ {0}

-----------------------------------------------------------------------------
(* bounded.                                                                *)

(* Remainder as that of C++, with the sign of the dividend.                *)
Abs(a) == IF a >= 0 THEN a ELSE -a
Remainder(a, b) == IF a >= 0 THEN a % Abs(b) ELSE -((-a) % Abs(b))

(* rotate_right and rotate_left, for x = val_ + step and val_ - step.      *)
Offset(t, x) == Remainder(Arith(t, Arith(t, x) - t.min), IntervalRange(t))

(* Wrong variant: the remainder of a negative number stays negative.       *)
RotatedOnce(t, x) == ToT(t, t.min + Offset(t, x))

Rotated(t, x) ==
  ToT(t, t.min + Remainder(Arith(t, IntervalRange(t) + Offset(t, x)), IntervalRange(t)))

(* Neither a division by zero nor an overflow.                             *)
IsDefined(t, x) ==
  /\ IntervalRange(t) # 0
  /\ t.arith = "signed" => {x, x - t.min, IntervalRange(t) + Offset(t, x)} \subseteq ValuesOf(t)

(* The arithmetic of a rotation does not wrap, or wraps by a multiple of   *)
(* the range.                                                              *)
Safe(t, x) ==
  /\ IntervalRange(t) = Width(t)
  /\ \/ t.arith # "unsigned" \/ t.size % Width(t) = 0
     \/ x - t.min \in 0 .. t.size - 1 /\ Width(t) + ((x - t.min) % Width(t)) < t.size

(* make(): a number is narrowed to the type before it is compared.         *)
Makes(t, x) == ToT(t, x) \in t.min .. t.max

BoundedInit ==
  /\ type \in BoundedTypes
  /\ val = type.min
  /\ turned = 0
  /\ exact = TRUE

Make(x) ==
  /\ Makes(type, x)
  /\ val' = ToT(type, x)
  /\ turned' = ToT(type, x) - type.min
  /\ exact' = TRUE
  /\ UNCHANGED type

Turn(x, step) ==
  /\ IsDefined(type, x)
  /\ val' = Rotated(type, x)
  /\ turned' = (turned + step) % Width(type)
  /\ exact' = (exact /\ Safe(type, x))
  /\ UNCHANGED type

RotateRight(step) == Turn(val + step, step)
RotateLeft(step) == Turn(val - step, -step)

BoundedNext ==
  \/ \E step \in type.steps : RotateRight(step) \/ RotateLeft(step)
  \/ \E x \in type.low - 1 .. type.low + type.size : Make(x)

BoundedSpec == BoundedInit /\ [][BoundedNext]_boundedVars

-----------------------------------------------------------------------------
(* min_max and pid.                                                        *)

Clamp(x, lim) == IF x < lim[1] THEN lim[1] ELSE IF lim[2] < x THEN lim[2] ELSE x

PidInit ==
  /\ coeff \in Coefficients
  /\ \E lim \in Limits :
       pid = [lim |-> lim, i_sum |-> 0, last_measured |-> 0, last_time |-> 0, output |-> Clamp(0, lim)]

(* Wrong variant: the output keeps the value it had.                       *)
UpdateLimitsLate(lim) ==
  /\ pid' = [pid EXCEPT !.lim = lim, !.i_sum = Clamp(@, lim)]
  /\ UNCHANGED coeff

UpdateLimits(lim) ==
  /\ pid' = [pid EXCEPT !.lim = lim, !.output = Clamp(@, lim), !.i_sum = Clamp(@, lim)]
  /\ UNCHANGED coeff

UpdateOutput(x) ==
  /\ pid' = [pid EXCEPT !.output = Clamp(x, pid.lim)]
  /\ UNCHANGED coeff

(* update(); without time elapsed it changes nothing.                      *)
Update(now, measured, desired) ==
  LET t_diff == (now + Clock - pid.last_time) % Clock
      error == desired - measured
      i_sum == Clamp(pid.i_sum + coeff.i * error * t_diff, pid.lim)
      slope == (coeff.d * (measured - pid.last_measured)) \div t_diff
  IN  /\ now # pid.last_time
      /\ pid' = [pid EXCEPT !.i_sum = i_sum,
                            !.output = Clamp(coeff.p * error + i_sum - slope, pid.lim),
                            !.last_measured = measured, !.last_time = now]
      /\ UNCHANGED coeff

Reset(now, measured) ==
  /\ pid' = [pid EXCEPT !.i_sum = 0, !.output = Clamp(0, pid.lim), !.last_time = now, !.last_measured = measured]
  /\ UNCHANGED coeff

PidNext ==
  \/ \E lim \in Limits : UpdateLimits(lim)
  \/ \E x \in Measures : UpdateOutput(x)
  \/ \E now \in 0 .. Clock - 1, measured, desired \in Measures : Update(now, measured, desired)
  \/ \E now \in 0 .. Clock - 1, measured \in Measures : Reset(now, measured)

PidSpec == PidInit /\ [][PidNext]_pidVars

-----------------------------------------------------------------------------
(* A bounded is within its bounds whatever was made and rotated by, and    *)
(* however its arithmetic wraps, unless the size of its range is too large *)
(* for a number of T.                                                      *)
RangeIsCounted(t) == IntervalRange(t) \in {0, Width(t)}
ValueInRange == RangeIsCounted(type) => val \in type.min .. type.max

(* The regulator has the types of its members, a bounded those values its  *)
(* type names.                                                             *)
NumbersTypeOK ==
  /\ val \in ValuesOf(type) /\ ValueInRange
  /\ pid.lim \in Limits /\ pid.last_time \in 0 .. Clock - 1
  /\ pid.last_measured \in Measures

(* Rotations to the right and to the left, by any steps and over the ends  *)
(* of the range any number of times, add up: the value is where all of     *)
(* them together lead modulo the range.  In an unsigned type that holds as *)
(* long as the steps are Safe, in a range that divides the values of the   *)
(* type always.                                                            *)
RotationsAddUp == exact => val = type.min + turned

(* Whatever was measured, desired or set, and after every change of the    *)
(* limits, the output is within them, and so is the integral unless it was *)
(* just reset.                                                             *)
OutputWithinLimits ==
  /\ pid.output \in pid.lim[1] .. pid.lim[2]
  /\ pid.i_sum = 0 \/ pid.i_sum \in pid.lim[1] .. pid.lim[2]

(* A bounded stays where its type and its rotations put it, the output of  *)
(* a regulator where its limits do.                                        *)
NumbersStayInRange == ValueInRange /\ RotationsAddUp /\ OutputWithinLimits

=============================================================================
