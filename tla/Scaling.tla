------------------------------ MODULE Scaling ------------------------------
(***************************************************************************)
(* The value pipeline of the tag engine: processValue, applyScaling and    *)
(* coerceToType (packages/core/src/tag-engine.ts).                         *)
(*                                                                         *)
(* A JavaScript number is a fixed-point integer, Unit steps to 1.0, or the *)
(* value NaN.  A non-number primitive (boolean, string) is a member of     *)
(* Words, and NULL is JavaScript's null.  An interpolation that does not   *)
(* fall on a step is rounded down to one, the resolution of the model.     *)
(***************************************************************************)
EXTENDS Integers, FiniteSets

CONSTANTS
    Unit,       \* fixed-point steps in 1.0
    FloatStep,  \* fixed-point steps from one float32 number to the next
    NaN,        \* the number that is not a number
    NULL,       \* no value yet
    Words       \* the booleans and strings a driver can deliver

ASSUME UnitAssumption == Unit \in Nat \ {0} /\ FloatStep \in Nat \ {0}

\* Values of different JavaScript types never compare equal (===).
ASSUME ValueAssumption ==
    /\ NaN \notin Int /\ NULL \notin Int /\ NaN # NULL
    /\ \A w \in Words : w \notin Int /\ w # NaN /\ w # NULL

Numbers == Int \cup {NaN}
Primitives == Numbers \cup Words

\* ScalingSchema
Scalings ==
    [enabled : BOOLEAN, type : {"linear", "square-root"},
     rawMin : Int, rawMax : Int, engMin : Int, engMax : Int,
     clampLow : BOOLEAN, clampHigh : BOOLEAN, negate : BOOLEAN]

IntegerTypes == {"int8", "uint8", "int16", "uint16", "int32", "uint32",
                 "bcd", "lbcd", "int64", "uint64"}
DataTypes == IntegerTypes \cup {"bool", "float32", "float64", "date", "string"}

-----------------------------------------------------------------------------

AtLeast(a, b) == IF a > b THEN a ELSE b        \* Math.max
AtMost(a, b)  == IF a < b THEN a ELSE b        \* Math.min

\* Math.sqrt at the model's resolution: the largest n with n * n <= x.
SquareRoot(x) == Cardinality({n \in 1 .. x : n * n <= x})

\* fraction * (engMax - engMin), the ratio (raw - rawMin) / span being the
\* quotient num / den of an integer and a positive integer.
Interpolate(s, num, den) ==
    LET engSpan == s.engMax - s.engMin
    IN  IF s.type = "square-root"
          THEN LET root == SquareRoot((AtLeast(0, num) * engSpan * engSpan) \div den)
               IN  IF engSpan < 0 THEN -root ELSE root
          ELSE (num * engSpan) \div den

\* Fault: "else if" between the two clamps.
ClampOnce(s, v) ==
    IF s.clampLow THEN AtLeast(v, s.engMin)
    ELSE IF s.clampHigh THEN AtMost(v, s.engMax) ELSE v

Clamp(s, v) ==
    LET low == IF s.clampLow THEN AtLeast(v, s.engMin) ELSE v
    IN  IF s.clampHigh THEN AtMost(low, s.engMax) ELSE low

\* The zero-span guard returns before the clamps and before the negation.
ApplyScaling(raw, s) ==
    LET span == s.rawMax - s.rawMin
        num  == IF span < 0 THEN s.rawMin - raw ELSE raw - s.rawMin
        den  == IF span < 0 THEN -span ELSE span
        v    == Clamp(s, s.engMin + Interpolate(s, num, den))
    IN  IF ~ s.enabled THEN raw
        ELSE IF span = 0 THEN s.engMin
        ELSE IF raw = NaN THEN NaN
        ELSE IF s.negate THEN -v ELSE v

\* Math.round to whole units for the integer types, Math.fround to the numbers a
\* float32 can hold, which are taken to be equally far apart; halves round up.
Resolution(dataType) ==
    IF dataType \in IntegerTypes THEN Unit
    ELSE IF dataType = "float32" THEN FloatStep ELSE 1
RoundTo(v, step) == ((2 * v + step) \div (2 * step)) * step
CoerceToType(v, dataType) == IF v = NaN THEN v ELSE RoundTo(v, Resolution(dataType))

ProcessValue(config, raw) ==
    IF raw \in Numbers
      THEN CoerceToType(ApplyScaling(raw, config.scaling), config.dataType)
      ELSE raw
=============================================================================
