---------------------------- MODULE ScalingLaws ----------------------------
(***************************************************************************)
(* The laws an operator relies on when entering a scaling, checked while   *)
(* the raw value of one tag sweeps upwards through a window.               *)
(***************************************************************************)
EXTENDS Scaling

CONSTANTS
    Samples,    \* the scalings to try
    Types,      \* the data types to try
    LowRaw,     \* bound: first raw value of the sweep
    HighRaw     \* bound: last raw value of the sweep

ASSUME SampleAssumption ==
    /\ Samples \subseteq Scalings /\ Types \subseteq DataTypes
    /\ LowRaw \in Int /\ HighRaw \in Int

VARIABLES raw, scaling, dataType

sweepVars == <<raw, scaling, dataType>>

SweepInit == raw = LowRaw /\ scaling \in Samples /\ dataType \in Types

\* The device delivers the next raw value.
Sweep ==
    /\ raw < HighRaw
    /\ raw' = raw + 1
    /\ UNCHANGED <<scaling, dataType>>

SweepSpec == SweepInit /\ [][Sweep]_sweepVars

-----------------------------------------------------------------------------

Scaled(r) == ProcessValue([scaling |-> scaling, dataType |-> dataType], r)

Interpolated == scaling.enabled /\ scaling.rawMax # scaling.rawMin

\* A fully clamped value lies between engMin and engMax, mirrored when
\* negated: the negation comes last, and rounding does not leave a range whose
\* ends the type can hold: whole units, or float32 numbers
\* (tag-engine.ts:197-200, 206-225; config.ts:18-22).
ClampedInRange ==
    (Interpolated /\ scaling.clampLow /\ scaling.clampHigh
       /\ scaling.engMin <= scaling.engMax
       /\ scaling.engMin % Resolution(dataType) = 0 /\ scaling.engMax % Resolution(dataType) = 0)
    => LET v == IF scaling.negate THEN -Scaled(raw) ELSE Scaled(raw)
       IN  scaling.engMin <= v /\ v <= scaling.engMax
=============================================================================
