---------------------------- MODULE MCDataPath ----------------------------
(* The way of a value from the registers of a device to a client, in its   *)
(* three parts: from registers to raw values (Modbus), from a raw value to *)
(* the value of the tag (ScalingLaws), and what the engine makes of it and *)
(* tells (TagEngine).  One part is explored at a time, while the others    *)
(* are at rest.                                                            *)
(*                                                                         *)
(* Scaling: two steps to the unit, a raw range of either orientation or    *)
(* none, an engineering range of either orientation, every mix of options; *)
(* float32 numbers two units apart.                                        *)
(* Engine: two tags, two devices and three configurations that differ in   *)
(* device, access, deadband and scaling: moving a tag between devices,     *)
(* editing its deadband and removing it are all reachable while drivers    *)
(* deliver.                                                                *)
EXTENDS MCModbus, ScalingLaws, TagEngine

CONSTANTS t1, t2, d1, d2, timeout, nan, null, none, noError

MCWords == {}

MCLowRaw == -2
MCTypes == {"int16", "float32", "float64"}
MCSamples ==
    [enabled : BOOLEAN, type : {"linear", "square-root"},
     rawMin : {0, 4}, rawMax : {0, 4}, engMin : {-4, 2, 8}, engMax : {-4, 2, 8},
     clampLow : BOOLEAN, clampHigh : BOOLEAN, negate : BOOLEAN]

Unscaled == [enabled |-> FALSE, type |-> "linear", rawMin |-> 0, rawMax |-> 100,
             engMin |-> 0, engMax |-> 100,
             clampLow |-> FALSE, clampHigh |-> FALSE, negate |-> FALSE]

\* 0 .. 4 raw onto 4 .. 0, then rounded to whole units (two steps each)
Inverted == [Unscaled EXCEPT !.enabled = TRUE, !.rawMax = 4, !.engMin = 4, !.engMax = 0]

Config(d, ro, deadband, scaled, type) ==
    [device |-> d, ro |-> ro, deadband |-> deadband,
     scaling |-> scaled, dataType |-> type]

MCConfigs == {Config(d1, FALSE, 0, Unscaled, "float64"),
              Config(d1, FALSE, 1, Unscaled, "float64"),
              Config(d2, TRUE, 1, Inverted, "int16")}

MCTags == {t1, t2}
MCDevices == {d1, d2}
MCErrors == {timeout}
MCRawValues == 0 .. 2 \cup {nan}

\* What DriverProofs assumes of the layouts and the writes
ASSUME CombinedHere == CombinedTypes

VARIABLE part       \* what is explored

allVars == <<part, modbusVars, sweepVars, vars>>

\* A device without tags, a sweep that is over, an engine without tags
NoDevice ==
    /\ layout = <<>> /\ device \in {d \in TriedSettings : ~ d.blockReads}
    /\ memory = [table \in Tables |-> [o \in 0 .. MaxOffset |-> 0]]
    /\ held = <<>> /\ written = <<>>
NoSweep ==
    /\ raw = HighRaw /\ dataType = "int16"
    /\ scaling \in {s \in Samples : s.rawMin = s.rawMax /\ s.engMin = s.engMax}
    /\ scaling.enabled = FALSE /\ scaling.type = "linear" /\ scaling.rawMin = 0
    /\ scaling.engMin = 2 /\ ~ scaling.clampLow /\ ~ scaling.clampHigh /\ ~ scaling.negate

DataInit ==
    /\ part \in {"registers", "scaling", "engine"}
    /\ IF part = "registers" THEN ModbusInit ELSE NoDevice
    /\ IF part = "scaling" THEN SweepInit ELSE NoSweep
    /\ Init

DataNext ==
    \/ part = "registers" /\ ModbusNext /\ UNCHANGED <<part, sweepVars, vars>>
    \/ part = "scaling" /\ Sweep /\ UNCHANGED <<part, modbusVars, vars>>
    \/ part = "engine" /\ Next /\ UNCHANGED <<part, modbusVars, sweepVars>>

DataSpec == DataInit /\ [][DataNext]_allVars
===========================================================================
