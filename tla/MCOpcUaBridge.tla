---------------------------- MODULE MCOpcUaBridge ----------------------------
(* Two instances in one, which have some of the channels, devices and tags     *)
(* each.  Routing and writing: two channels on one server, c1 subscribes for   *)
(* the device d1 with the tag t1, c2 polls for d2 with t2, a 64-bit tag.       *)
(* Losses: two servers, c1 with d1, and d3 that is created later, on one, c3   *)
(* with d4 on the other, one address and no uncertain values; two connections  *)
(* may break, in the other instance one, beside one change of a value.         *)
EXTENDS OpcUaBridge, TLC

CONSTANTS c1, c2, c3, d1, d2, d3, d4, t1, t2, t3, t4, a1, a2, bad

MCKey == c1 :> "server" @@ c2 :> "server" @@ c3 :> "other"
MCChannelOf == d1 :> c1 @@ d2 :> c2 @@ d3 :> c1 @@ d4 :> c3
MCDeviceOf == t1 :> d1 @@ t2 :> d2 @@ t3 :> d3 @@ t4 :> d4
MCTagOrder == <<t1, t3, t2, t4>>

Row(a, access) == [address |-> a, access |-> access]
Config(ds, ts, row) ==
    [devices |-> [d \in Devices |-> IF d \in ds THEN "enabled" ELSE Absent],
     tags |-> [t \in Tags |-> IF t \in ts THEN row ELSE Absent]]

\* One channel, its device with a tag; or a device with a tag on each server.
MCRouting == Config({d1}, {t1}, Row(a1, "rw"))
MCLosses == Config({d1, d4}, {t1, t4}, Row(a1, "ro"))
MCInitial == {MCRouting, MCLosses}

VARIABLE part       \* what is explored

\* The configurations of each instance.
DevicesHere == IF part = "routing" THEN {d1, d2} ELSE {d1, d3, d4}
RowsHere == IF part = "routing" THEN TagRows ELSE {Absent, Row(a1, "ro")}

MCInit ==
    /\ part \in {"routing", "losses"}
    /\ Init
    /\ tags = IF part = "routing" THEN MCRouting.tags ELSE MCLosses.tags
    /\ field = a1 :> 0 @@ a2 :> 1

\* The bounds of each instance.
MCNext ==
    /\ Next
    /\ \A d \in Devices \ DevicesHere : devices'[d] = Absent
    /\ \A t \in Tags : tags'[t] \in RowsHere
    /\ IF part = "routing" THEN losses' <= 1 /\ changes' <= 1
       ELSE changes' = 0 /\ \A t \in Tags : shown'[t].quality # "uncertain"
    /\ UNCHANGED part

MCSpec == MCInit /\ [][MCNext]_<<part, vars>>
=============================================================================
