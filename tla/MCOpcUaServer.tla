---------------------------- MODULE MCOpcUaServer ----------------------------
(* Two devices and two tags whose names may clash: a tag moves, is renamed  *)
(* or becomes read-only; a device is renamed or gets other settings.        *)
EXTENDS OpcUaServer

CONSTANTS t1, t2, d1, d2, r1

MCTagConfigs ==
    {[name |-> "flow", device |-> d1, ro |-> FALSE],
     [name |-> "level", device |-> d1, ro |-> TRUE],
     [name |-> "flow", device |-> d2, ro |-> FALSE]}
MCDeviceConfigs == [name : {"plc", "rtu"}, enabled : BOOLEAN, settings : {"host a"}]
MCOtherSettings == [name : {"plc"}, enabled : BOOLEAN, settings : {"host a", "host b"}]

\* Whether a device is enabled makes no difference to a build: it starts enabled.
EnabledInit == Init /\ \A d \in Stored(devices) : devices[d].enabled
EnabledSpec == EnabledInit /\ [][Next]_vars /\ WF_vars(Tick) /\ WF_vars(Rebuild)

MCReadings == {r1}
MCTags == {t1, t2}
MCDevices == {d1, d2}
=============================================================================
