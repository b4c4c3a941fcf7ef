---------------------------- MODULE MCEditSession ----------------------------
(* A channel with a device and a tag, all with ids of their own. *)
EXTENDS EditSession

CONSTANTS c, d, t

MCKind == [e \in Entities |-> CASE e = c -> "channel" [] e = d -> "device" [] OTHER -> "tag"]
MCId == [e \in Entities |-> CASE e = c -> "c" [] e = d -> "d" [] OTHER -> "t"]
MCParent == [e \in Entities |-> CASE e = c -> Root [] e = d -> c [] OTHER -> d]
MCConfigs == [name : {0, 1}, opt : {0, 1}, driver : {"modbus", "opcua"}, rest : {0, 1}]
MCInitial == {[e \in Entities |-> [name |-> 0, opt |-> 0, driver |-> k, rest |-> 0]] : k \in Drivers}
=============================================================================
