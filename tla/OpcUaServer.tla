----------------------------- MODULE OpcUaServer -----------------------------
(***************************************************************************)
(* The northbound OPC UA server (packages/server/src/opcua-server.ts): the *)
(* address space built from the store, the debounced rebuild after edits,  *)
(* the values pushed into it, and the clients' writes.                     *)
(*                                                                         *)
(* There is one channel.  Of the tag engine only what this server sees is  *)
(* kept: the configuration of each tag, which is the one saved             *)
(* (ServerCore!EngineMirrorsStore), and one datum for value and quality,   *)
(* every change of which is reported (the deadband is TagEngine's).  The   *)
(* nodes capture the configuration they were built from.  Statistics are   *)
(* left out, and so is the write of a tag, which is TagEngine!Write.        *)
(***************************************************************************)
EXTENDS Integers, SequencesExt

CONSTANTS
    Devices,        \* device ids
    DeviceConfigs,  \* the device configurations an operator may save
    Tags,           \* tag ids
    TagConfigs,     \* the tag configurations an operator may save
    Readings,       \* value and quality a driver may give a tag
    NoData,         \* value and quality of a tag no driver has delivered yet
    Absent,         \* no such row, tag or node
    Debounce,       \* bound: ticks of the rebuild's debounce
    MaxEdits,       \* bound: edits by the operator
    MaxEnables      \* bound: writes of _Enabled by OPC UA clients

ASSUME ConfigAssumption ==
    /\ \A c \in DeviceConfigs : DOMAIN c = {"name", "enabled", "settings"}
    /\ \A c \in DeviceConfigs, b \in BOOLEAN : [c EXCEPT !.enabled = b] \in DeviceConfigs
    /\ \A c \in TagConfigs : DOMAIN c = {"name", "device", "ro"} /\ c.device \in Devices
    /\ Absent \notin DeviceConfigs \cup TagConfigs \cup Readings \cup {NoData}
    /\ Absent \notin [config : TagConfigs, datum : Readings \cup {NoData}]
    /\ Devices \cap Tags = {}
ASSUME BoundAssumption ==
    Debounce \in Nat \ {0} /\ MaxEdits \in Nat /\ MaxEnables \in Nat

VARIABLES
    devices,    \* the device rows of the store
    tags,       \* the tag rows of the store, and the configurations of the engine
    current,    \* tag id -> its datum in the engine, or Absent
    phase,      \* of this server: "starting", "up", "failed", "stopped"
    deviceNodes,\* device id -> the configuration its nodes captured, or Absent
    variables,  \* tag id -> the configuration its variable captured and the
                \* datum stored in it, or Absent (tagVariables)
    timer,      \* ticks left before a rebuild; 0 when none is armed
    edits, enables

storeVars == <<devices, tags, current>>
spaceVars == <<deviceNodes, variables>>
vars == <<storeVars, spaceVars, phase, timer, edits, enables>>

Stored(rows) == {x \in DOMAIN rows : rows[x] # Absent}

-----------------------------------------------------------------------------
(* The address space. *)

\* The names a node id is made of, below the channel's.
Path(x) == IF x \in Devices THEN <<devices[x].name>>
           ELSE <<devices[tags[x].device].name, tags[x].name>>

Nodes == Stored(devices) \cup Stored(tags)

\* No two nodes have one path: the whole space can be built.
Buildable == \A x, y \in Nodes : Path(x) = Path(y) => x = y

\* The device a node belongs to.
Owner(x) == IF x \in Devices THEN x ELSE tags[x].device

\* y is added no later than x when the rows are listed as ds and ts: the devices
\* in their order, each followed by its tags in theirs.
NotAfter(ds, ts, y, x) ==
    \E i, j \in DOMAIN ds :
      /\ ds[i] = Owner(y) /\ ds[j] = Owner(x)
      /\ \/ i < j
         \/ i = j /\ (y = x \/ y \in Devices)
         \/ i = j /\ \E k \in DOMAIN ts : ts[k] = x /\ \E l \in 1 .. k : ts[l] = y

\* Adding a node whose id exists throws: what had been added by then.
Added(ds, ts) ==
    {x \in Nodes : ~ \E y, z \in Nodes :
        /\ y # z /\ Path(y) = Path(z)
        /\ NotAfter(ds, ts, y, x) /\ NotAfter(ds, ts, z, x)}

\* Fault: a variable is seeded with the default value of its type.
SeededBlank(t) == [config |-> tags[t], datum |-> NoData]

\* A variable is seeded with tagDataValue, what a read of it answers.
Seeded(t) == [config |-> tags[t], datum |-> current[t]]

\* buildAddressSpace: everything is forgotten first, rows are listed in any order.
Build ==
    \E ds \in SetToSeqs(Stored(devices)), ts \in SetToSeqs(Stored(tags)) :
      LET added == Added(ds, ts)
      IN  /\ deviceNodes' = [d \in Devices |-> IF d \in added THEN devices[d] ELSE Absent]
          /\ variables' = [t \in Tags |-> IF t \in added THEN Seeded(t) ELSE Absent]

-----------------------------------------------------------------------------
(* Start, stop, engine. *)

\* A configuration saved by an earlier run; no driver has delivered yet.
Init ==
    /\ devices \in [Devices -> DeviceConfigs \cup {Absent}]
    /\ tags \in [Tags -> TagConfigs \cup {Absent}]
    /\ \A t \in Stored(tags) : tags[t].device \in Stored(devices)
    /\ current = [t \in Tags |-> IF tags[t] = Absent THEN Absent ELSE NoData]
    /\ phase = "starting"
    /\ deviceNodes = [d \in Devices |-> Absent]
    /\ variables = [t \in Tags |-> Absent]
    /\ timer = 0
    /\ edits = 0 /\ enables = 0

\* startOpcUaServer: the first build is not guarded, and after a failure
\* nothing listens to edits.
Start ==
    /\ phase = "starting"
    /\ Build
    /\ phase' = IF Buildable THEN "up" ELSE "failed"
    /\ UNCHANGED <<storeVars, timer, edits, enables>>

Stop ==
    /\ phase = "up"
    /\ phase' = "stopped"
    /\ timer' = 0
    /\ UNCHANGED <<storeVars, spaceVars, edits, enables>>

\* A driver delivers, and onTagChange pushes the change to subscribers.
TagChange(t, datum) ==
    /\ t \in Stored(tags)
    /\ datum # current[t]
    /\ current' = [current EXCEPT ![t] = datum]
    /\ variables' = IF phase = "up" /\ variables[t] # Absent
                      THEN [variables EXCEPT ![t].datum = datum] ELSE variables
    /\ UNCHANGED <<devices, tags, deviceNodes, phase, timer, edits, enables>>

-----------------------------------------------------------------------------
(* Edits. *)

\* Fault: edits of tags are not listened to.
SaveDevicesOnly(newDevices, newTags) ==
    /\ devices' = newDevices
    /\ tags' = newTags
    /\ current' = [t \in Tags |-> IF newTags[t] = Absent THEN Absent
                                   ELSE IF tags[t] = Absent THEN NoData ELSE current[t]]
    /\ timer' = IF phase = "up" /\ newDevices # devices THEN Debounce ELSE timer
    /\ UNCHANGED <<spaceVars, phase>>

\* Fault: an edit clears the timer and only arms it when none was armed.
SaveClearingTimer(newDevices, newTags) ==
    /\ devices' = newDevices
    /\ tags' = newTags
    /\ current' = [t \in Tags |-> IF newTags[t] = Absent THEN Absent
                                   ELSE IF tags[t] = Absent THEN NoData ELSE current[t]]
    /\ timer' = IF phase = "up" /\ timer = 0 THEN Debounce ELSE 0
    /\ UNCHANGED <<spaceVars, phase>>

\* A mutation of the store: the engine is reloaded and keeps the data of the
\* tags that stay, and onConfigChange puts the rebuild off.
Save(newDevices, newTags) ==
    /\ devices' = newDevices
    /\ tags' = newTags
    /\ current' = [t \in Tags |-> IF newTags[t] = Absent THEN Absent
                                   ELSE IF tags[t] = Absent THEN NoData ELSE current[t]]
    /\ timer' = IF phase = "up" THEN Debounce ELSE timer
    /\ UNCHANGED <<spaceVars, phase>>

Edit(newDevices, newTags) ==
    /\ edits < MaxEdits /\ edits' = edits + 1
    /\ Save(newDevices, newTags)
    /\ UNCHANGED enables

SaveDevice(d, config) == Edit([devices EXCEPT ![d] = config], tags)

\* removeDevice with its tags: its rows go one by one, in one call.
DeleteDevice(d) ==
    /\ d \in Stored(devices)
    /\ Edit([devices EXCEPT ![d] = Absent],
            [t \in Tags |-> IF t \in Stored(tags) /\ tags[t].device = d
                              THEN Absent ELSE tags[t]])

SaveTag(t, config) ==
    /\ config.device \in Stored(devices)
    /\ Edit(devices, [tags EXCEPT ![t] = config])

DeleteTag(t) == t \in Stored(tags) /\ Edit(devices, [tags EXCEPT ![t] = Absent])

Tick ==
    /\ timer > 1
    /\ timer' = timer - 1
    /\ UNCHANGED <<storeVars, spaceVars, phase, edits, enables>>

\* The debounce elapses; a build that throws is logged and left as it is.
Rebuild ==
    /\ timer = 1
    /\ timer' = 0
    /\ Build
    /\ UNCHANGED <<storeVars, phase, edits, enables>>

-----------------------------------------------------------------------------
(* Clients. *)

\* A client writes _Enabled: the captured configuration is saved with it.
WriteEnabled(d, enabled) ==
    /\ phase = "up" /\ deviceNodes[d] # Absent
    /\ enables < MaxEnables /\ enables' = enables + 1
    /\ Save([devices EXCEPT ![d] = [deviceNodes[d] EXCEPT !.enabled = enabled]], tags)
    /\ UNCHANGED edits

Next ==
    \/ Start \/ Stop \/ Tick \/ Rebuild
    \/ \E t \in Tags, datum \in Readings : TagChange(t, datum)
    \/ \E d \in Devices : DeleteDevice(d) \/ \E c \in DeviceConfigs : SaveDevice(d, c)
    \/ \E t \in Tags : DeleteTag(t) \/ \E c \in TagConfigs : SaveTag(t, c)
    \/ \E d \in Devices, b \in BOOLEAN : WriteEnabled(d, b)

\* Timers run.
Spec == Init /\ [][Next]_vars /\ WF_vars(Tick) /\ WF_vars(Rebuild)

-----------------------------------------------------------------------------
(* Properties. *)

\* The rows, the engine, the nodes and the timer have their types.
OpcTypeOK ==
    /\ devices \in [Devices -> DeviceConfigs \cup {Absent}]
    /\ tags \in [Tags -> TagConfigs \cup {Absent}]
    /\ current \in [Tags -> Readings \cup {NoData, Absent}]
    /\ phase \in {"starting", "up", "failed", "stopped"}
    /\ deviceNodes \in [Devices -> DeviceConfigs \cup {Absent}]
    /\ variables \in [Tags -> [config : TagConfigs, datum : Readings \cup {NoData}]
                               \cup {Absent}]
    /\ timer \in 0 .. Debounce
    /\ edits \in 0 .. MaxEdits /\ enables \in 0 .. MaxEnables

\* What is browsed is what is stored, down to the captured configurations.
Mirrored ==
    /\ deviceNodes = devices
    /\ Stored(variables) = Stored(tags)
    /\ \A t \in Stored(tags) : variables[t].config = tags[t]

\* "The address space is rebuilt (debounced) whenever the config store changes"
\* (opcua-server.ts:42): with no rebuild ahead the nodes are those of the store,
\* unless two of them claim one path.
SpaceMirrorsStore == phase = "up" /\ timer = 0 /\ Buildable => Mirrored

\* "Push tag changes into the address space so subscriptions see them
\* immediately" (opcua-server.ts:414-415): what is stored in a variable is what
\* a read of it answers, through rebuilds, failed ones too, and for tags that
\* were removed and added again.
PushedInStep ==
    phase = "up" /\ timer = 0 =>
      \A t \in Stored(variables) : variables[t].datum = current[t]

\* When edits and writes stop, the space becomes that of the store, although
\* every edit puts the rebuild off and builds may have failed in between
\* (opcua-server.ts:430-444).
SpaceConverges == <>[](phase = "up" => Mirrored \/ ~ Buildable)

\* _Enabled is there to "Enable or disable communication with the device."
\* (opcua-server.ts:284): a write of it changes nothing else in the store.
EnabledWriteKeepsRest ==
    [][enables' # enables =>
         \E d \in Stored(devices), b \in BOOLEAN :
           devices' = [devices EXCEPT ![d].enabled = b]]_vars
=============================================================================
