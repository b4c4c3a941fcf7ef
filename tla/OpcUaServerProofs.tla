------------------------- MODULE OpcUaServerProofs -------------------------
(***************************************************************************)
(* The invariants of OpcUaServer for every set of devices and tags, all    *)
(* configurations and every debounce.                                      *)
(***************************************************************************)
EXTENDS OpcUaServer, TLAPS

Data == Readings \cup {NoData}
Captured == [config : TagConfigs, datum : Data]

\* A tag has a datum exactly while it is stored: load() and the removal of a tag
\* keep the engine in step with the rows (opcua-server.ts:100-117).
DataFollowTags == \A t \in Tags : current[t] = Absent <=> tags[t] = Absent

\* The inductive invariant.
OpcInv == OpcTypeOK /\ DataFollowTags /\ SpaceMirrorsStore /\ PushedInStep

-----------------------------------------------------------------------------
(* One lemma per part of a method. *)

\* Initially nothing is built, and every stored tag has no data.
LEMMA InitInv == Init => OpcInv
<1> SUFFICES ASSUME Init PROVE OpcInv
  OBVIOUS
<1> USE ConfigAssumption, BoundAssumption
<1>1. DataFollowTags
  BY DEF Init, DataFollowTags
<1>2. OpcTypeOK
  BY DEF Init, OpcTypeOK
<1> QED
  BY <1>1, <1>2 DEF Init, OpcInv, SpaceMirrorsStore, PushedInStep

\* What a build leaves is of the rows and the data of that moment, and all of
\* them when no two nodes have one path.
LEMMA BuildInv ==
    ASSUME OpcInv, Build, UNCHANGED storeVars
    PROVE  /\ deviceNodes' \in [Devices -> DeviceConfigs \cup {Absent}]
           /\ variables' \in [Tags -> Captured \cup {Absent}]
           /\ Buildable' => Mirrored'
           /\ PushedInStep'
<1> USE ConfigAssumption
<1> PICK ds, ts :
      /\ deviceNodes' = [d \in Devices |-> IF d \in Added(ds, ts) THEN devices[d] ELSE Absent]
      /\ variables' = [t \in Tags |-> IF t \in Added(ds, ts) THEN Seeded(t) ELSE Absent]
  BY DEF Build
<1>1. /\ devices \in [Devices -> DeviceConfigs \cup {Absent}]
      /\ tags \in [Tags -> TagConfigs \cup {Absent}]
      /\ current \in [Tags -> Data \cup {Absent}]
      /\ \A t \in Tags : current[t] = Absent <=> tags[t] = Absent
  BY DEF OpcInv, OpcTypeOK, DataFollowTags, Data
<1>2. \A t \in Tags : t \in Added(ds, ts) => tags[t] # Absent
  BY <1>1 DEF Added, Nodes, Stored
<1>3. \A t \in Tags : t \in Added(ds, ts) => Seeded(t) \in Captured
  BY <1>1, <1>2 DEF Seeded, Captured
<1>4. variables' \in [Tags -> Captured \cup {Absent}]
  BY <1>3
<1>5. deviceNodes' \in [Devices -> DeviceConfigs \cup {Absent}]
  BY <1>1
<1>6. PushedInStep'
  BY DEF PushedInStep, Stored, Seeded, storeVars
<1>7. ASSUME Buildable' PROVE Mirrored'
  <2>1. Added(ds, ts) = Nodes
    BY <1>7 DEF Added, Buildable, Nodes, Path, Stored, storeVars
  <2>2. deviceNodes' = devices
    BY <1>1, <2>1 DEF Nodes, Stored
  <2>3. \A t \in Tags : variables'[t] # Absent <=> tags[t] # Absent
    BY <1>1, <1>3, <2>1 DEF Nodes, Stored, Captured, Data
  <2>4. \A t \in Tags : tags[t] # Absent => variables'[t].config = tags[t]
    BY <1>1, <2>1 DEF Nodes, Stored, Seeded
  <2> QED
    BY <1>1, <1>4, <2>2, <2>3, <2>4 DEF Mirrored, Stored, storeVars
<1> QED
  BY <1>4, <1>5, <1>6, <1>7

\* Every mutation of the store puts a rebuild ahead of a running server.
LEMMA SaveInv ==
    ASSUME OpcInv,
           NEW newDevices \in [Devices -> DeviceConfigs \cup {Absent}],
           NEW newTags \in [Tags -> TagConfigs \cup {Absent}],
           Save(newDevices, newTags),
           edits' \in 0 .. MaxEdits, enables' \in 0 .. MaxEnables
    PROVE  OpcInv'
<1> USE ConfigAssumption, BoundAssumption
<1>1. DataFollowTags'
  BY DEF Save, DataFollowTags, OpcInv, OpcTypeOK
<1>2. OpcTypeOK'
  BY DEF Save, OpcInv, OpcTypeOK, spaceVars
<1>3. phase' = "up" => timer' # 0
  BY DEF Save
<1> QED
  BY <1>1, <1>2, <1>3 DEF OpcInv, SpaceMirrorsStore, PushedInStep

\* A pushed change reaches the variable in the step in which the engine has it.
LEMMA TagChangeInv ==
    ASSUME OpcInv, NEW t \in Tags, NEW datum \in Readings, TagChange(t, datum)
    PROVE  OpcInv'
<1> USE ConfigAssumption
<1>1. /\ variables \in [Tags -> Captured \cup {Absent}]
      /\ current \in [Tags -> Data \cup {Absent}]
      /\ datum \in Data
  BY DEF OpcInv, OpcTypeOK, Captured, Data
<1>2. /\ current' = [current EXCEPT ![t] = datum]
      /\ UNCHANGED <<devices, tags, deviceNodes, phase, timer, edits, enables>>
  BY DEF TagChange
<1>3. variables[t] # Absent => variables[t] \in Captured
  BY <1>1
<1>4. variables[t] # Absent =>
        [variables[t] EXCEPT !.datum = datum] = [config |-> variables[t].config, datum |-> datum]
  BY <1>3 DEF Captured
<1>5. /\ variables' \in [Tags -> Captured \cup {Absent}]
      /\ \A u \in Tags : (variables'[u] = Absent) = (variables[u] = Absent)
      /\ \A u \in Tags : variables[u] # Absent => variables'[u].config = variables[u].config
      /\ phase = "up" /\ variables[t] # Absent => variables'[t].datum = datum
      /\ \A u \in Tags \ {t} : variables'[u] = variables[u]
  <2>1. CASE phase = "up" /\ variables[t] # Absent
    <3> DEFINE new == [config |-> variables[t].config, datum |-> datum]
    <3>1. variables' = [variables EXCEPT ![t] = new]
      BY <2>1, <1>4 DEF TagChange
    <3>2. new \in Captured /\ new # Absent
      BY <1>1, <1>3, <2>1 DEF Captured, Data
    <3>3. new.config = variables[t].config /\ new.datum = datum
      OBVIOUS
    <3> HIDE DEF new
    <3> QED
      BY <1>1, <2>1, <3>1, <3>2, <3>3
  <2>2. CASE ~ (phase = "up" /\ variables[t] # Absent)
    BY <1>1, <2>2 DEF TagChange
  <2> QED
    BY <2>1, <2>2
<1>6. OpcTypeOK'
  BY <1>1, <1>2, <1>5 DEF OpcInv, OpcTypeOK, Captured, Data
<1>7. DataFollowTags'
  BY <1>1, <1>2 DEF OpcInv, DataFollowTags, TagChange, Stored
<1>8. SpaceMirrorsStore'
  <2>1. Buildable' = Buildable
    BY <1>2 DEF Buildable, Nodes, Stored, Path
  <2>2. DOMAIN variables' = Tags /\ DOMAIN variables = Tags
    BY <1>1, <1>5
  <2>3. Mirrored => Mirrored'
    BY <1>2, <1>5, <2>2 DEF Mirrored, Stored
  <2> QED
    BY <1>2, <2>1, <2>3 DEF OpcInv, SpaceMirrorsStore
<1>9. PushedInStep'
  BY <1>1, <1>2, <1>5 DEF OpcInv, PushedInStep, Stored
<1> QED
  BY <1>6, <1>7, <1>8, <1>9 DEF OpcInv

-----------------------------------------------------------------------------
(* The induction. *)

\* Every step keeps the invariant.
LEMMA NextInv == OpcInv /\ [Next]_vars => OpcInv'
<1> SUFFICES ASSUME OpcInv, [Next]_vars PROVE OpcInv'
  OBVIOUS
<1> USE ConfigAssumption, BoundAssumption
<1>0. OpcTypeOK
  BY DEF OpcInv
<1>1. CASE Start
  <2>1. Build /\ UNCHANGED storeVars /\ UNCHANGED <<timer, edits, enables>>
        /\ phase' \in {"up", "failed"}
    BY <1>1 DEF Start
  <2>2. OpcTypeOK'
    BY <1>0, <2>1, BuildInv DEF OpcTypeOK, storeVars, Captured, Data
  <2> QED
    BY <2>1, <2>2, BuildInv DEF OpcInv, SpaceMirrorsStore, DataFollowTags, storeVars
<1>2. CASE Stop
  BY <1>0, <1>2 DEF Stop, OpcInv, OpcTypeOK, DataFollowTags, SpaceMirrorsStore, PushedInStep,
     storeVars, spaceVars
<1>3. CASE Tick
  BY <1>0, <1>3 DEF Tick, OpcInv, OpcTypeOK, DataFollowTags, SpaceMirrorsStore, PushedInStep,
     storeVars, spaceVars
<1>4. CASE Rebuild
  <2>1. Build /\ UNCHANGED storeVars /\ UNCHANGED <<phase, edits, enables>> /\ timer' = 0
    BY <1>4 DEF Rebuild
  <2>2. OpcTypeOK'
    BY <1>0, <2>1, BuildInv DEF OpcTypeOK, storeVars, Captured, Data
  <2> QED
    BY <2>1, <2>2, BuildInv DEF OpcInv, SpaceMirrorsStore, DataFollowTags, storeVars
<1>5. ASSUME NEW t \in Tags, NEW datum \in Readings, TagChange(t, datum) PROVE OpcInv'
  BY <1>5, TagChangeInv
<1>6. ASSUME NEW newDevices \in [Devices -> DeviceConfigs \cup {Absent}],
             NEW newTags \in [Tags -> TagConfigs \cup {Absent}],
             Edit(newDevices, newTags)
      PROVE  OpcInv'
  BY <1>0, <1>6, SaveInv DEF Edit, OpcTypeOK
<1>7. ASSUME NEW d \in Devices, NEW c \in DeviceConfigs, SaveDevice(d, c) PROVE OpcInv'
  BY <1>0, <1>6, <1>7 DEF SaveDevice, OpcTypeOK
<1>8. ASSUME NEW d \in Devices, DeleteDevice(d) PROVE OpcInv'
  BY <1>0, <1>6, <1>8 DEF DeleteDevice, OpcTypeOK
<1>9. ASSUME NEW t \in Tags, NEW c \in TagConfigs, SaveTag(t, c) PROVE OpcInv'
  BY <1>0, <1>6, <1>9 DEF SaveTag, OpcTypeOK
<1>10. ASSUME NEW t \in Tags, DeleteTag(t) PROVE OpcInv'
  BY <1>0, <1>6, <1>10 DEF DeleteTag, OpcTypeOK
<1>11. ASSUME NEW d \in Devices, NEW b \in BOOLEAN, WriteEnabled(d, b) PROVE OpcInv'
  <2>1. [deviceNodes[d] EXCEPT !.enabled = b] \in DeviceConfigs
    BY <1>0, <1>11 DEF WriteEnabled, OpcTypeOK
  <2>2. enables' \in 0 .. MaxEnables /\ edits' \in 0 .. MaxEdits
    BY <1>0, <1>11 DEF WriteEnabled, OpcTypeOK
  <2>3. /\ [devices EXCEPT ![d] = [deviceNodes[d] EXCEPT !.enabled = b]]
              \in [Devices -> DeviceConfigs \cup {Absent}]
        /\ tags \in [Tags -> TagConfigs \cup {Absent}]
    BY <1>0, <2>1 DEF OpcTypeOK
  <2> QED
    BY <1>11, <2>2, <2>3, SaveInv DEF WriteEnabled
<1>12. CASE UNCHANGED vars
  BY <1>12 DEF vars, storeVars, spaceVars, OpcInv, OpcTypeOK, DataFollowTags,
     SpaceMirrorsStore, PushedInStep, Buildable, Nodes, Path, Mirrored, Stored
<1> QED
  BY <1>1, <1>2, <1>3, <1>4, <1>5, <1>7, <1>8, <1>9, <1>10, <1>11, <1>12 DEF Next

\* The inductive invariant holds always.
LEMMA InvHolds == Spec => []OpcInv
BY InitInv, NextInv, PTL DEF Spec

\* "The address space is rebuilt (debounced) whenever the config store changes":
\* with no rebuild ahead the nodes are those of the store, unless two of them
\* claim one path (opcua-server.ts:42, 430-444).
THEOREM SpaceMirrors == Spec => []SpaceMirrorsStore
BY InvHolds, PTL DEF OpcInv

\* What is stored in a variable is what a read of it answers
\* (opcua-server.ts:343-377, 414-418).
THEOREM ChangesPushed == Spec => []PushedInStep
BY InvHolds, PTL DEF OpcInv
=============================================================================
