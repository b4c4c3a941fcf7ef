---------------------------- MODULE ConfigStore ----------------------------
(***************************************************************************)
(* The configuration store (packages/core/src/store.ts): channels, devices,*)
(* tags and MQTT agents in SQLite, a change event for every mutation, and   *)
(* removals that cascade row by row.                                        *)
(*                                                                         *)
(* A cascade is a loop of separately committed DELETEs, each followed by    *)
(* its event.  No other call runs in between (one thread), but the process  *)
(* may die there, and a listener sees the rows as they are at that moment:  *)
(* each turn of the loop is a step.  `emitted` holds the events of a step.  *)
(***************************************************************************)
EXTENDS Integers, FiniteSets

CONSTANTS
    Channels, Devices, Tags, Agents,                    \* ids
    ChannelData, DeviceData, TagData, AgentData,        \* what the rows hold
    Projects,   \* the projects an operator may import in place of the current one
    Additions,  \* the projects an operator may merge into the current one
    NoRow,     \* no row with this id
    None        \* no id

ASSUME NoneAssumption == None \notin Channels /\ None \notin Devices

ChannelRows == ChannelData \cup {NoRow}
DeviceRows == [channel : Channels, data : DeviceData] \cup {NoRow}
TagRows == [device : Devices, data : TagData] \cup {NoRow}
AgentRows == AgentData \cup {NoRow}

\* The content of a database, and the shape of an imported project.
Databases == [channels : [Channels -> ChannelRows], devices : [Devices -> DeviceRows],
              tags : [Tags -> TagRows], agents : [Agents -> AgentRows]]

ASSUME ProjectAssumption == Projects \cup Additions \subseteq Databases

ASSUME RowAssumption ==
    /\ NoRow \notin ChannelData /\ NoRow \notin AgentData
    /\ NoRow \notin [channel : Channels, data : DeviceData]
    /\ NoRow \notin [device : Devices, data : TagData]

VARIABLES
    db,         \* the committed rows
    call,       \* the removal in progress
    emitted     \* the change events of the last step

storeVars == <<db, call, emitted>>

\* channel: the channel being removed, with the devices still to remove;
\* device: the device being removed, with the tags still to remove.
NoCall == [channel |-> None, devices |-> {}, device |-> None, tags |-> {}]

Calls == [channel : Channels \cup {None}, devices : SUBSET Devices,
          device : Devices \cup {None}, tags : SUBSET Tags]

Event(kind, action, id) == [kind |-> kind, action |-> action, id |-> id]

\* The one event a whole-project import emits, with the id "*".
ProjectEvent == Event("channel", "upsert", None)

-----------------------------------------------------------------------------

\* Fault: the WHERE clause is missing.
DevicesOfAnyChannel(d, c) == {x \in Devices : d.devices[x] # NoRow}

DevicesOf(d, c) == {x \in Devices : d.devices[x] # NoRow /\ d.devices[x].channel = c}
TagsOf(d, x) == {t \in Tags : d.tags[t] # NoRow /\ d.tags[t].device = x}

Empty == [channels |-> [c \in Channels |-> NoRow],
          devices |-> [x \in Devices |-> NoRow],
          tags |-> [t \in Tags |-> NoRow],
          agents |-> [a \in Agents |-> NoRow]]

\* The devices whose channel is not there and the tags whose device is not there.
OrphanDevices(d) ==
    {x \in Devices : d.devices[x] # NoRow /\ d.channels[d.devices[x].channel] = NoRow}
OrphanTags(d) ==
    {t \in Tags : d.tags[t] # NoRow /\ d.devices[d.tags[t].device] = NoRow}

\* Upsert every row of project over the rows of d.
Overlay(d, project) ==
    [channels |-> [c \in Channels |-> IF project.channels[c] = NoRow
                                        THEN d.channels[c] ELSE project.channels[c]],
     devices |-> [x \in Devices |-> IF project.devices[x] = NoRow
                                      THEN d.devices[x] ELSE project.devices[x]],
     tags |-> [t \in Tags |-> IF project.tags[t] = NoRow
                                THEN d.tags[t] ELSE project.tags[t]],
     agents |-> [a \in Agents |-> IF project.agents[a] = NoRow
                                    THEN d.agents[a] ELSE project.agents[a]]]

StoreInit ==
    /\ db = Empty
    /\ call = NoCall
    /\ emitted = {}

-----------------------------------------------------------------------------
(* Upserts.  An unknown parent throws and nothing happens. *)

UpsertChannel(c, data) ==
    /\ call = NoCall
    /\ db' = [db EXCEPT !.channels[c] = data]
    /\ emitted' = {Event("channel", "upsert", c)}
    /\ UNCHANGED call

\* Fault: the channel of the device is not looked up.
UpsertDeviceUnchecked(x, row) ==
    /\ call = NoCall
    /\ db' = [db EXCEPT !.devices[x] = row]
    /\ emitted' = {Event("device", "upsert", x)}
    /\ UNCHANGED call

UpsertDevice(x, row) ==
    /\ call = NoCall
    /\ db.channels[row.channel] # NoRow
    /\ db' = [db EXCEPT !.devices[x] = row]
    /\ emitted' = {Event("device", "upsert", x)}
    /\ UNCHANGED call

UpsertTag(t, row) ==
    /\ call = NoCall
    /\ db.devices[row.device] # NoRow
    /\ db' = [db EXCEPT !.tags[t] = row]
    /\ emitted' = {Event("tag", "upsert", t)}
    /\ UNCHANGED call

UpsertMqttAgent(a, data) ==
    /\ call = NoCall
    /\ db' = [db EXCEPT !.agents[a] = data]
    /\ emitted' = {Event("mqttAgent", "upsert", a)}
    /\ UNCHANGED call

-----------------------------------------------------------------------------
(* Removals.  Removing what is not there emits nothing. *)

RemoveMqttAgent(a) ==
    /\ call = NoCall
    /\ db' = [db EXCEPT !.agents[a] = NoRow]
    /\ emitted' = IF db.agents[a] = NoRow THEN {} ELSE {Event("mqttAgent", "remove", a)}
    /\ UNCHANGED call

DeleteTagRow(t) ==
    /\ db' = [db EXCEPT !.tags[t] = NoRow]
    /\ emitted' = IF db.tags[t] = NoRow THEN {} ELSE {Event("tag", "remove", t)}

RemoveTag(t) ==
    /\ call = NoCall
    /\ DeleteTagRow(t)
    /\ UNCHANGED call

\* removeDevice lists the tags of the device, then works through the list.
RemoveDevice(x) ==
    /\ call = NoCall
    /\ call' = [call EXCEPT !.device = x, !.tags = TagsOf(db, x)]
    /\ emitted' = {}
    /\ UNCHANGED db

\* removeChannel lists the devices of the channel and removes each of them.
RemoveChannel(c) ==
    /\ call = NoCall
    /\ call' = [call EXCEPT !.channel = c, !.devices = DevicesOf(db, c)]
    /\ emitted' = {}
    /\ UNCHANGED db

CascadeDevice(x) ==
    /\ call.device = None /\ x \in call.devices
    /\ call' = [call EXCEPT !.devices = @ \ {x}, !.device = x, !.tags = TagsOf(db, x)]
    /\ emitted' = {}
    /\ UNCHANGED db

CascadeTag(t) ==
    /\ t \in call.tags
    /\ DeleteTagRow(t)
    /\ call' = [call EXCEPT !.tags = @ \ {t}]

\* The row of the device goes last.
DeleteDeviceRow ==
    /\ call.device # None /\ call.tags = {}
    /\ db' = [db EXCEPT !.devices[call.device] = NoRow]
    /\ emitted' = IF db.devices[call.device] = NoRow THEN {}
                  ELSE {Event("device", "remove", call.device)}
    /\ call' = [call EXCEPT !.device = None]

DeleteChannelRow ==
    /\ call.channel # None /\ call.device = None /\ call.devices = {}
    /\ db' = [db EXCEPT !.channels[call.channel] = NoRow]
    /\ emitted' = IF db.channels[call.channel] = NoRow THEN {}
                  ELSE {Event("channel", "remove", call.channel)}
    /\ call' = NoCall

Cascade ==
    \/ \E x \in Devices : CascadeDevice(x)
    \/ \E t \in Tags : CascadeTag(t)
    \/ DeleteDeviceRow
    \/ DeleteChannelRow

-----------------------------------------------------------------------------
(* Whole projects, each in one transaction. *)

\* DELETE everything, INSERT every row.
ReplaceProject(project) ==
    /\ call = NoCall
    /\ db' = project
    /\ emitted' = {ProjectEvent}
    /\ UNCHANGED call

\* A row whose parent is unknown rolls the whole transaction back.
MergeProject(project) ==
    /\ call = NoCall
    /\ LET merged == Overlay(db, project)
       IN  /\ \A x \in Devices : project.devices[x] # NoRow =>
                merged.channels[project.devices[x].channel] # NoRow
           /\ \A t \in Tags : project.tags[t] # NoRow =>
                merged.devices[project.tags[t].device] # NoRow
           /\ db' = merged
    /\ emitted' = {ProjectEvent}
    /\ UNCHANGED call

\* The process dies: committed rows stay, the rest of a cascade is lost.
Crash ==
    /\ call' = NoCall
    /\ emitted' = {}
    /\ UNCHANGED db

Edit ==
    \/ \E c \in Channels : RemoveChannel(c) \/ \E data \in ChannelData : UpsertChannel(c, data)
    \/ \E x \in Devices : \/ RemoveDevice(x)
                          \/ \E row \in DeviceRows \ {NoRow} : UpsertDevice(x, row)
    \/ \E t \in Tags : \/ RemoveTag(t)
                       \/ \E row \in TagRows \ {NoRow} : UpsertTag(t, row)
    \/ \E a \in Agents : \/ RemoveMqttAgent(a)
                         \/ \E data \in AgentData : UpsertMqttAgent(a, data)
    \/ \E p \in Projects : ReplaceProject(p)
    \/ \E p \in Additions : MergeProject(p)

StoreNext == Edit \/ Cascade \/ Crash

StoreSpec == StoreInit /\ [][StoreNext]_storeVars

-----------------------------------------------------------------------------
(* Properties. *)

TypeOK ==
    /\ db \in Databases
    /\ call \in Calls

\* What the store leaves unchecked when it replaces a project is all there ever is: no
\* upsert, merge or removal, no step of a cascade, where listeners read the store, and
\* no crash in the middle of one leaves a device without its channel or a tag without
\* its device that was not an orphan before (store.ts:98-108, 142-150, 273, 281).
\* replaceProject() inserts the rows of its file as they are (store.ts:243-258).
OrphansOnlyImported ==
    [][(\A p \in Projects : ~ReplaceProject(p)) =>
         /\ OrphanDevices(db') \subseteq OrphanDevices(db)
         /\ OrphanTags(db') \subseteq OrphanTags(db)]_storeVars

\* The list a cascade works through still holds every row that hangs from the
\* one it will delete: what makes the cascades leave no orphans.
CascadeCoversChildren ==
    /\ call.device # None => TagsOf(db, call.device) \subseteq call.tags
    /\ call.channel # None =>
         DevicesOf(db, call.channel) \subseteq call.devices \cup {call.device}
    /\ call.device = None => call.tags = {}
    /\ call.channel = None => call.devices = {}

StoreInv == TypeOK /\ CascadeCoversChildren

\* A removal touches nothing outside the subtree it was asked to remove, and
\* leaves the rows of the subtree to a later step or deletes them.
RemovalStaysInSubtree ==
    [][call # NoCall /\ db' # db =>
         /\ db'.agents = db.agents
         /\ \A c \in Channels : db'.channels[c] # db.channels[c] => c = call.channel
         /\ \A x \in Devices : db'.devices[x] # db.devices[x] =>
              /\ x = call.device
              /\ call.channel # None => db.devices[x].channel = call.channel
         /\ \A t \in Tags : db'.tags[t] # db.tags[t] =>
              db.tags[t].device = call.device]_storeVars
=============================================================================
