----------------------------- MODULE OpcUaBridge -----------------------------
(***************************************************************************)
(* OPC UA client channels: the nodes generated for them (opcuaGroupNodes in *)
(* drivers/src/flow-gen.ts) and the three bridges between the client and    *)
(* the tag engine (drivers/nodered/odi-opcua-*.js).  Channels with the same *)
(* connection key are a group: one client, one inbound bridge.  The client  *)
(* node and the OPC UA server behind it are external.                       *)
(***************************************************************************)
EXTENDS Naturals, Sequences, SequencesExt, FiniteSets

CONSTANTS
    Channels, Devices, Tags, Addresses, Values,
    Key,       \* the connection key of a channel
    Poll,      \* the channels with update mode "poll"
    ChannelOf, \* of a device
    DeviceOf,  \* of a tag
    TagOrder,  \* all tags in the order the store lists them, channel by channel
    Valid,     \* the addresses that are node ids
    Accesses,  \* what edits may make of the access of a tag: "ro", "rw"
    Wide,      \* the tags of a 64-bit integer type
    Initial,   \* the configurations to start with: [devices, tags]
    MaxEdits, MaxEvents, MaxInbox, \* bounds: edits, lost connections and changes of the server's values together, messages
    Absent, Unbuilt \* no row; a cache not built yet

Groups == {Key[c] : c \in Channels}
DeviceRows == {"enabled", "disabled", Absent}
TagRows == [address : Addresses, access : Accesses] \union {Absent}

ASSUME StructureAssumption ==
    /\ Poll \subseteq Channels /\ Valid \subseteq Addresses /\ Wide \subseteq Tags
    /\ ChannelOf \in [Devices -> Channels] /\ DeviceOf \in [Tags -> Devices]
    /\ Accesses \subseteq {"ro", "rw"}
    /\ TagOrder \in Seq(Tags) /\ ToSet(TagOrder) = Tags /\ Len(TagOrder) = Cardinality(Tags)

\* What the store lists has its parents.
ASSUME InitialAssumption ==
    \A conf \in Initial :
        /\ conf.devices \in [Devices -> DeviceRows] /\ conf.tags \in [Tags -> TagRows]
        /\ \A t \in Tags : conf.tags[t] # Absent => conf.devices[DeviceOf[t]] # Absent

VARIABLES
    devices, tags, \* the configuration
    shown,     \* what the engine holds of a tag: value and quality
    subs,      \* the channels with an odi-opcua-sub node
    outs,      \* the channels with an odi-opcua-out node
    stale,     \* a redeploy is scheduled
    byAddress, \* of the in-bridge of a group: address -> tag, or Unbuilt
    deviceIds, \* of the in-bridge of a group: the devices, or Unbuilt
    byTagId,   \* of the out-bridge of a channel: writable tag -> address, or Unbuilt
    waiting,   \* the sub nodes whose two seconds are not over
    items,     \* what a channel's sub node has had the client subscribe to or list
    due,       \* the items of a channel the server has a value to send for
    link,      \* the connection of a group: "up" or "down"
    inbox,     \* messages to the in-bridge of a group
    field,     \* the value at an address of the OPC UA server
    sent,      \* the last write message since an edit: [tag, address], or Absent
    edits, losses, changes

configVars == <<devices, tags>>
nodeVars == <<subs, outs, waiting>>
cacheVars == <<byAddress, deviceIds, byTagId>>
clientVars == <<items, due, link, inbox>>
vars == <<configVars, shown, nodeVars, stale, cacheVars, clientVars, field, sent, edits, losses, changes>>

ChannelOfTag(t) == ChannelOf[DeviceOf[t]]
TagsIn(cs) == {t \in Tags : tags[t] # Absent /\ ChannelOfTag(t) \in cs}

DevicesIn(cs) == {d \in Devices : devices[d] # Absent /\ ChannelOf[d] \in cs}

EnabledTags(cs) == {t \in TagsIn(cs) : devices[DeviceOf[t]] = "enabled"}
GroupOf(g) == {c \in subs : Key[c] = g}

\* generateFlows: the channels that get nodes, and those with an out node.
ReadChannels == {c \in Channels : \E t \in EnabledTags({c}) : tags[t].address \in Valid}

WriteChannels ==
    {c \in Channels : \E t \in EnabledTags({c}) : tags[t].address \in Valid /\ tags[t].access = "rw"}

Init ==
    /\ \E conf \in Initial : devices = conf.devices /\ tags = conf.tags
    /\ shown = [t \in Tags |-> [value |-> Absent, quality |-> "bad"]]
    /\ subs = {} /\ outs = {} /\ waiting = {}
    /\ stale = TRUE
    /\ byAddress = [g \in Groups |-> Unbuilt]
    /\ deviceIds = [g \in Groups |-> Unbuilt]
    /\ byTagId = [c \in Channels |-> Unbuilt]
    /\ items = [c \in Channels |-> {}]
    /\ due = [c \in Channels |-> {}]
    /\ link = [g \in Groups |-> "up"]
    /\ inbox = [g \in Groups |-> <<>>]
    /\ field \in [Valid -> Values]
    /\ sent = Absent
    /\ edits = 0 /\ losses = 0 /\ changes = 0

\* The redeploy replaces all nodes: bridges without caches, sub nodes with new
\* timers, clients that know no items.
Redeploy ==
    /\ stale
    /\ stale' = FALSE
    /\ subs' = ReadChannels /\ outs' = WriteChannels /\ waiting' = ReadChannels
    /\ byAddress' = [g \in Groups |-> Unbuilt]
    /\ deviceIds' = [g \in Groups |-> Unbuilt]
    /\ byTagId' = [c \in Channels |-> Unbuilt]
    /\ items' = [c \in Channels |-> {}]
    /\ due' = [c \in Channels |-> {}]
    /\ link' = [g \in Groups |-> "up"]
    /\ inbox' = [g \in Groups |-> <<>>]
    /\ UNCHANGED <<configVars, shown, field, sent, edits, losses, changes>>

\* collectTags: what the sub node of a channel asks for.
CollectTags(c) == {tags[t].address : t \in EnabledTags({c})}

\* Two seconds after the deployment the sub node sends its messages, once.
Subscribe(c) ==
    /\ c \in waiting
    /\ waiting' = waiting \ {c}
    /\ items' = [items EXCEPT ![c] = CollectTags(c)]
    /\ due' = [due EXCEPT ![c] = IF link[Key[c]] = "up" /\ c \notin Poll THEN CollectTags(c) \intersect Valid ELSE @]
    /\ UNCHANGED <<configVars, shown, subs, outs, stale, cacheVars, link, inbox, field, sent, edits, losses, changes>>

\* The poll timer has all listed items read.
PollTimer(c) ==
    /\ c \in (subs \intersect Poll) \ waiting
    /\ link[Key[c]] = "up"
    /\ due' = [due EXCEPT ![c] = items[c] \intersect Valid]
    /\ due' # due
    /\ UNCHANGED <<configVars, shown, nodeVars, stale, cacheVars, items, link, inbox, field, sent, edits, losses, changes>>

Post(g, msg) == Len(inbox[g]) < MaxInbox /\ inbox' = [inbox EXCEPT ![g] = Append(@, msg)]

\* What comes of a value v: itself or null with a good status, or a status that is
\* uncertain or bad, an error among them, with nothing the bridge would look at.
Reports(v) ==
    {[status |-> "good", value |-> v]} \union {[status |-> s, value |-> Absent] : s \in {"good", "uncertain", "bad"}}

\* The client passes a value on, or an error.
Notify(c, a) ==
    /\ a \in due[c]
    /\ \E report \in Reports(field[a]) :
          Post(Key[c], [kind |-> "value", address |-> a, value |-> report.value, status |-> report.status])
    /\ due' = [due EXCEPT ![c] = @ \ {a}]
    /\ UNCHANGED <<configVars, shown, nodeVars, stale, cacheVars, items, link, field, sent, edits, losses, changes>>

\* The server's value changes; a second notification follows one that was not good.
FieldChanges(a, v) ==
    /\ losses + changes < MaxEvents
    /\ v # field[a]
    /\ field' = [field EXCEPT ![a] = v]
    /\ changes' = changes + 1
    /\ due' = [c \in Channels |-> IF a \in items[c] /\ c \notin Poll /\ link[Key[c]] = "up" THEN due[c] \union {a} ELSE due[c]]
    /\ UNCHANGED <<configVars, shown, nodeVars, stale, cacheVars, items, link, inbox, sent, edits, losses>>

\* The connection breaks: the status node, or an endpoint error, tells the bridge.
LoseLink(g) ==
    /\ link[g] = "up" /\ losses + changes < MaxEvents /\ GroupOf(g) # {}
    /\ link' = [link EXCEPT ![g] = "down"]
    /\ losses' = losses + 1
    /\ Post(g, [kind |-> "lost"])
    /\ due' = [c \in Channels |-> IF Key[c] = g THEN {} ELSE due[c]]
    /\ UNCHANGED <<configVars, shown, nodeVars, stale, cacheVars, items, field, sent, edits, changes>>

\* The client is back.  It resubscribes by itself; its read list does not survive a
\* full reconnect.
Reconnect(g, full) ==
    /\ link[g] = "down"
    /\ link' = [link EXCEPT ![g] = "up"]
    /\ items' = [c \in Channels |-> IF full /\ Key[c] = g /\ c \in Poll THEN {} ELSE items[c]]
    /\ due' = [c \in Channels |-> IF Key[c] = g /\ c \notin Poll THEN items[c] \intersect Valid ELSE due[c]]
    /\ UNCHANGED <<configVars, shown, nodeVars, stale, cacheVars, inbox, field, sent, edits, losses, changes>>

\* addressIndex: the last of several tags with one address wins.
Places(g, a) == {i \in DOMAIN TagOrder : TagOrder[i] \in TagsIn(GroupOf(g)) /\ tags[TagOrder[i]].address = a}
AddressIndex(g) ==
    [a \in {tags[t].address : t \in TagsIn(GroupOf(g))} |-> TagOrder[Max(Places(g, a))]]

\* markGroupBad: every tag of the group's devices.
MarkGroupBad(g) ==
    LET ids == IF deviceIds[g] = Unbuilt THEN DevicesIn(GroupOf(g)) ELSE deviceIds[g]
    IN  /\ deviceIds' = [deviceIds EXCEPT ![g] = ids]
        /\ shown' = [t \in Tags |-> IF tags[t] # Absent /\ DeviceOf[t] \in ids
                                    THEN [shown[t] EXCEPT !.quality = "bad"] ELSE shown[t]]
        /\ UNCHANGED <<byAddress, byTagId>>

\* What a tag shows after a message: a null is passed over, a status keeps the value.
Updated(entry, msg) ==
    CASE msg.status # "good" -> [entry EXCEPT !.quality = msg.status]
      [] msg.status = "good" /\ msg.value # Absent -> [value |-> msg.value, quality |-> "good"]
      [] OTHER -> entry

\* A value goes to the tag of its address, if there is one.
Route(g, msg) ==
    LET idx == IF byAddress[g] = Unbuilt THEN AddressIndex(g) ELSE byAddress[g]
    IN  /\ byAddress' = [byAddress EXCEPT ![g] = idx]
        /\ IF msg.address \in DOMAIN idx /\ tags[idx[msg.address]] # Absent
           THEN shown' = [shown EXCEPT ![idx[msg.address]] = Updated(@, msg)]
           ELSE UNCHANGED shown
        /\ UNCHANGED <<deviceIds, byTagId>>

\* The in-bridge's input handler.
Input(g) ==
    /\ inbox[g] # <<>>
    /\ inbox' = [inbox EXCEPT ![g] = Tail(@)]
    /\ IF Head(inbox[g]).kind = "lost" THEN MarkGroupBad(g) ELSE Route(g, Head(inbox[g]))
    /\ UNCHANGED <<configVars, nodeVars, stale, items, due, link, field, sent, edits, losses, changes>>

TagIndex(c) == [t \in {x \in TagsIn({c}) : tags[x].access = "rw"} |-> tags[t].address]

\* The out-bridges hear every write of the engine; that of the tag's channel sends it on.
Write(t) ==
    /\ tags[t] # Absent /\ ChannelOfTag(t) \in outs
    /\ LET c == ChannelOfTag(t)
           idx == IF byTagId[c] = Unbuilt THEN TagIndex(c) ELSE byTagId[c]
       IN  /\ byTagId' = [byTagId EXCEPT ![c] = idx]
           /\ sent' = IF t \in DOMAIN idx /\ t \notin Wide THEN [tag |-> t, address |-> idx[t]] ELSE Absent
    /\ UNCHANGED <<configVars, shown, nodeVars, stale, byAddress, deviceIds, clientVars, field, edits, losses, changes>>

\* Fault: the list of devices outlives an edit.
FaultForgetDevices ==
    /\ byAddress' = [g \in Groups |-> Unbuilt]
    /\ byTagId' = [c \in Channels |-> Unbuilt]
    /\ UNCHANGED deviceIds

\* Fault: the in-bridge forgets its device ids only.
FaultForget ==
    /\ deviceIds' = [g \in Groups |-> Unbuilt]
    /\ UNCHANGED <<byAddress, byTagId>>

\* Every change event empties the caches of all bridges.
Forget ==
    /\ byAddress' = [g \in Groups |-> Unbuilt]
    /\ deviceIds' = [g \in Groups |-> Unbuilt]
    /\ byTagId' = [c \in Channels |-> Unbuilt]

\* An edit: the engine follows at once, the flows with the redeploy.
Edit(ds, ts) ==
    /\ edits < MaxEdits /\ <<ds, ts>> # configVars
    /\ edits' = edits + 1
    /\ devices' = ds /\ tags' = ts
    /\ shown' = [t \in Tags |-> IF tags[t] = Absent \/ ts[t] = Absent
                                THEN [value |-> Absent, quality |-> "bad"] ELSE shown[t]]
    /\ stale' = TRUE
    /\ Forget
    /\ sent' = Absent
    /\ UNCHANGED <<nodeVars, clientVars, field, losses, changes>>

SaveTag(t, row) == row # Absent /\ devices[DeviceOf[t]] # Absent /\ Edit(devices, [tags EXCEPT ![t] = row])
DeleteTag(t) == Edit(devices, [tags EXCEPT ![t] = Absent])
SaveDevice(d, row) == row # Absent /\ Edit([devices EXCEPT ![d] = row], tags)
DeleteDevice(d) ==
    Edit([devices EXCEPT ![d] = Absent], [t \in Tags |-> IF DeviceOf[t] = d THEN Absent ELSE tags[t]])

Deliver ==
    \/ Redeploy
    \/ \E c \in Channels : Subscribe(c) \/ PollTimer(c) \/ \E a \in Valid : Notify(c, a)
    \/ \E g \in Groups : Input(g) \/ \E full \in BOOLEAN : Reconnect(g, full)

Next ==
    \/ Deliver
    \/ \E a \in Valid, v \in Values : FieldChanges(a, v)
    \/ \E g \in Groups : LoseLink(g)
    \/ \E t \in Tags : Write(t) \/ DeleteTag(t) \/ \E row \in TagRows : SaveTag(t, row)
    \/ \E d \in Devices : DeleteDevice(d) \/ \E row \in DeviceRows : SaveDevice(d, row)

Spec == Init /\ [][Next]_vars

-----------------------------------------------------------------------------
\* The types of the variables; bridges belong to channels with nodes.
BridgeTypeOK ==
    /\ devices \in [Devices -> DeviceRows] /\ tags \in [Tags -> TagRows]
    /\ \A t \in Tags : tags[t] # Absent => devices[DeviceOf[t]] # Absent
    /\ shown \in [Tags -> [value : Values \union {Absent}, quality : {"good", "uncertain", "bad"}]]
    /\ outs \subseteq subs /\ waiting \subseteq subs
    /\ \A c \in Channels : due[c] \subseteq items[c]
    /\ \A g \in Groups : inbox[g] # <<>> => GroupOf(g) # {}

\* A value or a status changes only tags that have its address in the saved
\* configuration, whatever was edited while it was on its way or before the redeploy.
RoutedToOwner ==
    [][\A g \in Groups : Input(g) /\ Head(inbox[g]).kind = "value" =>
          \A t \in Tags : shown'[t] # shown[t] => tags[t].address = Head(inbox[g]).address]_vars

\* A lost connection makes every tag of the group bad and touches no other, also when
\* the bridge has listed its devices at an earlier loss and devices, tags, or the state
\* of a device were edited since (odi-opcua-in.js:85-105).
LossReachesAll ==
    [][\A g \in Groups : Input(g) /\ Head(inbox[g]).kind = "lost" =>
          \A t \in Tags : IF t \in TagsIn(GroupOf(g)) THEN shown'[t].quality = "bad"
                                                     ELSE shown'[t] = shown[t]]_vars

\* A write goes to the address the tag has in the saved configuration, and only for a
\* tag that is writable there.
WritesFollowConfig ==
    [][\A t \in Tags : Write(t) /\ sent' # Absent =>
          tags[t].access = "rw" /\ sent'.address = tags[t].address]_vars

\* A bridge that has a cache has that of the saved configuration: every edit empties
\* the caches before the next message or write is handled.
CachesAreFresh ==
    /\ \A g \in Groups : /\ byAddress[g] \in {Unbuilt, AddressIndex(g)}
                         /\ deviceIds[g] \in {Unbuilt, DevicesIn(GroupOf(g))}
    /\ \A c \in Channels : byTagId[c] \in {Unbuilt, TagIndex(c)}

=============================================================================
