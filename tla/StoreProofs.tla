---------------------------- MODULE StoreProofs ----------------------------
(***************************************************************************)
(* The configuration store and the console's dialogs over it, for any      *)
(* number of entities: no upsert, merge, cascade or crash leaves an orphan *)
(* that the import of a whole project did not; what the preview of an      *)
(* import says; and what an undo brings back.  Below them the exchange of  *)
(* tags: which ids an import of any length gives its rows (Transfer), and  *)
(* that reading inverts writing for CSV tables of any size (Csv).          *)
(***************************************************************************)
EXTENDS ConfigStore, ImportDialog, ProjectDialogs, Transfer, Csv, Integers, FiniteSetTheorems,
        SequenceTheorems, WellFoundedInduction, TLAPS

-----------------------------------------------------------------------------
(* Induction over data, from the least of a set of natural numbers. *)

\* The order that natural numbers are well-founded in, as a set of pairs.
Below == {p \in Nat \X Nat : p[1] < p[2]}

LEMMA BelowIsWellFounded == IsWellFoundedOn(Below, Nat)
BY NatLessThanWellFounded, Zenon DEF OpToRel, Below

\* Of some natural numbers there is a least one.
LEMMA LeastNumber ==
    ASSUME NEW S \in SUBSET Nat, S # {}
    PROVE  \E n \in S : \A m \in S : n <= m
<1>1. PICK n \in S : \A m \in S : ~ (<<m, n>> \in Below)
  BY BelowIsWellFounded, WFMin
<1>2. \A m \in S : m \in Nat /\ n \in Nat /\ ~ (m < n)
  BY <1>1 DEF Below
<1> QED
  BY <1>2

\* Induction over the natural numbers, of a set instead of a predicate.
LEMMA SetInduction ==
    ASSUME NEW S, 0 \in S, \A n \in Nat : n \in S => n + 1 \in S
    PROVE  Nat \subseteq S
<1> DEFINE R == Nat \ S
<1>1. SUFFICES ASSUME R # {} PROVE FALSE
  OBVIOUS
<1>2. PICK n \in R : \A m \in R : n <= m
  BY <1>1, LeastNumber
<1>3. n \in Nat /\ n # 0 /\ n - 1 \in Nat /\ ~ (n <= n - 1)
  OBVIOUS
<1>4. n - 1 \in S /\ n - 1 + 1 = n
  BY <1>2, <1>3
<1> QED
  BY <1>3, <1>4

\* Induction over an interval.
LEMMA IntervalInduction ==
    ASSUME NEW S, NEW n \in Nat, 0 \in S, \A i \in 1 .. n : i - 1 \in S => i \in S
    PROVE  0 .. n \subseteq S
<1> DEFINE R == {i \in Nat : i <= n => i \in S}
<1>1. 0 \in R
  OBVIOUS
<1>2. ASSUME NEW i \in Nat, i \in R PROVE i + 1 \in R
  <2>1. i + 1 <= n => i + 1 \in 1 .. n /\ i + 1 - 1 \in S
    BY <1>2
  <2> QED
    BY <2>1
<1>3. Nat \subseteq R
  <2> HIDE DEF R
  <2> QED
    BY <1>1, <1>2, SetInduction
<1> QED
  BY <1>3

\* The n steps F from c, and all that they pass.
Steps(n, T) == [1 .. n -> [T -> T]]
Paths(F, c, n, T) == {f \in [0 .. n -> T] : f[0] = c /\ \A i \in 1 .. n : f[i] = F[i][f[i - 1]]}

\* A function on 0 .. n may be defined by recursion.
LEMMA Recursion ==
    ASSUME NEW T, NEW c \in T, NEW n \in Nat, NEW F \in Steps(n, T)
    PROVE  Paths(F, c, n, T) # {}
<1> DEFINE Follows(f, m) == f[0] = c /\ \A i \in 1 .. m : f[i] = F[i][f[i - 1]]
           S == {m \in Nat : m <= n => \E f \in [0 .. m -> T] : Follows(f, m)}
<1>1. 0 \in S
  <2>1. [i \in 0 .. 0 |-> c] \in [0 .. 0 -> T] /\ Follows([i \in 0 .. 0 |-> c], 0)
    OBVIOUS
  <2> QED
    BY <2>1
<1>2. ASSUME NEW m \in Nat, m \in S PROVE m + 1 \in S
  <2>1. SUFFICES ASSUME m + 1 <= n PROVE \E f \in [0 .. m + 1 -> T] : Follows(f, m + 1)
    OBVIOUS
  <2>2. PICK f \in [0 .. m -> T] : Follows(f, m)
    BY <1>2, <2>1
  <2> DEFINE h == [i \in 0 .. m + 1 |-> IF i = m + 1 THEN F[m + 1][f[m]] ELSE f[i]]
  <2>3. f[m] \in T /\ m + 1 \in 1 .. n
    BY <2>1
  <2>4. F[m + 1][f[m]] \in T
    BY <2>3 DEF Steps
  <2>5. h \in [0 .. m + 1 -> T]
    BY <2>4
  <2>6. h[0] = c
    BY <2>2
  <2>7. ASSUME NEW i \in 1 .. m + 1 PROVE h[i] = F[i][h[i - 1]]
    <3>1. CASE i = m + 1
      BY <3>1
    <3>2. CASE i # m + 1
      <4>1. i \in 1 .. m /\ i - 1 \in 0 .. m /\ i - 1 # m + 1
        BY <3>2
      <4> QED
        BY <4>1, <2>2, <3>2
    <3> QED
      BY <3>1, <3>2
  <2> QED
    BY <2>5, <2>6, <2>7
<1>3. n \in S
  <2> HIDE DEF S
  <2> QED
    BY <1>1, <1>2, SetInduction
<1> QED
  BY <1>3 DEF Paths

\* Of some places in a list there is a last one.
LEMMA LastPlace ==
    ASSUME NEW n \in Nat, NEW P \in SUBSET (1 .. n), P # {}
    PROVE  Max(P) \in P /\ \A j \in P : j <= Max(P)
<1> DEFINE D == {n - j : j \in P}
<1>1. D \in SUBSET Nat /\ D # {}
  <2>1. \A j \in P : n - j \in Nat
    OBVIOUS
  <2> QED
    BY <2>1
<1>2. PICK d \in D : \A e \in D : ~ (<<e, d>> \in Below)
  BY <1>1, BelowIsWellFounded, WFMin
<1>3. PICK i \in P : d = n - i
  OBVIOUS
<1>4. ASSUME NEW j \in P PROVE i >= j
  <2>1. n - j \in D
    OBVIOUS
  <2>2. n - j \in Nat /\ d \in Nat /\ i \in Nat /\ j \in Nat
    BY <1>1, <1>3, <2>1
  <2>3. ~ (n - j < d)
    BY <1>2, <2>1, <2>2 DEF Below
  <2> QED
    BY <1>3, <2>2, <2>3
<1> QED
  BY <1>4 DEF Max

-----------------------------------------------------------------------------
(* ConfigStore. *)

\* A step after which nothing is an orphan that was none before.
NoNewOrphans ==
    /\ OrphanDevices(db') \subseteq OrphanDevices(db)
    /\ OrphanTags(db') \subseteq OrphanTags(db)

\* The rows of a database one by one.
LEMMA DatabaseType ==
    ASSUME NEW d \in Databases
    PROVE  /\ d.channels \in [Channels -> ChannelRows]
           /\ d.devices \in [Devices -> DeviceRows]
           /\ d.tags \in [Tags -> TagRows]
           /\ d.agents \in [Agents -> AgentRows]
           /\ \A x \in Devices : d.devices[x] # NoRow => d.devices[x].channel \in Channels
           /\ \A t \in Tags : d.tags[t] # NoRow => d.tags[t].device \in Devices
  BY DEF Databases, DeviceRows, TagRows

\* Writing one row.
LEMMA WriteChannel ==
    ASSUME NEW d \in Databases, NEW c \in Channels, NEW r \in ChannelRows
    PROVE  /\ [d EXCEPT !.channels[c] = r] \in Databases
           /\ [d EXCEPT !.channels[c] = r].channels = [d.channels EXCEPT ![c] = r]
           /\ [d EXCEPT !.channels[c] = r].devices = d.devices
           /\ [d EXCEPT !.channels[c] = r].tags = d.tags
           /\ [d EXCEPT !.channels[c] = r].agents = d.agents
<1>1. [d.channels EXCEPT ![c] = r] \in [Channels -> ChannelRows]
  BY DatabaseType
<1> QED BY <1>1 DEF Databases

LEMMA WriteDevice ==
    ASSUME NEW d \in Databases, NEW x \in Devices, NEW r \in DeviceRows
    PROVE  /\ [d EXCEPT !.devices[x] = r] \in Databases
           /\ [d EXCEPT !.devices[x] = r].devices = [d.devices EXCEPT ![x] = r]
           /\ [d EXCEPT !.devices[x] = r].channels = d.channels
           /\ [d EXCEPT !.devices[x] = r].tags = d.tags
           /\ [d EXCEPT !.devices[x] = r].agents = d.agents
<1>1. [d.devices EXCEPT ![x] = r] \in [Devices -> DeviceRows]
  BY DatabaseType
<1> QED BY <1>1 DEF Databases

LEMMA WriteTag ==
    ASSUME NEW d \in Databases, NEW t \in Tags, NEW r \in TagRows
    PROVE  /\ [d EXCEPT !.tags[t] = r] \in Databases
           /\ [d EXCEPT !.tags[t] = r].tags = [d.tags EXCEPT ![t] = r]
           /\ [d EXCEPT !.tags[t] = r].channels = d.channels
           /\ [d EXCEPT !.tags[t] = r].devices = d.devices
           /\ [d EXCEPT !.tags[t] = r].agents = d.agents
<1>1. [d.tags EXCEPT ![t] = r] \in [Tags -> TagRows]
  BY DatabaseType
<1> QED BY <1>1 DEF Databases

LEMMA WriteAgent ==
    ASSUME NEW d \in Databases, NEW a \in Agents, NEW r \in AgentRows
    PROVE  /\ [d EXCEPT !.agents[a] = r] \in Databases
           /\ [d EXCEPT !.agents[a] = r].channels = d.channels
           /\ [d EXCEPT !.agents[a] = r].devices = d.devices
           /\ [d EXCEPT !.agents[a] = r].tags = d.tags
<1>1. [d.agents EXCEPT ![a] = r] \in [Agents -> AgentRows]
  BY DatabaseType
<1> QED BY <1>1 DEF Databases

\* A step of an idle store that commits rows keeps the invariant.
LEMMA IdleCommit ==
    ASSUME StoreInv, call = NoCall, UNCHANGED call, db' \in Databases
    PROVE  StoreInv'
  BY NoneAssumption DEF StoreInv, TypeOK, CascadeCoversChildren, NoCall

\* Upserts check the parent.
LEMMA UpsertInv ==
    ASSUME StoreInv,
           \/ \E c \in Channels, data \in ChannelData : UpsertChannel(c, data)
           \/ \E x \in Devices, r \in DeviceRows \ {NoRow} : UpsertDevice(x, r)
           \/ \E t \in Tags, r \in TagRows \ {NoRow} : UpsertTag(t, r)
           \/ \E a \in Agents, data \in AgentData : UpsertMqttAgent(a, data)
    PROVE  StoreInv' /\ NoNewOrphans
<1> USE RowAssumption
<1>1. db \in Databases
  BY DEF StoreInv, TypeOK
<1>2. ASSUME NEW c \in Channels, NEW data \in ChannelData, UpsertChannel(c, data)
      PROVE  StoreInv' /\ NoNewOrphans
  <2>1. data \in ChannelRows /\ data # NoRow
    BY DEF ChannelRows
  <2>2. db' \in Databases /\ NoNewOrphans
    BY <1>1, <1>2, <2>1, WriteChannel, DatabaseType
       DEF UpsertChannel, NoNewOrphans, OrphanDevices, OrphanTags
  <2> QED BY <1>2, <2>2, IdleCommit DEF UpsertChannel
<1>3. ASSUME NEW x \in Devices, NEW r \in DeviceRows \ {NoRow}, UpsertDevice(x, r)
      PROVE  StoreInv' /\ NoNewOrphans
  <2>1. db' \in Databases /\ NoNewOrphans
    BY <1>1, <1>3, WriteDevice, DatabaseType
       DEF UpsertDevice, NoNewOrphans, OrphanDevices, OrphanTags
  <2> QED BY <1>3, <2>1, IdleCommit DEF UpsertDevice
<1>4. ASSUME NEW t \in Tags, NEW r \in TagRows \ {NoRow}, UpsertTag(t, r)
      PROVE  StoreInv' /\ NoNewOrphans
  <2>1. db' \in Databases /\ NoNewOrphans
    BY <1>1, <1>4, WriteTag, DatabaseType
       DEF UpsertTag, NoNewOrphans, OrphanDevices, OrphanTags
  <2> QED BY <1>4, <2>1, IdleCommit DEF UpsertTag
<1>5. ASSUME NEW a \in Agents, NEW data \in AgentData, UpsertMqttAgent(a, data)
      PROVE  StoreInv' /\ NoNewOrphans
  <2>1. data \in AgentRows
    BY DEF AgentRows
  <2>2. db' \in Databases /\ NoNewOrphans
    BY <1>1, <1>5, <2>1, WriteAgent
       DEF UpsertMqttAgent, NoNewOrphans, OrphanDevices, OrphanTags
  <2> QED BY <1>5, <2>2, IdleCommit DEF UpsertMqttAgent
<1> QED
  BY <1>2, <1>3, <1>4, <1>5

\* Removing a leaf, or starting a removal.
LEMMA RemoveInv ==
    ASSUME StoreInv,
           \/ \E t \in Tags : RemoveTag(t)
           \/ \E a \in Agents : RemoveMqttAgent(a)
           \/ \E x \in Devices : RemoveDevice(x)
           \/ \E c \in Channels : RemoveChannel(c)
    PROVE  StoreInv' /\ NoNewOrphans
<1>1. db \in Databases
  BY DEF StoreInv, TypeOK
<1>2. ASSUME NEW t \in Tags, RemoveTag(t)
      PROVE  StoreInv' /\ NoNewOrphans
  <2>1. db' \in Databases /\ NoNewOrphans
    <3>1. /\ db' \in Databases
          /\ db'.tags = [db.tags EXCEPT ![t] = NoRow]
          /\ db'.channels = db.channels /\ db'.devices = db.devices
      BY <1>1, <1>2, WriteTag DEF RemoveTag, DeleteTagRow, TagRows
    <3> QED BY <1>1, <3>1, DatabaseType DEF NoNewOrphans, OrphanDevices, OrphanTags
  <2> QED BY <1>2, <2>1, IdleCommit DEF RemoveTag
<1>3. ASSUME NEW a \in Agents, RemoveMqttAgent(a)
      PROVE  StoreInv' /\ NoNewOrphans
  <2>1. db' \in Databases /\ NoNewOrphans
    BY <1>1, <1>3, WriteAgent DEF RemoveMqttAgent, AgentRows, NoNewOrphans, OrphanDevices, OrphanTags
  <2> QED BY <1>3, <2>1, IdleCommit DEF RemoveMqttAgent
<1>4. ASSUME NEW x \in Devices, RemoveDevice(x)
      PROVE  StoreInv' /\ NoNewOrphans
  <2>1. /\ db' = db /\ call = NoCall
        /\ call' = [channel |-> None, devices |-> {}, device |-> x, tags |-> TagsOf(db, x)]
    BY <1>4 DEF RemoveDevice, NoCall
  <2>2. call' \in Calls
    BY <2>1 DEF Calls, TagsOf
  <2>3. NoNewOrphans
    BY <2>1 DEF NoNewOrphans, OrphanDevices, OrphanTags
  <2>4. StoreInv'
    BY <1>1, <2>1, <2>2, NoneAssumption DEF StoreInv, TypeOK, CascadeCoversChildren
  <2> QED
    BY <2>3, <2>4
<1>5. ASSUME NEW c \in Channels, RemoveChannel(c)
      PROVE  StoreInv' /\ NoNewOrphans
  <2>1. /\ db' = db /\ call = NoCall
        /\ call' = [channel |-> c, devices |-> DevicesOf(db, c), device |-> None, tags |-> {}]
    BY <1>5 DEF RemoveChannel, NoCall
  <2>2. call' \in Calls
    BY <2>1 DEF Calls, DevicesOf
  <2>3. NoNewOrphans
    BY <2>1 DEF NoNewOrphans, OrphanDevices, OrphanTags
  <2>4. StoreInv'
    BY <1>1, <2>1, <2>2, NoneAssumption DEF StoreInv, TypeOK, CascadeCoversChildren
  <2> QED
    BY <2>3, <2>4
<1> QED
  BY <1>2, <1>3, <1>4, <1>5

\* Every turn of a cascade deletes a row that has no children left.
LEMMA CascadeInv ==
    ASSUME StoreInv, Cascade
    PROVE  StoreInv' /\ NoNewOrphans
<1>1. /\ db \in Databases /\ call \in Calls
      /\ CascadeCoversChildren
  BY DEF StoreInv, TypeOK
<1>2. ASSUME NEW x \in Devices, CascadeDevice(x)
      PROVE  StoreInv' /\ NoNewOrphans
  <2>1. /\ db' = db /\ call.device = None /\ x \in call.devices
        /\ call' = [channel |-> call.channel, devices |-> call.devices \ {x},
                    device |-> x, tags |-> TagsOf(db, x)]
    BY <1>1, <1>2 DEF CascadeDevice, Calls
  <2>2. call' \in Calls
    BY <1>1, <2>1 DEF Calls, TagsOf
  <2>3. CascadeCoversChildren'
    <3>1. call.channel # None /\ x # None
      BY <1>1, <2>1, NoneAssumption DEF CascadeCoversChildren
    <3>2. DevicesOf(db, call.channel) \subseteq call.devices
      BY <1>1, <2>1, <3>1, NoneAssumption DEF CascadeCoversChildren, DevicesOf
    <3>3. DevicesOf(db', call'.channel) \subseteq call'.devices \cup {call'.device}
      BY <2>1, <3>2
    <3>4. TagsOf(db', call'.device) \subseteq call'.tags
      BY <2>1
    <3> QED BY <2>1, <3>1, <3>3, <3>4 DEF CascadeCoversChildren
  <2> QED
    BY <1>1, <2>1, <2>2, <2>3 DEF StoreInv, TypeOK, NoNewOrphans, OrphanDevices, OrphanTags
<1>3. ASSUME NEW t \in Tags, CascadeTag(t)
      PROVE  StoreInv' /\ NoNewOrphans
  <2>1. /\ db' = [db EXCEPT !.tags[t] = NoRow]
        /\ call' = [channel |-> call.channel, devices |-> call.devices,
                    device |-> call.device, tags |-> call.tags \ {t}]
        /\ t \in call.tags
    BY <1>1, <1>3 DEF CascadeTag, DeleteTagRow, Calls
  <2>2. /\ db' \in Databases
        /\ db'.tags = [db.tags EXCEPT ![t] = NoRow]
        /\ db'.channels = db.channels /\ db'.devices = db.devices
    BY <1>1, <2>1, WriteTag DEF TagRows
  <2>3. NoNewOrphans
    BY <1>1, <2>2, DatabaseType DEF NoNewOrphans, OrphanDevices, OrphanTags
  <2>4. call' \in Calls
    BY <1>1, <2>1 DEF Calls
  <2>5. CascadeCoversChildren'
    <3>1. TagsOf(db', call.device) = TagsOf(db, call.device) \ {t}
      BY <1>1, <2>2, DatabaseType DEF TagsOf
    <3>2. DevicesOf(db', call.channel) = DevicesOf(db, call.channel)
      BY <2>2 DEF DevicesOf
    <3>3. call.device # None
      BY <1>1, <2>1 DEF CascadeCoversChildren
    <3> QED BY <1>1, <2>1, <3>1, <3>2, <3>3 DEF CascadeCoversChildren
  <2> QED
    BY <2>2, <2>3, <2>4, <2>5 DEF StoreInv, TypeOK
<1>4. CASE DeleteDeviceRow
  <2>1. /\ db' = [db EXCEPT !.devices[call.device] = NoRow]
        /\ call' = [channel |-> call.channel, devices |-> call.devices,
                    device |-> None, tags |-> {}]
        /\ call.device \in Devices /\ call.tags = {}
    BY <1>1, <1>4 DEF DeleteDeviceRow, Calls
  <2>2. /\ db' \in Databases
        /\ db'.devices = [db.devices EXCEPT ![call.device] = NoRow]
        /\ db'.channels = db.channels /\ db'.tags = db.tags
    BY <1>1, <2>1, WriteDevice DEF DeviceRows
  <2>3. TagsOf(db, call.device) = {}
    BY <1>1, <2>1, NoneAssumption DEF CascadeCoversChildren
  <2>4. NoNewOrphans
    BY <1>1, <2>1, <2>2, <2>3, DatabaseType DEF NoNewOrphans, OrphanDevices, OrphanTags, TagsOf
  <2>5. call' \in Calls
    BY <1>1, <2>1 DEF Calls
  <2>6. CascadeCoversChildren'
    <3>1. DevicesOf(db', call.channel) = DevicesOf(db, call.channel) \ {call.device}
      BY <1>1, <2>1, <2>2, DatabaseType DEF DevicesOf
    <3> QED BY <1>1, <2>1, <3>1 DEF CascadeCoversChildren
  <2> QED
    BY <2>2, <2>4, <2>5, <2>6 DEF StoreInv, TypeOK
<1>5. CASE DeleteChannelRow
  <2>1. /\ db' = [db EXCEPT !.channels[call.channel] = NoRow]
        /\ call' = NoCall
        /\ call.channel \in Channels /\ call.device = None /\ call.devices = {}
    BY <1>1, <1>5 DEF DeleteChannelRow, Calls
  <2>2. /\ db' \in Databases
        /\ db'.channels = [db.channels EXCEPT ![call.channel] = NoRow]
        /\ db'.devices = db.devices /\ db'.tags = db.tags
    BY <1>1, <2>1, WriteChannel DEF ChannelRows
  <2>3. DevicesOf(db, call.channel) \subseteq {None}
    BY <1>1, <2>1, NoneAssumption DEF CascadeCoversChildren
  <2>4. DevicesOf(db, call.channel) = {}
    BY <2>3, NoneAssumption DEF DevicesOf
  <2>5. NoNewOrphans
    BY <1>1, <2>1, <2>2, <2>4, DatabaseType DEF NoNewOrphans, OrphanDevices, OrphanTags, DevicesOf
  <2> QED
    BY <2>1, <2>2, <2>5, NoneAssumption
       DEF StoreInv, TypeOK, CascadeCoversChildren, NoCall, Calls
<1> QED
  BY <1>2, <1>3, <1>4, <1>5 DEF Cascade

\* Whole projects: the replacement is not checked, the merge is.
LEMMA ReplaceInv == ASSUME StoreInv, NEW p \in Projects, ReplaceProject(p) PROVE StoreInv'
BY IdleCommit, ProjectAssumption DEF ReplaceProject

LEMMA MergeInv ==
    ASSUME StoreInv, NEW p \in Additions, MergeProject(p)
    PROVE  StoreInv' /\ NoNewOrphans
<1>1. db \in Databases /\ p \in Databases
  BY ProjectAssumption DEF StoreInv, TypeOK
<1>2. db' = Overlay(db, p)
  BY DEF MergeProject
<1>3. db' \in Databases
  <2>1. /\ db.channels \in [Channels -> ChannelRows] /\ p.channels \in [Channels -> ChannelRows]
        /\ db.devices \in [Devices -> DeviceRows] /\ p.devices \in [Devices -> DeviceRows]
        /\ db.tags \in [Tags -> TagRows] /\ p.tags \in [Tags -> TagRows]
        /\ db.agents \in [Agents -> AgentRows] /\ p.agents \in [Agents -> AgentRows]
    BY <1>1, DatabaseType
  <2> QED BY <1>2, <2>1 DEF Overlay, Databases
<1>4. /\ \A c \in Channels : db'.channels[c] =
            IF p.channels[c] = NoRow THEN db.channels[c] ELSE p.channels[c]
      /\ \A x \in Devices : db'.devices[x] =
            IF p.devices[x] = NoRow THEN db.devices[x] ELSE p.devices[x]
      /\ \A t \in Tags : db'.tags[t] =
            IF p.tags[t] = NoRow THEN db.tags[t] ELSE p.tags[t]
  BY <1>2 DEF Overlay
<1>5. /\ \A x \in Devices : p.devices[x] # NoRow => db'.channels[p.devices[x].channel] # NoRow
      /\ \A t \in Tags : p.tags[t] # NoRow => db'.devices[p.tags[t].device] # NoRow
  BY <1>2 DEF MergeProject
<1>6. ASSUME NEW x \in OrphanDevices(db') PROVE x \in OrphanDevices(db)
  <2>1. x \in Devices /\ db'.devices[x] # NoRow /\ db'.channels[db'.devices[x].channel] = NoRow
    BY DEF OrphanDevices
  <2>2. p.devices[x] = NoRow /\ db'.devices[x] = db.devices[x]
    BY <1>4, <1>5, <2>1
  <2>3. db.devices[x].channel \in Channels
    BY <1>1, <2>1, <2>2, DatabaseType
  <2>4. db.channels[db.devices[x].channel] = NoRow
    BY <1>4, <2>1, <2>2, <2>3
  <2> QED BY <2>1, <2>2, <2>4 DEF OrphanDevices
<1>7. ASSUME NEW t \in OrphanTags(db') PROVE t \in OrphanTags(db)
  <2>1. t \in Tags /\ db'.tags[t] # NoRow /\ db'.devices[db'.tags[t].device] = NoRow
    BY DEF OrphanTags
  <2>2. p.tags[t] = NoRow /\ db'.tags[t] = db.tags[t]
    BY <1>4, <1>5, <2>1
  <2>3. db.tags[t].device \in Devices
    BY <1>1, <2>1, <2>2, DatabaseType
  <2>4. db.devices[db.tags[t].device] = NoRow
    BY <1>4, <2>1, <2>2, <2>3
  <2> QED BY <2>1, <2>2, <2>4 DEF OrphanTags
<1> QED
  BY <1>3, <1>6, <1>7, IdleCommit DEF MergeProject, NoNewOrphans

LEMMA InitInv == StoreInit => StoreInv
<1> SUFFICES ASSUME StoreInit PROVE StoreInv
  OBVIOUS
<1>1. db \in Databases
  BY DEF StoreInit, Empty, Databases, ChannelRows, DeviceRows, TagRows, AgentRows
<1> QED
  BY <1>1, NoneAssumption DEF StoreInit, StoreInv, TypeOK, CascadeCoversChildren, NoCall, Calls

\* Every step keeps the invariant, and all but a replacement leave no new orphans.
LEMMA StepInv ==
    ASSUME StoreInv, [StoreNext]_storeVars
    PROVE  StoreInv' /\ ((\A p \in Projects : ~ReplaceProject(p)) => NoNewOrphans)
<1>1. CASE Edit
  <2>1. CASE \E p \in Projects : ReplaceProject(p)
    BY <2>1, ReplaceInv
  <2>2. CASE \E p \in Additions : MergeProject(p)
    BY <2>2, MergeInv
  <2> QED
    BY <1>1, <2>1, <2>2, UpsertInv, RemoveInv DEF Edit
<1>2. CASE Cascade
  BY <1>2, CascadeInv
<1>3. CASE Crash
  BY <1>3, NoneAssumption DEF Crash, StoreInv, TypeOK, CascadeCoversChildren, NoCall, Calls,
       NoNewOrphans, OrphanDevices, OrphanTags
<1>4. CASE UNCHANGED storeVars
  BY <1>4 DEF storeVars, StoreInv, TypeOK, CascadeCoversChildren, NoNewOrphans, OrphanDevices, OrphanTags
<1> QED
  BY <1>1, <1>2, <1>3, <1>4 DEF StoreNext

LEMMA NextInv == StoreInv /\ [StoreNext]_storeVars => StoreInv'
BY StepInv

\* The rows and the cascade in progress keep their shape, whatever projects are
\* imported (store.ts:48-70).
THEOREM StoreTypeCorrect == StoreSpec => []TypeOK
<1>1. StoreInv => TypeOK
  BY DEF StoreInv
<1> QED
  BY <1>1, NextInv, InitInv, PTL DEF StoreSpec

\* No step but a replacement of the whole project leaves an orphan that was none
\* before, not in the middle of a cascade nor in a crash there, and not over the
\* orphans a replacement has left (store.ts:98-298).
THEOREM NoOrphans == StoreSpec => OrphansOnlyImported
<1>1. StoreInv /\ [StoreNext]_storeVars =>
        [(\A p \in Projects : ~ReplaceProject(p)) =>
           /\ OrphanDevices(db') \subseteq OrphanDevices(db)
           /\ OrphanTags(db') \subseteq OrphanTags(db)]_storeVars
  BY StepInv DEF NoNewOrphans
<1> QED
  BY <1>1, NextInv, InitInv, PTL DEF StoreSpec, OrphansOnlyImported


-----------------------------------------------------------------------------
(* What a removal touches. *)

\* The lists a cascade works through name rows of the subtree only, or rows that
\* are gone.
CascadeInSubtree ==
    /\ call.device = None => call.tags = {}
    /\ \A t \in call.tags : db.tags[t] # NoRow => db.tags[t].device = call.device
    /\ call.channel # None =>
         /\ \A x \in call.devices :
              db.devices[x] # NoRow => db.devices[x].channel = call.channel
         /\ call.device # None /\ db.devices[call.device] # NoRow =>
              db.devices[call.device].channel = call.channel
    /\ call.channel = None => call.devices = {}

SubtreeInv == TypeOK /\ CascadeInSubtree

\* Edits that are no removals of a subtree find the store idle and leave it so.
LEMMA EditKeepsSubtree ==
    ASSUME SubtreeInv, Edit
    PROVE  SubtreeInv'
<1> USE RowAssumption DEF SubtreeInv, TypeOK
<1>1. ASSUME call = NoCall, UNCHANGED call, db' \in Databases
      PROVE  SubtreeInv'
  BY <1>1, NoneAssumption DEF CascadeInSubtree, NoCall
<1>2. ASSUME NEW c \in Channels, NEW data \in ChannelData, UpsertChannel(c, data)
      PROVE  SubtreeInv'
  <2>1. data \in ChannelRows
    BY DEF ChannelRows
  <2> QED BY <1>1, <1>2, <2>1, WriteChannel DEF UpsertChannel
<1>3. ASSUME NEW x \in Devices, NEW r \in DeviceRows \ {NoRow}, UpsertDevice(x, r)
      PROVE  SubtreeInv'
  BY <1>1, <1>3, WriteDevice DEF UpsertDevice
<1>4. ASSUME NEW t \in Tags, NEW r \in TagRows \ {NoRow}, UpsertTag(t, r)
      PROVE  SubtreeInv'
  BY <1>1, <1>4, WriteTag DEF UpsertTag
<1>5. ASSUME NEW a \in Agents, NEW data \in AgentData, UpsertMqttAgent(a, data)
      PROVE  SubtreeInv'
  <2>1. data \in AgentRows
    BY DEF AgentRows
  <2> QED BY <1>1, <1>5, <2>1, WriteAgent DEF UpsertMqttAgent
<1>6. ASSUME NEW t \in Tags, RemoveTag(t)
      PROVE  SubtreeInv'
  <2>1. NoRow \in TagRows
    BY DEF TagRows
  <2> QED BY <1>1, <1>6, <2>1, WriteTag DEF RemoveTag, DeleteTagRow
<1>7. ASSUME NEW a \in Agents, RemoveMqttAgent(a)
      PROVE  SubtreeInv'
  <2>1. NoRow \in AgentRows
    BY DEF AgentRows
  <2> QED BY <1>1, <1>7, <2>1, WriteAgent DEF RemoveMqttAgent
<1>8. ASSUME NEW x \in Devices, RemoveDevice(x)
      PROVE  SubtreeInv'
  <2>1. /\ db' = db
        /\ call' = [channel |-> None, devices |-> {}, device |-> x, tags |-> TagsOf(db, x)]
    BY <1>8 DEF RemoveDevice, NoCall
  <2> QED BY <2>1, NoneAssumption DEF Calls, TagsOf, CascadeInSubtree
<1>9. ASSUME NEW c \in Channels, RemoveChannel(c)
      PROVE  SubtreeInv'
  <2>1. /\ db' = db
        /\ call' = [channel |-> c, devices |-> DevicesOf(db, c), device |-> None, tags |-> {}]
    BY <1>9 DEF RemoveChannel, NoCall
  <2> QED BY <2>1, NoneAssumption DEF Calls, DevicesOf, CascadeInSubtree
<1>10. ASSUME NEW p \in Projects, ReplaceProject(p)
       PROVE  SubtreeInv'
  BY <1>1, <1>10, ProjectAssumption DEF ReplaceProject
<1>11. ASSUME NEW p \in Additions, MergeProject(p)
       PROVE  SubtreeInv'
  <2>1. db' = Overlay(db, p) /\ p \in Databases
    BY <1>11, ProjectAssumption DEF MergeProject
  <2>2. /\ db.channels \in [Channels -> ChannelRows] /\ p.channels \in [Channels -> ChannelRows]
        /\ db.devices \in [Devices -> DeviceRows] /\ p.devices \in [Devices -> DeviceRows]
        /\ db.tags \in [Tags -> TagRows] /\ p.tags \in [Tags -> TagRows]
        /\ db.agents \in [Agents -> AgentRows] /\ p.agents \in [Agents -> AgentRows]
    BY <2>1, DatabaseType
  <2>3. db' \in Databases
    BY <2>1, <2>2 DEF Overlay, Databases
  <2> QED BY <1>1, <1>11, <2>3 DEF MergeProject
<1> QED
  BY <1>2, <1>3, <1>4, <1>5, <1>6, <1>7, <1>8, <1>9, <1>10, <1>11 DEF Edit

\* What is allowed to change while a removal is under way.
StaysInSubtree ==
    /\ db'.agents = db.agents
    /\ \A c \in Channels : db'.channels[c] # db.channels[c] => c = call.channel
    /\ \A x \in Devices : db'.devices[x] # db.devices[x] =>
         /\ x = call.device
         /\ call.channel # None => db.devices[x].channel = call.channel
    /\ \A t \in Tags : db'.tags[t] # db.tags[t] => db.tags[t].device = call.device

\* A turn of a cascade lists rows of the subtree, or deletes one.
LEMMA CascadeKeepsSubtree ==
    ASSUME SubtreeInv, Cascade
    PROVE  SubtreeInv' /\ (db' # db => StaysInSubtree)
<1>1. db \in Databases /\ call \in Calls /\ CascadeInSubtree
  BY DEF SubtreeInv, TypeOK
<1>2. ASSUME NEW x \in Devices, CascadeDevice(x)
      PROVE  SubtreeInv' /\ db' = db
  <2>1. /\ db' = db /\ call.device = None /\ x \in call.devices
        /\ call' = [channel |-> call.channel, devices |-> call.devices \ {x},
                    device |-> x, tags |-> TagsOf(db, x)]
    BY <1>1, <1>2 DEF CascadeDevice, Calls
  <2> QED
    BY <1>1, <2>1, NoneAssumption DEF SubtreeInv, TypeOK, Calls, TagsOf, CascadeInSubtree
<1>3. ASSUME NEW t \in Tags, CascadeTag(t)
      PROVE  SubtreeInv' /\ (db' # db => StaysInSubtree)
  <2>1. /\ db' = [db EXCEPT !.tags[t] = NoRow]
        /\ call' = [channel |-> call.channel, devices |-> call.devices,
                    device |-> call.device, tags |-> call.tags \ {t}]
        /\ t \in call.tags
    BY <1>1, <1>3 DEF CascadeTag, DeleteTagRow, Calls
  <2>2. /\ db' \in Databases
        /\ db'.tags = [db.tags EXCEPT ![t] = NoRow]
        /\ db'.channels = db.channels /\ db'.devices = db.devices /\ db'.agents = db.agents
    BY <1>1, <2>1, WriteTag DEF TagRows
  <2>3. call' \in Calls
    BY <1>1, <2>1 DEF Calls
  <2>4. db.tags \in [Tags -> TagRows]
    BY <1>1, DatabaseType
  <2>5. CascadeInSubtree'
    BY <1>1, <2>1, <2>2, <2>4 DEF CascadeInSubtree, Calls
  <2>6. StaysInSubtree
    BY <1>1, <2>1, <2>2, <2>4 DEF CascadeInSubtree, StaysInSubtree
  <2> QED
    BY <2>2, <2>3, <2>5, <2>6 DEF SubtreeInv, TypeOK
<1>4. CASE DeleteDeviceRow
  <2>1. /\ db' = [db EXCEPT !.devices[call.device] = NoRow]
        /\ call' = [channel |-> call.channel, devices |-> call.devices,
                    device |-> None, tags |-> {}]
        /\ call.device \in Devices /\ call.tags = {}
    BY <1>1, <1>4 DEF DeleteDeviceRow, Calls
  <2>2. /\ db' \in Databases
        /\ db'.devices = [db.devices EXCEPT ![call.device] = NoRow]
        /\ db'.channels = db.channels /\ db'.tags = db.tags /\ db'.agents = db.agents
    BY <1>1, <2>1, WriteDevice DEF DeviceRows
  <2>3. call' \in Calls
    BY <1>1, <2>1 DEF Calls
  <2>4. db.devices \in [Devices -> DeviceRows]
    BY <1>1, DatabaseType
  <2>5. CascadeInSubtree'
    BY <1>1, <2>1, <2>2, <2>4 DEF CascadeInSubtree, Calls
  <2>6. StaysInSubtree
    BY <1>1, <2>1, <2>2, <2>4, NoneAssumption DEF CascadeInSubtree, StaysInSubtree
  <2> QED
    BY <2>2, <2>3, <2>5, <2>6 DEF SubtreeInv, TypeOK
<1>5. CASE DeleteChannelRow
  <2>1. /\ db' = [db EXCEPT !.channels[call.channel] = NoRow]
        /\ call' = NoCall
        /\ call.channel \in Channels
    BY <1>1, <1>5 DEF DeleteChannelRow, Calls
  <2>2. /\ db' \in Databases
        /\ db'.channels = [db.channels EXCEPT ![call.channel] = NoRow]
        /\ db'.devices = db.devices /\ db'.tags = db.tags /\ db'.agents = db.agents
    BY <1>1, <2>1, WriteChannel DEF ChannelRows
  <2>3. SubtreeInv'
    BY <2>1, <2>2 DEF SubtreeInv, TypeOK, NoCall, Calls, CascadeInSubtree
  <2>4. db.channels \in [Channels -> ChannelRows]
    BY <1>1, DatabaseType
  <2> QED
    BY <2>1, <2>2, <2>3, <2>4 DEF StaysInSubtree
<1> QED
  BY <1>2, <1>3, <1>4, <1>5 DEF Cascade

\* A removal touches nothing outside the subtree it was asked to remove, whatever
\* crashes and imports went before it (store.ts:98-108, 142-150, 184-191).
THEOREM RemovalsStayInSubtree == StoreSpec => RemovalStaysInSubtree
<1>1. StoreInit => SubtreeInv
  <2> SUFFICES ASSUME StoreInit PROVE SubtreeInv
    OBVIOUS
  <2>1. db \in Databases
    BY DEF StoreInit, Empty, Databases, ChannelRows, DeviceRows, TagRows, AgentRows
  <2> QED
    BY <2>1 DEF StoreInit, SubtreeInv, TypeOK, NoCall, Calls, CascadeInSubtree
<1>2. SubtreeInv /\ [StoreNext]_storeVars => SubtreeInv'
  <2> SUFFICES ASSUME SubtreeInv, [StoreNext]_storeVars PROVE SubtreeInv'
    OBVIOUS
  <2>1. CASE Crash
    BY <2>1 DEF Crash, SubtreeInv, TypeOK, NoCall, Calls, CascadeInSubtree
  <2>2. CASE UNCHANGED storeVars
    BY <2>2 DEF storeVars, SubtreeInv, TypeOK, CascadeInSubtree
  <2> QED
    BY <2>1, <2>2, EditKeepsSubtree, CascadeKeepsSubtree DEF StoreNext
<1>3. SubtreeInv /\ [StoreNext]_storeVars => [call # NoCall /\ db' # db => StaysInSubtree]_storeVars
  <2> SUFFICES ASSUME SubtreeInv, StoreNext, call # NoCall, db' # db PROVE StaysInSubtree
    OBVIOUS
  <2>1. CASE Edit
    BY <2>1 DEF Edit, UpsertChannel, UpsertDevice, UpsertTag, UpsertMqttAgent, RemoveMqttAgent,
                RemoveTag, RemoveDevice, RemoveChannel, ReplaceProject, MergeProject
  <2>2. CASE Crash
    BY <2>2 DEF Crash
  <2> QED
    BY <2>1, <2>2, CascadeKeepsSubtree DEF StoreNext
<1> QED
  BY <1>1, <1>2, <1>3, PTL DEF StoreSpec, RemovalStaysInSubtree, StaysInSubtree

-----------------------------------------------------------------------------
(* ImportDialog: previews. *)

DialogFields == {"kind", "file", "mode", "format", "preview", "confirm", "busy", "result", "error"}
ReadFields == {"file", "project", "cancelled"}
RequestFields == {"number", "kind", "mode", "format", "file", "preview", "project", "state"}

\* Only what the invariant needs of the types.
ImportShape ==
    /\ store \in ProjectStates
    /\ DOMAIN import = DialogFields /\ import.file \in ProjectFiles \union {Nil}
    /\ \A r \in reads : DOMAIN r = ReadFields
    /\ \A i \in imports : DOMAIN i = RequestFields /\ i.file \in ProjectFiles

\* A read that is not cancelled is of what the dialog d shows now, over the copy.
ReadsAreCurrent(read, d, known) ==
    \A r \in read : ~ r.cancelled => Previews(d) /\ r.file = d.file /\ r.project = known

\* A preview sent with an import is the difference between what was known and the file.
RequestsWerePreviewed ==
    \A i \in imports : i.preview # Nil =>
        i.kind = "project" /\ i.format = Native /\ i.file # Unparseable /\ i.preview = Diff(i.project, i.file)

\* The inductive invariant.
ImportInv ==
    /\ ImportShape
    /\ ReadsAreCurrent(reads, import, copy)
    /\ PreviewIsCurrent
    /\ RequestsWerePreviewed

LEMMA ImportInitInv == ImportInit => ImportInv
BY FilesAssumption
   DEF ImportInit, ImportInv, ImportShape, ReadsAreCurrent, PreviewIsCurrent, RequestsWerePreviewed,
       Fresh, DialogFields

\* The effect leaves one read that is not cancelled at most, and no preview.
LEMMA EffectInv ==
    ASSUME NEW d, NEW known, DOMAIN d = DialogFields, PreviewEffect(d, known),
           \A r \in reads : DOMAIN r = ReadFields
    PROVE  /\ DOMAIN import' = DialogFields /\ import'.file = d.file /\ import'.preview = Nil
           /\ \A r \in reads' : DOMAIN r = ReadFields
           /\ ReadsAreCurrent(reads', import', known)
<1>1. import' = [d EXCEPT !.preview = Nil]
  BY DEF PreviewEffect
<1>2. /\ DOMAIN import' = DialogFields /\ import'.file = d.file /\ import'.preview = Nil
      /\ import'.kind = d.kind /\ import'.format = d.format
  BY <1>1 DEF DialogFields
<1>3. Previews(import') = Previews(d)
  BY <1>2 DEF Previews
<1>4. ASSUME NEW r \in reads'
      PROVE  DOMAIN r = ReadFields /\ (~ r.cancelled => Previews(d) /\ r.file = d.file /\ r.project = known)
  <2>1. \/ \E q \in reads : r = [q EXCEPT !.cancelled = TRUE]
        \/ Previews(d) /\ r = [file |-> d.file, project |-> known, cancelled |-> FALSE]
    BY DEF PreviewEffect
  <2>2. ASSUME NEW q \in reads, r = [q EXCEPT !.cancelled = TRUE]
        PROVE  DOMAIN r = ReadFields /\ r.cancelled
    BY <2>2 DEF ReadFields
  <2>3. CASE Previews(d) /\ r = [file |-> d.file, project |-> known, cancelled |-> FALSE]
    BY <2>3 DEF ReadFields
  <2> QED
    BY <2>1, <2>2, <2>3
<1> QED
  BY <1>2, <1>3, <1>4 DEF ReadsAreCurrent

\* A step that runs the effect.
LEMMA EffectStep ==
    ASSUME ImportInv, NEW d, DOMAIN d = DialogFields, d.file \in ProjectFiles \union {Nil},
           PreviewEffect(d, copy'), UNCHANGED <<store, imports>>
    PROVE  ImportInv'
BY EffectInv DEF ImportInv, ImportShape, PreviewIsCurrent, RequestsWerePreviewed

\* A step that changes nothing the preview depends on.
LEMMA PlainStep ==
    ASSUME ImportInv, DOMAIN import' = DialogFields,
           import'.kind = import.kind, import'.file = import.file,
           import'.format = import.format, import'.preview = import.preview,
           UNCHANGED <<reads, copy>>
    PROVE  /\ DOMAIN import' = DialogFields /\ import'.file \in ProjectFiles \union {Nil}
           /\ ReadsAreCurrent(reads', import', copy') /\ PreviewIsCurrent'
BY DEF ImportInv, ImportShape, ReadsAreCurrent, PreviewIsCurrent, Previews

\* A read is done: what it shows, if anything, is of what the dialog shows.
LEMMA ReadDoneInv ==
    ASSUME ImportInv, NEW r, ReadDone(r)
    PROVE  ImportInv'
<1>1. /\ r \in reads /\ reads' = reads \ {r}
      /\ UNCHANGED <<store, copy, imports>>
  BY DEF ReadDone
<1>2. CASE r.cancelled \/ r.file = Unparseable
  BY <1>1, <1>2
     DEF ReadDone, ImportInv, ImportShape, ReadsAreCurrent, PreviewIsCurrent, RequestsWerePreviewed
<1>3. CASE ~ (r.cancelled \/ r.file = Unparseable)
  <2>1. import' = [import EXCEPT !.preview = Diff(r.project, r.file)]
    BY <1>3 DEF ReadDone
  <2>2. Previews(import) /\ r.file = import.file /\ r.project = copy
    BY <1>1, <1>3 DEF ImportInv, ReadsAreCurrent
  <2>3. /\ DOMAIN import' = DialogFields /\ import'.file = import.file /\ import'.kind = import.kind
        /\ import'.format = import.format /\ import'.preview = Diff(copy, import.file)
    BY <2>1, <2>2 DEF ImportInv, ImportShape, DialogFields
  <2>4. Previews(import')
    BY <2>2, <2>3 DEF Previews
  <2> QED
    BY <1>1, <1>3, <2>2, <2>3, <2>4
       DEF ImportInv, ImportShape, ReadsAreCurrent, PreviewIsCurrent, RequestsWerePreviewed
<1> QED
  BY <1>2, <1>3

\* The import is sent with the preview the dialog shows.
LEMMA ImportSubmitInv == ASSUME ImportInv, Submit PROVE ImportInv'
<1> DEFINE i == [number |-> sent, kind |-> import.kind, mode |-> import.mode, format |-> import.format,
                 file |-> import.file, preview |-> import.preview, project |-> copy,
                 state |-> IF import.file = Unparseable /\ import.format = Native /\ import.kind # "tags"
                           THEN "failed" ELSE "asked"]
<1>1. /\ import' = [import EXCEPT !.busy = TRUE, !.error = FALSE, !.result = FALSE]
      /\ imports' = imports \union {i} /\ import.file # Nil
      /\ UNCHANGED <<store, copy, reads>>
  BY DEF Submit, CanSubmit
<1>2. /\ DOMAIN import' = DialogFields /\ import'.kind = import.kind /\ import'.file = import.file
      /\ import'.format = import.format /\ import'.preview = import.preview
  BY <1>1 DEF ImportInv, ImportShape, DialogFields
<1>3. DOMAIN i = RequestFields /\ i.file \in ProjectFiles
  BY <1>1 DEF ImportInv, ImportShape, RequestFields
<1>4. i.preview # Nil =>
        i.kind = "project" /\ i.format = Native /\ i.file # Unparseable /\ i.preview = Diff(i.project, i.file)
  BY DEF ImportInv, PreviewIsCurrent, Previews
<1> HIDE DEF i
<1> QED
  BY <1>1, <1>2, <1>3, <1>4, PlainStep DEF ImportInv, ImportShape, RequestsWerePreviewed

\* An import that has been served or has failed.
LEMMA SettledInv ==
    ASSUME ImportInv, NEW i \in imports, NEW s \in {"done", "failed"},
           imports' = (imports \ {i}) \union {[i EXCEPT !.state = s]},
           store' \in ProjectStates, UNCHANGED <<copy, import, reads>>
    PROVE  ImportInv'
<1> DEFINE j == [i EXCEPT !.state = s]
<1>1. /\ DOMAIN j = RequestFields /\ j.format = i.format
      /\ j.kind = i.kind /\ j.preview = i.preview /\ j.project = i.project /\ j.file = i.file
  BY DEF ImportInv, ImportShape, RequestFields
<1> HIDE DEF j
<1>2. imports' = (imports \ {i}) \union {j}
  BY DEF j
<1> QED
  BY <1>1, <1>2 DEF ImportInv, ImportShape, ReadsAreCurrent, PreviewIsCurrent, RequestsWerePreviewed

\* What the server parses is rows as it stores them.
LEMMA ParsedType ==
    ASSUME NEW f \in FileStates
    PROVE  /\ Parsed(f) \in ProjectStates
           /\ \A e \in ImportEntities : Parsed(f)[e] = IF f[e] = Nil THEN Nil ELSE Parse[f[e]]
           /\ \A e \in ImportEntities : f[e] # Nil => f[e] \in RawContents /\ Parse[f[e]] # Nil
<1>1. \A c \in RawContents : Parse[c] \in Contents /\ Parse[c] # Nil
  BY ParseAssumption
<1>2. DOMAIN f = ImportEntities \union ImportAgents
      /\ \A e \in DOMAIN f : f[e] # Nil => f[e] \in RawContents
  BY DEF FileStates
<1> QED
  BY <1>1, <1>2 DEF Parsed, ProjectStates

LEMMA ImportedType ==
    ASSUME NEW kind, NEW mode, NEW base \in ProjectStates, NEW rs \in ProjectStates
    PROVE  /\ Imported(kind, mode, base, rs) \in ProjectStates
           /\ kind = "project" /\ mode = "replace" => Imported(kind, mode, base, rs) = rs
           /\ mode # "replace" => \A e \in ImportEntities :
                Imported(kind, mode, base, rs)[e] = IF rs[e] # Nil THEN rs[e] ELSE base[e]
BY DEF Imported, ProjectStates

LEMMA ServeInv == ASSUME ImportInv, NEW i, Serve(i) PROVE ImportInv'
<1>1. i \in imports /\ i.file \in ProjectFiles /\ store \in ProjectStates
  BY DEF Serve, ImportInv, ImportShape
<1>2. PICK rs \in RowsOf(i) : store' = Imported(i.kind, i.mode, store, rs)
  BY DEF Serve
<1>3. PICK f \in ProjectFiles \ {Unparseable} : rs = Parsed(f)
  BY <1>1, <1>2 DEF RowsOf
<1>4. f \in FileStates
  BY <1>3, FilesAssumption
<1>5. store' \in ProjectStates
  BY <1>1, <1>2, <1>3, <1>4, ParsedType, ImportedType
<1> QED
  BY <1>1, <1>5, SettledInv DEF Serve

LEMMA AnswerInv == ASSUME ImportInv, NEW i, Answer(i) PROVE ImportInv'
<1>1. /\ imports' = imports \ {i} /\ UNCHANGED <<store, copy, reads>>
      /\ import' = [import EXCEPT !.busy = FALSE, !.result = @ \/ i.state = "done",
                                  !.error = @ \/ i.state = "failed"]
  BY DEF Answer
<1>2. /\ DOMAIN import' = DialogFields /\ import'.kind = import.kind /\ import'.file = import.file
      /\ import'.format = import.format /\ import'.preview = import.preview
  BY <1>1 DEF ImportInv, ImportShape, DialogFields
<1> QED
  BY <1>1, <1>2, PlainStep DEF ImportInv, ImportShape, RequestsWerePreviewed

\* Every step, and none.
LEMMA ImportNextInv == ImportInv /\ [ImportNext]_importVars => ImportInv'
<1> SUFFICES ASSUME ImportInv, [ImportNext]_importVars PROVE ImportInv'
  OBVIOUS
<1>1. DOMAIN import = DialogFields /\ import.file \in ProjectFiles \union {Nil}
  BY DEF ImportInv, ImportShape
<1>2. ASSUME NEW kind PROVE DOMAIN Reset(kind) = DialogFields /\ Reset(kind).file = Nil
  BY DEF Reset, Fresh, DialogFields
<1>3. ASSUME NEW kind \in Kinds, Open(kind) PROVE ImportInv'
  BY <1>2, <1>3, EffectStep DEF Open
<1>4. CASE Close
  BY <1>2, <1>4, EffectStep DEF Close
<1>5. ASSUME NEW f \in ProjectFiles \union {Nil}, ChooseFile(f) PROVE ImportInv'
  <2> DEFINE d == [import EXCEPT !.file = f, !.error = FALSE, !.result = FALSE]
  <2>1. DOMAIN d = DialogFields /\ d.file = f
    BY <1>1 DEF DialogFields
  <2>2. PreviewEffect(d, copy') /\ UNCHANGED <<store, imports>>
    BY <1>5 DEF ChooseFile
  <2> HIDE DEF d
  <2> QED
    BY <2>1, <2>2, EffectStep
<1>6. ASSUME NEW format, ChooseFormat(format) PROVE ImportInv'
  <2> DEFINE d == [import EXCEPT !.format = format, !.error = FALSE, !.result = FALSE]
  <2>1. DOMAIN d = DialogFields /\ d.file = import.file
    BY <1>1 DEF DialogFields
  <2>2. PreviewEffect(d, copy') /\ UNCHANGED <<store, imports>>
    BY <1>6 DEF ChooseFormat
  <2> HIDE DEF d
  <2> QED
    BY <1>1, <2>1, <2>2, EffectStep
<1>7. CASE ImportAnother
  <2> DEFINE d == [import EXCEPT !.file = Nil, !.result = FALSE]
  <2>1. DOMAIN d = DialogFields /\ d.file = Nil
    BY <1>1 DEF DialogFields
  <2>2. PreviewEffect(d, copy') /\ UNCHANGED <<store, imports>>
    BY <1>7 DEF ImportAnother
  <2> HIDE DEF d
  <2> QED
    BY <2>1, <2>2, EffectStep
<1>8. CASE Refetch
  BY <1>1, <1>8, EffectStep DEF Refetch
<1>9. ASSUME NEW mode, ChooseMode(mode) PROVE ImportInv'
  <2>1. /\ DOMAIN import' = DialogFields /\ import'.kind = import.kind /\ import'.file = import.file
        /\ import'.format = import.format /\ import'.preview = import.preview
    BY <1>1, <1>9 DEF ChooseMode, DialogFields
  <2> QED
    BY <1>9, <2>1, PlainStep DEF ChooseMode, ImportInv, ImportShape, RequestsWerePreviewed
<1>10. CASE TypeConfirm
  <2>1. /\ DOMAIN import' = DialogFields /\ import'.kind = import.kind /\ import'.file = import.file
        /\ import'.format = import.format /\ import'.preview = import.preview
    BY <1>1, <1>10 DEF TypeConfirm, DialogFields
  <2> QED
    BY <1>10, <2>1, PlainStep DEF TypeConfirm, ImportInv, ImportShape, RequestsWerePreviewed
<1>11. ASSUME NEW i \in imports, Fail(i) PROVE ImportInv'
  BY <1>11, SettledInv DEF Fail, ImportInv, ImportShape
<1>12. ASSUME NEW other \in InitialProjects, OtherImport(other) PROVE ImportInv'
  BY <1>12, FilesAssumption
     DEF OtherImport, ImportInv, ImportShape, ReadsAreCurrent, PreviewIsCurrent, RequestsWerePreviewed
<1>13. CASE UNCHANGED importVars
  BY <1>13
     DEF importVars, ImportInv, ImportShape, ReadsAreCurrent, PreviewIsCurrent, RequestsWerePreviewed
<1> QED
  BY <1>3, <1>4, <1>5, <1>6, <1>7, <1>8, <1>9, <1>10, <1>11, <1>12, <1>13,
     ReadDoneInv, ImportSubmitInv, ServeInv, AnswerInv DEF ImportNext

LEMMA ImportInvariant == ImportSpec => []ImportInv
BY ImportInitInv, ImportNextInv, PTL DEF ImportSpec

\* The preview shown is that of the chosen file over the console's copy as it is now, however
\* late the files are read and however often the choice changes (ImportModal.tsx, preview effect).
THEOREM PreviewAlwaysCurrent == ImportSpec => []PreviewIsCurrent
BY ImportInvariant, PTL DEF ImportInv

\* What an import of the file f in the mode makes of the row e of the stored rows `base`,
\* against what Diff says.
LEMMA DiffPredicts ==
    ASSUME NEW f \in FileStates, NEW base \in ProjectStates, NEW after, NEW known, NEW mode,
           after = Imported("project", mode, base, Parsed(f)),
           \A e \in ImportEntities : base[e] = known[e]
    PROVE  LET preview == Diff(known, f)
               changed == {e \in ImportEntities : after[e] # base[e]}
           IN  /\ changed \subseteq Announced(preview, mode)
               /\ Announced(preview, mode) \ preview.modified \subseteq changed
<1> DEFINE preview == Diff(known, f)
<1>1. \A e \in ImportEntities :
        /\ Parsed(f)[e] = IF f[e] = Nil THEN Nil ELSE Parse[f[e]]
        /\ f[e] # Nil => f[e] \in RawContents /\ Parse[f[e]] # Nil
        /\ base[e] # Nil => base[e] \in Contents /\ Parse[base[e]] = base[e]
  BY ParsedType, ParseAssumption DEF ProjectStates
<1>2. \A e \in ImportEntities : after[e] =
        IF mode = "replace" \/ f[e] # Nil THEN Parsed(f)[e] ELSE base[e]
  <2>1. CASE mode = "replace"
    BY <2>1, ParsedType, ImportedType
  <2>2. CASE mode # "replace"
    BY <2>2, <1>1, ParsedType, ImportedType
  <2> QED
    BY <2>1, <2>2
<1>3. /\ preview.added = {e \in ImportEntities : base[e] = Nil /\ f[e] # Nil}
      /\ preview.modified = {e \in ImportEntities : Nil \notin {base[e], f[e]} /\ base[e] # f[e]}
      /\ preview.removed = {e \in ImportEntities : base[e] # Nil /\ f[e] = Nil}
  BY DEF Diff
<1>4. ASSUME NEW e \in ImportEntities, after[e] # base[e]
      PROVE  e \in Announced(preview, mode)
  <2>1. CASE f[e] # Nil
    BY <1>1, <1>2, <1>3, <1>4, <2>1 DEF Announced
  <2>2. CASE f[e] = Nil
    BY <1>1, <1>2, <1>3, <1>4, <2>2 DEF Announced
  <2> QED
    BY <2>1, <2>2
<1>5. ASSUME NEW e \in Announced(preview, mode), e \notin preview.modified
      PROVE  e \in ImportEntities /\ after[e] # base[e]
  BY <1>1, <1>2, <1>3, <1>5 DEF Announced
<1> QED
  BY <1>4, <1>5

\* An import leaves alone what its preview does not name, and adds and removes what it says,
\* for files and projects of any size and however the rows of the file are written, if the
\* server still has what the console's copy had (ImportModal.tsx:72-101, store.ts:243-298).
THEOREM PreviewsPredict == ImportSpec => PreviewPredicts
<1> DEFINE Predicts ==
      \A i \in imports : AsPreviewed(i) =>
          LET changed == {e \in ImportEntities : store'[e] # store[e]}
          IN  /\ changed \subseteq Announced(i.preview, i.mode)
              /\ Announced(i.preview, i.mode) \ i.preview.modified \subseteq changed
<1>1. ImportInv /\ [ImportNext]_importVars => [Predicts]_importVars
  <2> SUFFICES ASSUME ImportInv, NEW i \in imports, AsPreviewed(i)
               PROVE  LET changed == {e \in ImportEntities : store'[e] # store[e]}
                      IN  /\ changed \subseteq Announced(i.preview, i.mode)
                          /\ Announced(i.preview, i.mode) \ i.preview.modified \subseteq changed
    OBVIOUS
  <2>1. /\ i.kind = "project" /\ i.format = Native /\ i.file # Unparseable
        /\ i.preview = Diff(i.project, i.file) /\ i.file \in ProjectFiles
        /\ store \in ProjectStates /\ \A e \in ImportEntities : store[e] = i.project[e]
    BY DEF ImportInv, ImportShape, RequestsWerePreviewed, AsPreviewed
  <2>2. PICK rs \in RowsOf(i) : store' = Imported(i.kind, i.mode, store, rs)
    BY DEF AsPreviewed, Serve
  <2>3. rs = Parsed(i.file)
    BY <2>1, <2>2 DEF RowsOf
  <2>4. i.file \in FileStates /\ store' = Imported("project", i.mode, store, Parsed(i.file))
    BY <2>1, <2>2, <2>3, FilesAssumption
  <2> QED
    BY <2>1, <2>4, DiffPredicts
<1> QED
  BY <1>1, ImportInvariant, PTL DEF ImportSpec, PreviewPredicts


-----------------------------------------------------------------------------
(* ProjectDialogs: the undo. *)

\* Of some places in a list there is a first one.
LEMMA FirstPlace ==
    ASSUME NEW P \in SUBSET Nat, P # {}
    PROVE  (CHOOSE i \in P : \A j \in P : i <= j) \in P
BY LeastNumber

LEMMA UniqueIdType ==
    ASSUME NEW p, NEW s \in Series
    PROVE  UniqueId(p, s) \in Entities \union {Nothing}
<1> DEFINE free == {i \in DOMAIN s : p[s[i]] = Absent}
           first == CHOOSE i \in free : \A j \in free : i <= j
<1>1. s \in Seq(Entities) /\ DOMAIN s = 1 .. Len(s) /\ Len(s) \in Nat
  BY SeriesAssumption
<1>2. CASE free = {}
  BY <1>2 DEF UniqueId
<1>3. CASE free # {}
  <2>1. free \in SUBSET Nat
    BY <1>1
  <2>2. first \in free
    <3> HIDE DEF free
    <3> QED
      BY <1>3, <2>1, FirstPlace
  <2>3. UniqueId(p, s) = s[first]
    BY <1>3 DEF UniqueId
  <2>4. first \in 1 .. Len(s)
    BY <1>1, <2>2
  <2> HIDE DEF first
  <2> QED
    BY <1>1, <2>3, <2>4
<1> QED
  BY <1>2, <1>3

LEMMA RestoreInitInv == DialogsInit => RestoreInv
BY InitialAssumption DEF DialogsInit, CacheInit, Configurations, RestoreInv, RestoreShape, BusyOnce, SnapshotsAreRight

\* A step that leaves the requests alone, or only opens the delete dialog.
LEMMA OpenDeleteInv == ASSUME RestoreInv, OpenDelete PROVE RestoreInv'
<1> DEFINE e == DeleteTarget
           d == [entity |-> e, snapshot |-> DeleteSnapshot(e), current |-> Current]
<1>1. dialog' = d /\ dialog = Nothing /\ e # Nothing
      /\ UNCHANGED <<rows, project, node, row, busy, deleting, toast, undoing, creating, resetting>>
  BY DEF OpenDelete, cacheVars, selVars
<1>2. e \in Entities
  BY <1>1 DEF DeleteTarget, RestoreInv, RestoreShape
<1>3. dialog'.current = Current /\ dialog'.snapshot = DeleteSnapshot(e) /\ dialog'.entity = e
  BY <1>1
<1> HIDE DEF e, d
<1>4. DOMAIN dialog' = {"entity", "snapshot", "current"}
  BY <1>1 DEF d
<1>5. RestoreShape'
  BY <1>1, <1>2, <1>3, <1>4 DEF RestoreInv, RestoreShape
<1>6. BusyOnce'
  BY <1>1, <1>3 DEF RestoreInv, BusyOnce, Current, Idle
<1>7. ASSUME dialog'.current PROVE creating' = Nothing /\ SnapshotOf(dialog.snapshot, dialog.entity)'
  <2>1. project = rows /\ creating = Nothing
    BY <1>3, <1>7 DEF Current, Idle
  <2> QED
    BY <1>1, <1>3, <2>1 DEF SnapshotOf, DeleteSnapshot
<1>8. SnapshotOf(deleting.snapshot, deleting.entity)' <=> SnapshotOf(deleting.snapshot, deleting.entity)
  BY <1>1 DEF SnapshotOf
<1>9. SnapshotsAreRight'
  BY <1>1, <1>7, <1>8 DEF RestoreInv, SnapshotsAreRight, Covers, Listed
<1> QED
  BY <1>5, <1>6, <1>9 DEF RestoreInv

\* Selecting, closing a dialog or a toast, and what moves only the console's copy.
LEMMA AsideInv ==
    ASSUME RestoreInv, UNCHANGED <<rows, busy, deleting, undoing>>,
           node' \in Entities \union {Root}, row' \in Entities \union {Nothing},
           dialog' \in {dialog, Nothing}, toast' \in {toast, Nothing}, creating' \in {creating, Nothing}
    PROVE  RestoreInv'
<1>1. RestoreShape'
  BY DEF RestoreInv, RestoreShape
<1>2. BusyOnce'
  BY DEF RestoreInv, BusyOnce
<1>3. SnapshotsAreRight'
  BY DEF RestoreInv, SnapshotsAreRight, SnapshotOf, Covers, Listed
<1> QED
  BY <1>1, <1>2, <1>3 DEF RestoreInv

LEMMA ConfirmDeleteInv == ASSUME RestoreInv, ConfirmDelete PROVE RestoreInv'
<1> DEFINE d == [entity |-> dialog.entity, snapshot |-> dialog.snapshot, removed |-> rows,
                 current |-> dialog.current, stage |-> "sent"]
<1>1. /\ dialog # Nothing /\ ~ busy /\ busy' = TRUE /\ deleting' = d
      /\ toast = Nothing /\ undoing = Nothing /\ undoing' = Nothing
      /\ UNCHANGED <<rows, node, row, dialog, toast, creating, resetting>>
  BY DEF ConfirmDelete, cacheVars, selVars, Disturbed, RestoreInv, BusyOnce
<1>2. RestoreShape'
  BY <1>1 DEF RestoreInv, RestoreShape
<1>3. BusyOnce'
  BY <1>1 DEF RestoreInv, BusyOnce
<1>4. SnapshotsAreRight'
  BY <1>1 DEF RestoreInv, SnapshotsAreRight, SnapshotOf, Covers, Listed
<1> QED
  BY <1>2, <1>3, <1>4 DEF RestoreInv

LEMMA DeleteServedInv == ASSUME RestoreInv, DeleteServed PROVE RestoreInv'
<1>1. /\ deleting # Nothing /\ deleting.stage = "sent" /\ busy /\ toast = Nothing /\ undoing = Nothing
      /\ UNCHANGED <<node, row, dialog, busy, toast, undoing, creating, resetting>>
  BY DEF DeleteServed, selVars, RestoreInv, BusyOnce
<1>2. CASE rows[deleting.entity] = Absent
  <2>1. deleting' = [deleting EXCEPT !.stage = "refused"] /\ rows' = rows
    BY <1>2 DEF DeleteServed
  <2>2. RestoreShape' /\ deleting'.entity = deleting.entity /\ deleting'.stage = "refused"
    BY <1>1, <2>1 DEF RestoreInv, RestoreShape
  <2>3. BusyOnce'
    BY <1>1, <2>2 DEF RestoreInv, BusyOnce
  <2>4. SnapshotsAreRight'
    BY <1>1, <2>1, <2>2 DEF RestoreInv, SnapshotsAreRight, SnapshotOf, Covers, Listed
  <2> QED
    BY <2>2, <2>3, <2>4 DEF RestoreInv
<1>3. CASE rows[deleting.entity] # Absent
  <2> DEFINE gone == [x \in Entities |-> IF rows'[x] = Absent THEN rows[x] ELSE Absent]
  <2>1. rows' = Without(rows, deleting.entity)
        /\ deleting' = [deleting EXCEPT !.stage = "done", !.removed = gone]
    BY <1>3 DEF DeleteServed
  <2>2. deleting'.entity = deleting.entity /\ deleting'.stage = "done" /\ deleting'.removed = gone
        /\ deleting'.snapshot = deleting.snapshot /\ deleting'.current = deleting.current
        /\ DOMAIN deleting' = DOMAIN deleting
    <3> HIDE DEF gone
    <3> QED
      BY <1>1, <2>1 DEF RestoreInv, RestoreShape
  <2>3. RestoreShape'
    BY <1>1, <2>1, <2>2 DEF RestoreInv, RestoreShape, Without
  <2>4. BusyOnce'
    BY <1>1, <2>2 DEF RestoreInv, BusyOnce
  <2>5. rows'[deleting.entity] = Absent
    BY <1>1, <2>1 DEF Without, Subtree, RestoreInv, RestoreShape
  <2>6. ASSUME deleting.current PROVE Covers(deleting')
    <3>1. SnapshotOf(deleting.snapshot, deleting.entity)
      BY <1>1, <2>6 DEF RestoreInv, SnapshotsAreRight
    <3>2. SUFFICES ASSUME NEW e \in Entities, gone[e] # Absent
                   PROVE  deleting.snapshot[e] = gone[e]
      BY <2>2 DEF Covers
    <3>3. rows'[e] = Absent /\ rows[e] # Absent /\ gone[e] = rows[e]
      BY <3>2
    <3>4. e \in Subtree(deleting.entity)
      BY <2>1, <3>3 DEF Without
    <3> QED
      BY <1>3, <3>1, <3>3, <3>4 DEF SnapshotOf
  <2>7. SnapshotsAreRight'
    <3> HIDE DEF gone
    <3>1. dialog # Nothing /\ dialog.current => creating = Nothing /\ SnapshotOf(dialog.snapshot, dialog.entity)'
      BY <1>1, <2>5 DEF RestoreInv, SnapshotsAreRight, BusyOnce, SnapshotOf
    <3>2. Covers(deleting)' <=> Covers(deleting')
      BY DEF Covers
    <3> QED
      BY <1>1, <2>2, <2>6, <3>1, <3>2 DEF SnapshotsAreRight
  <2> QED
    BY <2>3, <2>4, <2>7 DEF RestoreInv
<1> QED
  BY <1>2, <1>3

LEMMA DeleteAnsweredInv == ASSUME RestoreInv, DeleteAnswered PROVE RestoreInv'
<1>1. /\ deleting # Nothing /\ deleting.stage = "done" /\ busy /\ toast = Nothing /\ undoing = Nothing
      /\ dialog' = Nothing /\ deleting' = Nothing /\ row' = Nothing /\ node' = Parent[deleting.entity]
      /\ toast' = [snapshot |-> deleting.snapshot, removed |-> deleting.removed, current |-> deleting.current]
      /\ UNCHANGED <<rows, busy, undoing, creating, resetting>>
  BY DEF DeleteAnswered, RestoreInv, BusyOnce
<1>2. RestoreShape'
  BY <1>1, ParentAssumption DEF RestoreInv, RestoreShape
<1>3. BusyOnce'
  BY <1>1 DEF RestoreInv, BusyOnce
<1>4. SnapshotsAreRight'
  BY <1>1 DEF RestoreInv, SnapshotsAreRight, Covers
<1> QED
  BY <1>2, <1>3, <1>4 DEF RestoreInv

LEMMA DeleteFailedInv == ASSUME RestoreInv, DeleteFailed PROVE RestoreInv'
<1>1. /\ deleting # Nothing /\ deleting' = Nothing /\ toast = Nothing /\ undoing = Nothing /\ ~ busy'
      /\ UNCHANGED <<rows, node, row, dialog, toast, undoing, creating, resetting>>
  BY DEF DeleteFailed, selVars, RestoreInv, BusyOnce
<1>2. RestoreShape' /\ BusyOnce'
  BY <1>1 DEF RestoreInv, RestoreShape, BusyOnce
<1>3. SnapshotsAreRight'
  BY <1>1 DEF RestoreInv, SnapshotsAreRight, SnapshotOf
<1> QED
  BY <1>2, <1>3 DEF RestoreInv

LEMMA UndoInv == ASSUME RestoreInv, Undo PROVE RestoreInv'
<1>1. /\ toast # Nothing /\ undoing = Nothing /\ busy /\ deleting = Nothing /\ toast' = Nothing
      /\ undoing' = [left |-> Listed(toast.snapshot), snapshot |-> toast.snapshot,
                     removed |-> toast.removed, current |-> toast.current /\ Idle]
      /\ UNCHANGED <<rows, node, row, dialog, busy, deleting, creating, resetting>>
  BY DEF Undo, cacheVars, selVars, delVars, RestoreInv, BusyOnce
<1>2. undoing'.left = Listed(toast.snapshot) /\ undoing'.snapshot = toast.snapshot
      /\ undoing'.removed = toast.removed /\ (undoing'.current <=> toast.current /\ Idle)
      /\ DOMAIN undoing' = {"left", "snapshot", "removed", "current"}
  BY <1>1
<1>3. RestoreShape'
  BY <1>1, <1>2 DEF RestoreInv, RestoreShape
<1>4. BusyOnce'
  BY <1>1 DEF RestoreInv, BusyOnce
<1>5. SnapshotsAreRight'
  BY <1>1, <1>2 DEF RestoreInv, SnapshotsAreRight, Covers, Listed, Idle
<1> QED
  BY <1>3, <1>4, <1>5 DEF RestoreInv

LEMMA UndoStepInv == ASSUME RestoreInv, UndoStep PROVE RestoreInv'
<1>1. PICK e \in Foremost(undoing.left) :
         /\ rows' = [rows EXCEPT ![e] = undoing.snapshot[e]]
         /\ undoing' = [undoing EXCEPT !.left = @ \ {e}]
  BY DEF UndoStep
<1>2. /\ undoing # Nothing /\ busy /\ deleting = Nothing
      /\ UNCHANGED <<node, row, dialog, busy, deleting, toast, creating, resetting>>
  BY DEF UndoStep, selVars, delVars, RestoreInv, BusyOnce
<1>3. undoing'.left = undoing.left \ {e} /\ undoing'.snapshot = undoing.snapshot
      /\ undoing'.removed = undoing.removed /\ undoing'.current = undoing.current
      /\ DOMAIN undoing' = DOMAIN undoing
  BY <1>1, <1>2 DEF RestoreInv, RestoreShape
<1>4. RestoreShape'
  BY <1>1, <1>2, <1>3 DEF RestoreInv, RestoreShape
<1>5. BusyOnce'
  BY <1>2 DEF RestoreInv, BusyOnce
<1>6. SnapshotsAreRight'
  BY <1>1, <1>2, <1>3 DEF RestoreInv, RestoreShape, SnapshotsAreRight, Covers, Listed
<1> QED
  BY <1>4, <1>5, <1>6 DEF RestoreInv

\* An undo that ends or is given up.
LEMMA UndoEndsInv ==
    ASSUME RestoreInv, undoing' = Nothing,
           UNCHANGED <<rows, node, row, dialog, busy, deleting, toast, creating>>
    PROVE  RestoreInv'
BY DEF RestoreInv, RestoreShape, BusyOnce, SnapshotsAreRight, SnapshotOf, Covers, Listed

\* Requests that are disturbed claim nothing.
LEMMA DisturbedShape ==
    ASSUME NEW r, r # Nothing => "current" \in DOMAIN r
    PROVE  Disturbed(r) # Nothing =>
             /\ r # Nothing /\ DOMAIN Disturbed(r) = DOMAIN r /\ ~ Disturbed(r).current
             /\ Disturbed(r) = [r EXCEPT !.current = FALSE]
BY DEF Disturbed

LEMMA SubmitCreateInv ==
    ASSUME RestoreInv, NEW s \in Series, NEW v \in Configs, SubmitCreate(s, v)
    PROVE  RestoreInv'
<1>1. /\ dialog = Nothing /\ creating = Nothing
      /\ undoing' = Disturbed(undoing) /\ deleting' = Disturbed(deleting)
      /\ UNCHANGED <<rows, node, row, dialog, busy, toast, resetting>>
  BY DEF SubmitCreate, cacheVars, selVars
<1>2. /\ UniqueId(project, s) \in Entities
      /\ creating' = [entity |-> UniqueId(project, s), config |-> v, stage |-> "sent"]
  BY UniqueIdType DEF SubmitCreate
<1>3. /\ "current" \in DOMAIN undoing \/ undoing = Nothing
      /\ "current" \in DOMAIN deleting \/ deleting = Nothing
  BY DEF RestoreInv, RestoreShape
<1>4. undoing' # Nothing => /\ undoing # Nothing /\ DOMAIN undoing' = DOMAIN undoing /\ ~ undoing'.current
  BY <1>1, <1>3, DisturbedShape
<1>5. deleting' # Nothing =>
        /\ deleting # Nothing /\ DOMAIN deleting' = DOMAIN deleting /\ ~ deleting'.current
        /\ deleting'.entity = deleting.entity
  BY <1>1, <1>3 DEF Disturbed
<1>6. RestoreShape'
  BY <1>1, <1>2, <1>4, <1>5 DEF RestoreInv, RestoreShape
<1>7. deleting = Nothing => deleting' = Nothing
  BY <1>1 DEF Disturbed
<1>8. BusyOnce'
  BY <1>1, <1>4, <1>5, <1>7 DEF RestoreInv, BusyOnce
<1>9. SnapshotsAreRight'
  BY <1>1, <1>4, <1>5 DEF RestoreInv, SnapshotsAreRight, Covers
<1> QED
  BY <1>6, <1>8, <1>9 DEF RestoreInv

LEMMA CreateServedInv == ASSUME RestoreInv, CreateServed PROVE RestoreInv'
<1>1. /\ creating # Nothing
      /\ creating' \in {[creating EXCEPT !.stage = "done"], [creating EXCEPT !.stage = "refused"]}
      /\ rows' \in {rows, [rows EXCEPT ![creating.entity] = creating.config]}
      /\ UNCHANGED <<node, row, dialog, busy, deleting, toast, undoing, resetting>>
  BY DEF CreateServed, selVars, delVars
<1>2. RestoreShape'
  <2>1. DOMAIN creating' = DOMAIN creating /\ creating'.entity = creating.entity
    BY <1>1 DEF RestoreInv, RestoreShape
  <2>2. DOMAIN rows' = Entities
    BY <1>1 DEF RestoreInv, RestoreShape
  <2> QED
    BY <1>1, <2>1, <2>2 DEF RestoreInv, RestoreShape
<1>3. BusyOnce'
  BY <1>1 DEF RestoreInv, BusyOnce
<1>4. SnapshotsAreRight'
  BY <1>1 DEF RestoreInv, SnapshotsAreRight, Covers
<1> QED
  BY <1>2, <1>3, <1>4 DEF RestoreInv

\* Whatever the server's rows become: what was prepared is disturbed.
LEMMA DisturbanceInv ==
    ASSUME RestoreInv, DOMAIN rows' = Entities,
           dialog' = Disturbed(dialog), deleting' = Disturbed(deleting),
           toast' = Disturbed(toast), undoing' = Disturbed(undoing),
           UNCHANGED <<node, row, busy, creating>>
    PROVE  RestoreInv'
<1>1. dialog' # Nothing => /\ dialog # Nothing /\ DOMAIN dialog' = DOMAIN dialog
                           /\ ~ dialog'.current /\ dialog'.entity = dialog.entity
  BY DisturbedShape DEF RestoreInv, RestoreShape
<1>2. deleting' # Nothing => /\ deleting # Nothing /\ DOMAIN deleting' = DOMAIN deleting
                             /\ ~ deleting'.current /\ deleting'.entity = deleting.entity
  BY DisturbedShape DEF RestoreInv, RestoreShape
<1>3. toast' # Nothing => toast # Nothing /\ DOMAIN toast' = DOMAIN toast /\ ~ toast'.current
  BY DisturbedShape DEF RestoreInv, RestoreShape
<1>4. undoing' # Nothing => /\ undoing # Nothing /\ DOMAIN undoing' = DOMAIN undoing /\ ~ undoing'.current
  BY DisturbedShape DEF RestoreInv, RestoreShape
<1>5. RestoreShape'
  BY <1>1, <1>2, <1>3, <1>4 DEF RestoreInv, RestoreShape
<1>6. deleting = Nothing => deleting' = Nothing
  BY DEF Disturbed
<1>7. BusyOnce'
  BY <1>1, <1>2, <1>3, <1>4, <1>6 DEF RestoreInv, BusyOnce
<1>8. SnapshotsAreRight'
  BY <1>1, <1>2, <1>3, <1>4 DEF SnapshotsAreRight
<1> QED
  BY <1>5, <1>7, <1>8 DEF RestoreInv

LEMMA RestoreNextInv == RestoreInv /\ [DialogsNext]_dialogVars => RestoreInv'
<1> SUFFICES ASSUME RestoreInv, [DialogsNext]_dialogVars PROVE RestoreInv'
  OBVIOUS
<1> USE DEF cacheVars, selVars, delVars
<1>0. node \in Entities \union {Root} /\ row \in Entities \union {Nothing}
  BY DEF RestoreInv, RestoreShape
<1>1. CASE \E n \in Entities \union {Root}, r \in Entities \union {Nothing} : Select(n, r)
  BY <1>1, AsideInv DEF Select
<1>2. CASE OpenDelete
  BY <1>2, OpenDeleteInv
<1>3. CASE CancelDelete \/ ToastGoes
  BY <1>0, <1>3, AsideInv DEF CancelDelete, ToastGoes
<1>4. CASE ConfirmDelete
  BY <1>4, ConfirmDeleteInv
<1>5. CASE DeleteServed
  BY <1>5, DeleteServedInv
<1>6. CASE DeleteAnswered
  BY <1>6, DeleteAnsweredInv
<1>7. CASE DeleteFailed
  BY <1>7, DeleteFailedInv
<1>8. CASE Undo
  BY <1>8, UndoInv
<1>9. CASE UndoStep
  BY <1>9, UndoStepInv
<1>10. CASE UndoDone \/ UndoFails
  BY <1>10, UndoEndsInv DEF UndoDone, UndoFails
<1>11. CASE \E s \in Series, v \in Configs : SubmitCreate(s, v)
  BY <1>11, SubmitCreateInv
<1>12. CASE CreateServed
  BY <1>12, CreateServedInv
<1>13. CASE CreateAnswered
  <2>1. creating.entity \in Entities /\ Parent[creating.entity] \in Entities \union {Root}
    BY <1>13, ParentAssumption DEF CreateAnswered, RestoreInv, RestoreShape
  <2>2. node' \in Entities \union {Root} /\ row' \in Entities \union {Nothing}
    BY <1>13, <2>1 DEF CreateAnswered
  <2> QED
    BY <1>13, <2>2, AsideInv DEF CreateAnswered
<1>14. CASE CreateFails
  BY <1>0, <1>14, AsideInv DEF CreateFails
<1>15. CASE NewProject \/ NewProjectAnswered \/ NewProjectFails
  BY <1>0, <1>15, AsideInv DEF NewProject, NewProjectAnswered, NewProjectFails
<1>16. CASE NewProjectServed
  BY <1>16, DisturbanceInv DEF NewProjectServed
<1>17. CASE Fetching
  BY <1>0, <1>17, AsideInv DEF Fetching, CacheStep, ServeFetch, FetchArrives, FetchFails
<1>18. CASE OtherClient
  <2>1. DOMAIN rows' = Entities
    BY <1>18 DEF OtherClient, ForeignChange, Without, RestoreInv, RestoreShape
  <2> QED
    BY <1>18, <2>1, DisturbanceInv DEF OtherClient, ForeignChange
<1>19. CASE UNCHANGED dialogVars
  BY <1>0, <1>19, AsideInv DEF dialogVars
<1> QED
  BY <1>1, <1>2, <1>3, <1>4, <1>5, <1>6, <1>7, <1>8, <1>9, <1>10, <1>11, <1>12, <1>13, <1>14,
     <1>15, <1>16, <1>17, <1>18, <1>19 DEF DialogsNext

\* Undoing a deletion brings back all that it removed, as it was, when the deletion was
\* prepared on what the server held and nothing else was at work: of a channel with the
\* devices and tags below it no part is missing and none is refused for its parent
\* (App.tsx:58-80, 168-181).
THEOREM UndoIsComplete == DialogsSpec => UndoRestores
<1> DEFINE Restores ==
      UndoDone /\ undoing.current =>
          \A e \in Entities : undoing.removed[e] # Absent => rows[e] = undoing.removed[e]
<1>1. RestoreInv => Restores
  <2> SUFFICES ASSUME RestoreInv, UndoDone, undoing.current,
                      NEW e \in Entities, undoing.removed[e] # Absent
               PROVE  rows[e] = undoing.removed[e]
    OBVIOUS
  <2>1. undoing # Nothing /\ undoing.left = {}
    BY DEF UndoDone
  <2>2. undoing.snapshot[e] = undoing.removed[e]
    BY <2>1 DEF RestoreInv, SnapshotsAreRight, Covers
  <2> QED
    BY <2>1, <2>2 DEF RestoreInv, SnapshotsAreRight, Listed
<1>2. RestoreInv /\ [DialogsNext]_dialogVars => [Restores]_dialogVars
  BY <1>1
<1> QED
  BY <1>2, RestoreInitInv, RestoreNextInv, PTL DEF DialogsSpec, UndoRestores

-----------------------------------------------------------------------------
(* Transfer: the ids of an import. *)

\* Rows that have an id, as an import has them once they are prepared.
ReadyRows == {r \in FileRows : r.id \in Ids}
MayBeIds == Ids \union {Missing}

\* An id that no other device has.
Own(base, d, i) == base[i] # Missing => base[i].device = d

LEMMA SlugIsId ==
    ASSUME NEW d \in TransferDevices, NEW name \in Names, NEW n \in 1 .. MaxNumber
    PROVE  <<d, name, n>> \in Ids
BY DEF Ids

LEMMA PreparedRows ==
    ASSUME NEW f \in TagFiles, NEW d \in TransferDevices
    PROVE  /\ Prepared(f, d) \in Seq(ReadyRows) /\ Len(Prepared(f, d)) = Len(f.rows)
           /\ Len(f.rows) \in Nat /\ DOMAIN f.rows = 1 .. Len(f.rows)
           /\ \A k \in 1 .. Len(f.rows) : TagOf(d, Prepared(f, d)[k]) = TagOf(d, f.rows[k])
<1>1. f.rows \in Seq(FileRows)
  BY DEF TagFiles
<1>2. ASSUME NEW r \in FileRows PROVE Identified(r, d) \in ReadyRows /\ TagOf(d, Identified(r, d)) = TagOf(d, r)
  <2>1. 1 \in 1 .. MaxNumber
    BY MissingAssumption
  <2>2. <<d, r.name, 1>> \in Ids /\ r.id \in Ids \union {Missing}
    BY <2>1, SlugIsId DEF FileRows
  <2> DEFINE i == IF r.id = Missing THEN <<d, r.name, 1>> ELSE r.id
  <2>3. Identified(r, d) = [r EXCEPT !.id = i] /\ i \in Ids
    BY <2>2 DEF Identified
  <2> HIDE DEF i
  <2>4. [r EXCEPT !.id = i] \in FileRows /\ [r EXCEPT !.id = i].id = i
        /\ [r EXCEPT !.id = i].name = r.name /\ [r EXCEPT !.id = i].text = r.text
        /\ [r EXCEPT !.id = i].mqtt = r.mqtt
    BY <2>3 DEF FileRows
  <2> QED
    BY <2>3, <2>4 DEF ReadyRows, TagOf
<1>3. DOMAIN f.rows = 1 .. Len(f.rows) /\ Len(f.rows) \in Nat
      /\ \A k \in 1 .. Len(f.rows) : f.rows[k] \in FileRows
  BY <1>1
<1>4. Prepared(f, d) = [k \in 1 .. Len(f.rows) |-> Identified(f.rows[k], d)]
  BY <1>3 DEF Prepared
<1> DEFINE p == Prepared(f, d)
<1>5. \A k \in 1 .. Len(f.rows) : p[k] = Identified(f.rows[k], d)
  BY <1>4
<1>6. p = [k \in 1 .. Len(f.rows) |-> p[k]]
  BY <1>4
<1> HIDE DEF p
<1>7. p \in Seq(ReadyRows) /\ Len(p) = Len(f.rows)
  <2>1. \A k \in 1 .. Len(f.rows) : p[k] \in ReadyRows
    BY <1>2, <1>3, <1>5
  <2>2. p \in [1 .. Len(f.rows) -> ReadyRows]
    BY <1>6, <2>1
  <2> QED
    BY <1>3, <2>2
<1> QED
  BY <1>2, <1>3, <1>5, <1>7 DEF p

LEMMA BindingType ==
    ASSUME NEW base, NEW d \in TransferDevices, NEW taken, NEW r \in ReadyRows
    PROVE  /\ Binding(base, d, taken, r) \in MayBeIds
           /\ Binding(base, d, taken, r) # Missing => Usable(base, d, taken, Binding(base, d, taken, r))
<1> DEFINE free == {n \in 1..MaxNumber : Usable(base, d, taken, <<d, r.name, n>>)}
<1>1. r.id \in Ids /\ r.name \in Names
  BY DEF ReadyRows, FileRows
<1>2. CASE Usable(base, d, taken, r.id)
  BY <1>1, <1>2 DEF Binding, MayBeIds
<1>3. CASE ~ Usable(base, d, taken, r.id) /\ free = {}
  BY <1>3 DEF Binding, MayBeIds
<1>4. CASE ~ Usable(base, d, taken, r.id) /\ free # {}
  <2>1. Min(free) \in free
    <3>1. free \in SUBSET Nat
      BY MissingAssumption
    <3> HIDE DEF free
    <3>2. \E n \in free : \A m \in free : n <= m
      BY <1>4, <3>1, LeastNumber
    <3> QED
      BY <3>2 DEF Min
  <2>2. Binding(base, d, taken, r) = <<d, r.name, Min(free)>>
    BY <1>4 DEF Binding
  <2> DEFINE m == Min(free)
  <2>3. m \in 1 .. MaxNumber /\ Usable(base, d, taken, <<d, r.name, m>>)
    BY <2>1
  <2> HIDE DEF m
  <2> QED
    BY <1>1, <2>2, <2>3, SlugIsId DEF MayBeIds, m
<1> QED
  BY <1>2, <1>3, <1>4

\* The rebinding of rows is defined for every list of them, one row at a time.
LEMMA RebindingSteps ==
    ASSUME NEW base, NEW d \in TransferDevices, NEW list \in Seq(ReadyRows)
    PROVE  /\ Rebinding(base, d, list) \in [0 .. Len(list) -> Seq(MayBeIds)]
           /\ Rebinding(base, d, list)[0] = <<>>
           /\ \A k \in 1 .. Len(list) :
                Rebinding(base, d, list)[k]
                  = Append(Rebinding(base, d, list)[k - 1],
                           Binding(base, d, ToSet(Rebinding(base, d, list)[k - 1]), list[k]))
<1> DEFINE T == Seq(MayBeIds)
           Then(ids, k) == Append(ids, Binding(base, d, ToSet(ids), list[k]))
           F == [k \in 1 .. Len(list) |-> [ids \in T |-> Then(ids, k)]]
           G == Rebinding(base, d, list)
<1>1. \A k \in 1 .. Len(list), ids \in T : Then(ids, k) \in T
  <2>1. \A k \in 1 .. Len(list) : list[k] \in ReadyRows
    OBVIOUS
  <2> QED
    BY <2>1, BindingType
<1> HIDE DEF Then
<1>2. F \in Steps(Len(list), T)
  <2> HIDE DEF T
  <2> QED
    BY <1>1 DEF Steps
<1>3. PICK f \in Paths(F, <<>>, Len(list), T) : TRUE
  <2>1. <<>> \in T /\ Len(list) \in Nat
    OBVIOUS
  <2> HIDE DEF T, F
  <2>2. Paths(F, <<>>, Len(list), T) # {}
    BY <1>2, <2>1, Recursion
  <2> QED
    BY <2>2
<1>4. f[0] = <<>> /\ \A k \in 1 .. Len(list) : f[k] = Then(f[k - 1], k)
  <2>1. Len(list) \in Nat
    OBVIOUS
  <2>2. \A k \in 1 .. Len(list) : f[k - 1] \in T
    BY <2>1 DEF Paths
  <2> HIDE DEF T
  <2> QED
    BY <2>2 DEF Paths
<1>5. f = [k \in 0 .. Len(list) |-> IF k = 0 THEN <<>> ELSE Then(f[k - 1], k)]
  <2>1. f = [k \in 0 .. Len(list) |-> f[k]]
    BY DEF Paths
  <2>2. \A k \in 0 .. Len(list) : f[k] = IF k = 0 THEN <<>> ELSE Then(f[k - 1], k)
    BY <1>4
  <2> QED
    BY <2>1, <2>2
<1>6. G = [k \in 0 .. Len(list) |-> IF k = 0 THEN <<>> ELSE Then(G[k - 1], k)]
  BY <1>5 DEF Rebinding, Then
<1> HIDE DEF G
<1>7. G[0] = <<>> /\ \A k \in 1 .. Len(list) : G[k] = Then(G[k - 1], k)
  <2>1. Len(list) \in Nat
    OBVIOUS
  <2>2. 0 \in 0 .. Len(list) /\ \A k \in 1 .. Len(list) : k \in 0 .. Len(list) /\ k # 0
    BY <2>1
  <2> QED
    BY <1>6, <2>2
<1>8. G \in [0 .. Len(list) -> T]
  <2> DEFINE S == {k \in 0 .. Len(list) : G[k] \in T}
  <2>1. Len(list) \in Nat /\ 0 \in S
    <3>1. <<>> \in T /\ Len(list) \in Nat
      OBVIOUS
    <3> HIDE DEF T
    <3> QED
      BY <1>7, <3>1
  <2>2. ASSUME NEW k \in 1 .. Len(list), k - 1 \in S PROVE k \in S
    <3> HIDE DEF T
    <3>1. G[k - 1] \in T /\ k \in 0 .. Len(list)
      BY <2>1, <2>2
    <3> QED
      BY <1>1, <1>7, <3>1
  <2>3. 0 .. Len(list) \subseteq S
    <3> HIDE DEF S
    <3> QED
      BY <2>1, <2>2, IntervalInduction
  <2> QED
    BY <1>6, <2>3
<1> QED
  BY <1>7, <1>8 DEF G, Then


\* Row k gets its id after those before it.
Bound(base, d, list, ids, k) == ids[k] = Binding(base, d, {ids[j] : j \in 1 .. k - 1}, list[k])

\* The ids of rows, one by one.
LEMMA ReboundIds ==
    ASSUME NEW base, NEW d \in TransferDevices, NEW list \in Seq(ReadyRows)
    PROVE  /\ Rebound(base, d, list) \in Seq(MayBeIds)
           /\ Len(Rebound(base, d, list)) = Len(list)
           /\ \A k \in 1 .. Len(list) : Bound(base, d, list, Rebound(base, d, list), k)
<1> DEFINE n == Len(list)
           G == Rebinding(base, d, list)
           S == {i \in 0 .. n : Len(G[i]) = i /\ \A k \in 1 .. i : Bound(base, d, list, G[i], k)}
<1>1. /\ n \in Nat /\ G \in [0 .. n -> Seq(MayBeIds)] /\ G[0] = <<>>
      /\ \A k \in 1 .. n : G[k] = Append(G[k - 1], Binding(base, d, ToSet(G[k - 1]), list[k]))
  <2>1. n \in Nat
    OBVIOUS
  <2>2. /\ G \in [0 .. n -> Seq(MayBeIds)] /\ G[0] = <<>>
        /\ \A k \in 1 .. n : G[k] = Append(G[k - 1], Binding(base, d, ToSet(G[k - 1]), list[k]))
    BY RebindingSteps, Zenon
  <2> QED
    BY <2>1, <2>2
<1> HIDE DEF n, G
<1>2. 0 \in S
  <2>1. Len(G[0]) = 0 /\ 0 \in 0 .. n
    BY <1>1
  <2> QED
    BY <2>1
<1>3. ASSUME NEW i \in 1 .. n, i - 1 \in S PROVE i \in S
  <2> DEFINE b == Binding(base, d, ToSet(G[i - 1]), list[i])
  <2>1. i - 1 \in 0 .. n /\ i \in 0 .. n /\ G[i - 1] \in Seq(MayBeIds)
        /\ Len(G[i - 1]) = i - 1 /\ G[i] = Append(G[i - 1], b)
    <3>1. i - 1 \in 0 .. n /\ i \in 0 .. n
      BY <1>1
    <3> QED
      BY <1>1, <1>3, <3>1
  <2>2. ToSet(G[i - 1]) = {G[i - 1][j] : j \in 1 .. i - 1}
    <3>1. DOMAIN G[i - 1] = 1 .. i - 1
      BY <2>1
    <3> QED
      BY <3>1 DEF ToSet
  <2> HIDE DEF b
  <2>3. Len(G[i]) = i /\ G[i][i] = b /\ \A j \in 1 .. i - 1 : G[i][j] = G[i - 1][j]
    BY <2>1
  <2>4. ASSUME NEW k \in 1 .. i PROVE Bound(base, d, list, G[i], k)
    <3>1. {G[i][j] : j \in 1 .. k - 1} = {G[i - 1][j] : j \in 1 .. k - 1}
      <4>1. \A j \in 1 .. k - 1 : j \in 1 .. i - 1
        BY <2>1
      <4> QED
        BY <2>3, <4>1
    <3>2. CASE k = i
      BY <2>2, <2>3, <3>1, <3>2 DEF b, Bound
    <3>3. CASE k # i
      <4>1. k \in 1 .. i - 1
        BY <3>3
      <4>2. Bound(base, d, list, G[i - 1], k)
        BY <1>3, <4>1
      <4> QED
        BY <2>3, <3>1, <4>1, <4>2 DEF Bound
    <3> QED
      BY <3>2, <3>3
  <2> QED
    BY <2>1, <2>3, <2>4
<1>4. 0 .. n \subseteq S
  <2> HIDE DEF S
  <2> QED
    BY <1>1, <1>2, <1>3, IntervalInduction
<1>5. n \in S /\ n \in 0 .. n
  <2> HIDE DEF S
  <2> QED
    BY <1>1, <1>4
<1>6. Rebound(base, d, list) = G[n]
  BY DEF Rebound, G, n
<1>7. G[n] \in Seq(MayBeIds) /\ Len(G[n]) = n /\ \A k \in 1 .. n : Bound(base, d, list, G[n], k)
  BY <1>1, <1>5
<1> QED
  BY <1>6, <1>7 DEF n

LEMMA ReboundRow ==
    ASSUME NEW base, NEW d \in TransferDevices, NEW list \in Seq(ReadyRows), NEW k \in 1 .. Len(list)
    PROVE  Bound(base, d, list, Rebound(base, d, list), k)
BY ReboundIds

\* Databases in which a device owns the same ids rebind rows alike.
LEMMA SameRebound ==
    ASSUME NEW db1, NEW db2, NEW d \in TransferDevices, NEW list \in Seq(ReadyRows),
           \A i \in Ids : Own(db1, d, i) <=> Own(db2, d, i)
    PROVE  Rebound(db1, d, list) = Rebound(db2, d, list)
<1> DEFINE n == Len(list)
           G1 == Rebinding(db1, d, list)
           G2 == Rebinding(db2, d, list)
           S == {i \in 0 .. n : G1[i] = G2[i]}
<1>1. ASSUME NEW taken, NEW r \in ReadyRows PROVE Binding(db1, d, taken, r) = Binding(db2, d, taken, r)
  <2>1. \A i \in Ids : Usable(db1, d, taken, i) = Usable(db2, d, taken, i)
    BY DEF Usable, Own
  <2>2. r.id \in Ids /\ r.name \in Names
    BY DEF ReadyRows, FileRows
  <2>3. {m \in 1..MaxNumber : Usable(db1, d, taken, <<d, r.name, m>>)}
          = {m \in 1..MaxNumber : Usable(db2, d, taken, <<d, r.name, m>>)}
    BY <2>1, <2>2, SlugIsId
  <2> QED
    BY <2>1, <2>2, <2>3 DEF Binding
<1>2. /\ n \in Nat /\ G1[0] = <<>> /\ G2[0] = <<>>
      /\ \A k \in 1 .. n : G1[k] = Append(G1[k - 1], Binding(db1, d, ToSet(G1[k - 1]), list[k]))
      /\ \A k \in 1 .. n : G2[k] = Append(G2[k - 1], Binding(db2, d, ToSet(G2[k - 1]), list[k]))
      /\ \A k \in 1 .. n : list[k] \in ReadyRows
  <2>1. n \in Nat /\ \A k \in 1 .. n : list[k] \in ReadyRows
    OBVIOUS
  <2>2. G1[0] = <<>> /\ \A k \in 1 .. n :
          G1[k] = Append(G1[k - 1], Binding(db1, d, ToSet(G1[k - 1]), list[k]))
    BY RebindingSteps
  <2>3. G2[0] = <<>> /\ \A k \in 1 .. n :
          G2[k] = Append(G2[k - 1], Binding(db2, d, ToSet(G2[k - 1]), list[k]))
    BY RebindingSteps
  <2> HIDE DEF n, G1, G2
  <2> QED
    BY <2>1, <2>2, <2>3
<1> HIDE DEF n, G1, G2
<1>3. 0 \in S
  BY <1>2
<1>4. ASSUME NEW i \in 1 .. n, i - 1 \in S PROVE i \in S
  <2>1. G1[i - 1] = G2[i - 1] /\ i \in 0 .. n
    BY <1>2, <1>4
  <2> QED
    BY <1>1, <1>2, <2>1
<1>5. 0 .. n \subseteq S /\ n \in 0 .. n
  <2>1. n \in Nat
    BY <1>2
  <2>2. 0 .. n \subseteq S
    <3> HIDE DEF S
    <3> QED
      BY <2>1, <1>3, <1>4, IntervalInduction
  <2> QED
    BY <2>1, <2>2
<1>6. Rebound(db1, d, list) = G1[n] /\ Rebound(db2, d, list) = G2[n]
  BY DEF Rebound, G1, G2, n
<1> QED
  BY <1>5, <1>6

\* What is saved under an id.
LEMMA SavedRow ==
    ASSUME NEW base, NEW d, NEW list, NEW ids, NEW k \in Nat, NEW i \in Ids
    PROVE  \/ /\ \A j \in 1 .. k : ids[j] # i
              /\ Saved(base, d, list, ids, k)[i] = base[i]
           \/ \E j \in 1 .. k : /\ ids[j] = i /\ \A l \in 1 .. k : ids[l] = i => l <= j
                                /\ Saved(base, d, list, ids, k)[i] = TagOf(d, list[j])
<1> DEFINE under == {j \in 1 .. k : ids[j] = i}
<1>1. Saved(base, d, list, ids, k)[i] = IF under = {} THEN base[i] ELSE TagOf(d, list[Max(under)])
  BY DEF Saved
<1>2. CASE under = {}
  BY <1>1, <1>2
<1>3. CASE under # {}
  <2>1. Max(under) \in under /\ \A l \in under : l <= Max(under)
    BY <1>3, LastPlace
  <2> QED
    BY <1>1, <1>3, <2>1
<1> QED
  BY <1>2, <1>3

\* An import that breaks off leaves each device the ids it may use.
LEMMA OwnAfter ==
    ASSUME NEW base, NEW d \in TransferDevices, NEW list \in Seq(ReadyRows),
           NEW k \in 0 .. Len(list), NEW i \in Ids
    PROVE  Own(Saved(base, d, list, Rebound(base, d, list), k), d, i) <=> Own(base, d, i)
<1> DEFINE ids == Rebound(base, d, list)
           new == Saved(base, d, list, ids, k)
<1>1. Len(list) \in Nat /\ k \in Nat /\ \A j \in 1 .. k : j \in 1 .. Len(list) /\ list[j] \in ReadyRows
  OBVIOUS
<1>2. CASE (\A j \in 1 .. k : ids[j] # i) /\ new[i] = base[i]
  BY <1>2 DEF Own
<1>3. CASE \E j \in 1 .. k : ids[j] = i /\ new[i] = TagOf(d, list[j])
  <2>1. PICK j \in 1 .. k : ids[j] = i /\ new[i] = TagOf(d, list[j])
    BY <1>3
  <2>2. ids[j] = Binding(base, d, {ids[l] : l \in 1 .. j - 1}, list[j])
    <3>1. j \in 1 .. Len(list)
      BY <1>1
    <3>2. Bound(base, d, list, Rebound(base, d, list), j)
      BY <3>1, ReboundRow
    <3> QED
      BY <3>2 DEF Bound
  <2> HIDE DEF ids, new
  <2>3. ids[j] # Missing
    BY <2>1, MissingAssumption
  <2>4. Own(base, d, i)
    BY <1>1, <2>1, <2>2, <2>3, BindingType DEF Usable, Own
  <2>5. Own(new, d, i)
    BY <2>1 DEF Own, TagOf
  <2> QED
    BY <2>4, <2>5 DEF new, ids
<1> QED
  <2>1. \/ (\A j \in 1 .. k : ids[j] # i) /\ new[i] = base[i]
        \/ \E j \in 1 .. k : ids[j] = i /\ new[i] = TagOf(d, list[j])
    <3> HIDE DEF ids
    <3> QED
      BY <1>1, SavedRow
  <2> QED
    BY <1>2, <1>3, <2>1

\* Saving all rows over some of them gives what saving all of them at once gives.
LEMMA SavedOver ==
    ASSUME NEW base, NEW d, NEW list, NEW ids, NEW n \in Nat, NEW k \in 0 .. n
    PROVE  Saved(Saved(base, d, list, ids, k), d, list, ids, n) = Saved(base, d, list, ids, n)
<1> DEFINE part == Saved(base, d, list, ids, k)
<1>1. ASSUME NEW i \in Ids, {j \in 1 .. n : ids[j] = i} = {} PROVE part[i] = base[i]
  <2>1. {j \in 1 .. k : ids[j] = i} = {}
    BY <1>1
  <2> QED
    BY <2>1 DEF Saved
<1> HIDE DEF part
<1>2. Saved(part, d, list, ids, n) = Saved(base, d, list, ids, n)
  BY <1>1 DEF Saved
<1> QED
  BY <1>2 DEF part

-----------------------------------------------------------------------------
(* Transfer: the state. *)

\* The inductive invariant.  Only finitely many ids are in use.
Existing(base) == {i \in Ids : base[i] # Missing}
TransferInv ==
    /\ devices \in [TransferDevices -> TransferChannels \union {Missing}]
    /\ tags \in [Ids -> TagContents \union {Missing}]
    /\ \A i \in Ids : tags[i] # Missing => devices[tags[i].device] # Missing
    /\ IsFiniteSet(Existing(tags))
    /\ file # Missing => file \in TagFiles

LEMMA RetryFromInv == TransferInv => RetryCompletes
<1> SUFFICES ASSUME TransferInv, file # Missing, NEW d \in TransferDevices, NEW k \in 0..Len(file.rows)
             PROVE  TagImport(TagImport(tags, file, d, k), file, d, Len(file.rows))
                      = TagImport(tags, file, d, Len(file.rows))
  BY DEF RetryCompletes
<1> DEFINE list == Prepared(file, d)
           ids == Rebound(tags, d, list)
           n == Len(file.rows)
           part == Saved(tags, d, list, ids, k)
<1>1. list \in Seq(ReadyRows) /\ Len(list) = n /\ n \in Nat
  BY PreparedRows DEF TransferInv
<1>2. TagImport(tags, file, d, k) = part /\ TagImport(tags, file, d, n) = Saved(tags, d, list, ids, n)
  BY DEF TagImport
<1>3. TagImport(part, file, d, n) = Saved(part, d, list, Rebound(part, d, list), n)
  BY DEF TagImport
<1> HIDE DEF list, n
<1>4. \A i \in Ids : Own(part, d, i) <=> Own(tags, d, i)
  <2>1. k \in 0 .. Len(list)
    BY <1>1 DEF n
  <2> QED
    BY <1>1, <2>1, OwnAfter
<1>5. Rebound(part, d, list) = ids
  <2> HIDE DEF part
  <2> QED
    BY <1>1, <1>4, SameRebound
<1>6. Saved(part, d, list, ids, n) = Saved(tags, d, list, ids, n)
  <2> HIDE DEF ids
  <2> QED
    BY <1>1, SavedOver DEF n
<1> QED
  BY <1>2, <1>3, <1>5, <1>6 DEF n

LEMMA TransferInitInv == TransferInit => TransferInv
<1> SUFFICES ASSUME TransferInit PROVE TransferInv
  OBVIOUS
<1>1. Existing(tags) = {}
  BY DEF TransferInit, Existing
<1>2. IsFiniteSet(Existing(tags))
  BY <1>1, FS_EmptySet
<1> QED
  BY <1>2, HandMadeAssumption DEF TransferInit, TransferInv

\* A tag that is written under one id.
LEMMA WrittenInv ==
    ASSUME TransferInv, NEW i \in Ids, NEW t \in TagContents, devices[t.device] # Missing,
           tags' = [tags EXCEPT ![i] = t], UNCHANGED <<devices, file>>
    PROVE  TransferInv'
<1>1. Existing(tags') \subseteq Existing(tags) \union {i}
  BY DEF Existing, TransferInv
<1>2. IsFiniteSet(Existing(tags'))
  <2>1. IsFiniteSet(Existing(tags) \union {i})
    BY FS_AddElement DEF TransferInv
  <2> QED
    BY <1>1, <2>1, FS_Subset
<1> QED
  BY <1>2 DEF TransferInv, Existing

LEMMA CreateTagInv ==
    ASSUME TransferInv, NEW t \in TagContents, CreateTag(t.device, t)
    PROVE  TransferInv'
<1> DEFINE free == {n \in 1..MaxNumber : tags[<<Missing, t.name, n>>] = Missing}
           i == <<Missing, t.name, Min(free)>>
<1>1. free # {} /\ tags' = [tags EXCEPT ![i] = t] /\ devices[t.device] # Missing
      /\ UNCHANGED <<devices, file>>
  BY DEF CreateTag
<1>2. Min(free) \in 1 .. MaxNumber
  <2>1. free \in SUBSET Nat
    BY MissingAssumption
  <2>2. \E n \in free : \A m \in free : n <= m
    <3> HIDE DEF free
    <3> QED
      BY <1>1, <2>1, LeastNumber
  <2>3. Min(free) \in free
    <3> HIDE DEF free
    <3> QED
      BY <2>2 DEF Min
  <2> QED
    BY <2>3
<1> HIDE DEF free
<1>3. i \in Ids
  BY <1>2 DEF Ids, TagContents
<1> HIDE DEF i
<1> QED
  BY <1>1, <1>3, WrittenInv

LEMMA EditTagInv ==
    ASSUME TransferInv, NEW i \in Ids, NEW t \in TagContents, EditTag(i, t)
    PROVE  TransferInv'
<1>1. tags[i] # Missing /\ t.device = tags[i].device
      /\ tags' = [tags EXCEPT ![i] = t] /\ UNCHANGED <<devices, file>>
  BY DEF EditTag
<1>2. devices[t.device] # Missing
  BY <1>1 DEF TransferInv
<1> QED
  BY <1>1, <1>2, WrittenInv

LEMMA DeleteDeviceInv ==
    ASSUME TransferInv, NEW d \in TransferDevices, DeleteDevice(d)
    PROVE  TransferInv'
<1>1. /\ devices' = [devices EXCEPT ![d] = Missing]
      /\ tags' = [i \in Ids |-> IF i \in TagsIn(d) THEN Missing ELSE tags[i]]
      /\ file' = file
  BY DEF DeleteDevice
<1>2. Existing(tags') \subseteq Existing(tags)
  BY <1>1 DEF Existing
<1>3. IsFiniteSet(Existing(tags'))
  BY <1>2, FS_Subset DEF TransferInv
<1>4. tags' \in [Ids -> TagContents \union {Missing}]
  BY <1>1 DEF TransferInv
<1>5. ASSUME NEW i \in Ids, tags'[i] # Missing PROVE devices'[tags'[i].device] # Missing
  <2>1. tags'[i] = tags[i] /\ tags[i].device # d /\ devices[tags[i].device] # Missing
    BY <1>1, <1>5 DEF TransferInv, TagsIn
  <2>2. tags[i] \in TagContents
    BY <1>5, <2>1 DEF TransferInv
  <2>3. tags[i].device \in TransferDevices
    BY <2>2 DEF TagContents
  <2> QED
    BY <1>1, <2>1, <2>3 DEF TransferInv
<1>6. devices' \in [TransferDevices -> TransferChannels \union {Missing}]
  BY <1>1 DEF TransferInv
<1> QED
  BY <1>1, <1>3, <1>4, <1>5, <1>6 DEF TransferInv, Existing

\* An export lists the tags of the device.
LEMMA ExportTagsInv ==
    ASSUME TransferInv, NEW d \in TransferDevices, NEW format \in {"csv", "json", "bundle"},
           ExportTags(d, format)
    PROVE  TransferInv'
<1> DEFINE ids == SetToSeq(TagsIn(d))
           Row(i) == IF format = "csv" THEN CsvRow(i) ELSE JsonRow(i)
           list == [k \in DOMAIN ids |-> Row(ids[k])]
           n == Cardinality(TagsIn(d))
<1>1. n \in Nat /\ ids \in [1 .. n -> TagsIn(d)]
  <2>1. TagsIn(d) \subseteq Existing(tags)
    BY DEF TagsIn, Existing
  <2>2. IsFiniteSet(TagsIn(d))
    BY <2>1, FS_Subset DEF TransferInv
  <2>3. n \in Nat /\ ExistsBijection(1 .. n, TagsIn(d))
    BY <2>2, FS_CardinalityType
  <2>4. \E f \in [1 .. n -> TagsIn(d)] : IsInjective(f)
    BY <2>3 DEF ExistsBijection, Bijection, Injection
  <2> QED
    BY <2>3, <2>4 DEF SetToSeq
<1>2. ASSUME NEW i \in TagsIn(d) PROVE Row(i) \in FileRows
  <2>1. tags[i] \in TagContents /\ i \in Ids
    BY DEF TagsIn, TransferInv
  <2>2. JsonRow(i) \in FileRows
    BY <2>1 DEF JsonRow, FileRows, TagContents
  <2>3. Neutral[tags[i].text] \in Texts
    BY <2>1, NeutralAssumption DEF TagContents
  <2>4. CsvRow(i) \in FileRows
    BY <2>2, <2>3 DEF CsvRow, JsonRow, FileRows
  <2> QED
    BY <2>2, <2>4
<1> HIDE DEF ids, n, Row
<1>3. list \in Seq(FileRows)
  <2>1. list \in [1 .. n -> FileRows]
    BY <1>1, <1>2
  <2> QED
    BY <1>1, <2>1
<1>4. /\ devices[d] # Missing /\ UNCHANGED <<devices, tags>>
      /\ file' = [format |-> format, device |-> d, channel |-> devices[d], rows |-> list]
  BY DEF ExportTags, ids, Row
<1>5. devices[d] \in TransferChannels
  BY <1>4 DEF TransferInv
<1> HIDE DEF list
<1>6. file' \in TagFiles
  BY <1>3, <1>4, <1>5 DEF TagFiles
<1> QED
  BY <1>4, <1>6 DEF TransferInv, Existing

LEMMA EndsWithin ==
    ASSUME NEW f \in TagFiles, NEW k \in Ends(f)
    PROVE  k \in 0 .. Len(f.rows)
<1> DEFINE bad == {j \in DOMAIN f.rows : ~f.rows[j].valid}
<1>1. DOMAIN f.rows = 1 .. Len(f.rows) /\ Len(f.rows) \in Nat
  BY PreparedRows DEF TagFiles
<1>2. CASE ~ AllValid(f) /\ f.format = "json"
  <2>1. bad # {} /\ bad \in SUBSET Nat
    BY <1>1, <1>2 DEF AllValid
  <2>2. Min(bad) \in bad
    <3> HIDE DEF bad
    <3>1. \E m \in bad : \A j \in bad : m <= j
      BY <2>1, LeastNumber
    <3> QED
      BY <3>1 DEF Min
  <2>3. k \in 0 .. (Min(bad) - 1)
    BY <1>2 DEF Ends
  <2>4. Min(bad) \in 1 .. Len(f.rows)
    BY <1>1, <2>2
  <2> HIDE DEF bad
  <2> QED
    BY <1>1, <2>3, <2>4
<1>3. CASE ~ (~ AllValid(f) /\ f.format = "json")
  BY <1>1, <1>3 DEF Ends
<1> QED
  BY <1>2, <1>3

LEMMA RowContent ==
    ASSUME NEW d \in TransferDevices, NEW r \in FileRows
    PROVE  TagOf(d, r) \in TagContents /\ TagOf(d, r) # Missing /\ TagOf(d, r).device = d
<1>1. TagOf(d, r) \in TagContents /\ TagOf(d, r).device = d
  BY DEF TagOf, TagContents, FileRows
<1> QED
  BY <1>1, MissingAssumption

LEMMA SavedInv ==
    ASSUME TransferInv, NEW d \in TransferDevices, NEW list, NEW ids, NEW k \in Nat,
           \A j \in 1 .. k : list[j] \in FileRows,
           tags' = Saved(tags, d, list, ids, k), file' = file,
           devices' \in [TransferDevices -> TransferChannels \union {Missing}],
           devices'[d] # Missing,
           \A e \in TransferDevices : devices[e] # Missing => devices'[e] # Missing
    PROVE  TransferInv'
<1> DEFINE used == {ids[j] : j \in 1 .. k}
<1>1. IsFiniteSet(used)
  <2> DEFINE f == [j \in 1 .. k |-> ids[j]]
  <2>1. f \in Surjection(1 .. k, used)
    BY DEF Surjection
  <2>2. IsFiniteSet(1 .. k)
    BY FS_Interval
  <2> HIDE DEF f, used
  <2> QED
    BY <2>1, <2>2, FS_Surjection
<1>2. ASSUME NEW i \in Ids
      PROVE  /\ tags'[i] \in TagContents \union {Missing}
             /\ tags'[i] # Missing => devices'[tags'[i].device] # Missing
             /\ tags'[i] # Missing => i \in Existing(tags) \/ i \in used
  <2>1. \/ tags'[i] = tags[i]
        \/ \E j \in 1 .. k : ids[j] = i /\ tags'[i] = TagOf(d, list[j])
    BY SavedRow
  <2>2. CASE tags'[i] = tags[i]
    <3>1. tags[i] # Missing => tags[i].device \in TransferDevices /\ devices[tags[i].device] # Missing
      BY DEF TransferInv, TagContents
    <3> QED
      BY <2>2, <3>1 DEF TransferInv, Existing
  <2>3. CASE \E j \in 1 .. k : ids[j] = i /\ tags'[i] = TagOf(d, list[j])
    <3>1. PICK j \in 1 .. k : ids[j] = i /\ tags'[i] = TagOf(d, list[j])
      BY <2>3
    <3>2. tags'[i] \in TagContents /\ tags'[i].device = d
      BY <3>1, RowContent
    <3> QED
      BY <3>1, <3>2
  <2> QED
    BY <2>1, <2>2, <2>3
<1>3. IsFiniteSet(Existing(tags'))
  <2>1. Existing(tags') \subseteq Existing(tags) \union used
    BY <1>2 DEF Existing
  <2> HIDE DEF used
  <2>2. IsFiniteSet(Existing(tags) \union used)
    BY <1>1, FS_Union DEF TransferInv
  <2> QED
    BY <2>1, <2>2, FS_Subset
<1>4. tags' \in [Ids -> TagContents \union {Missing}]
  <2>1. tags' = [i \in Ids |-> tags'[i]]
    BY DEF Saved
  <2> QED
    BY <1>2, <2>1
<1> QED
  BY <1>2, <1>3, <1>4 DEF TransferInv, Existing

LEMMA ImportTagsInv ==
    ASSUME TransferInv, NEW d \in TransferDevices, NEW k, ImportTags(d, k)
    PROVE  TransferInv'
<1> DEFINE list == Prepared(file, d)
           ids == Rebound(tags, d, list)
<1>1. /\ devices[d] # Missing /\ file \in TagFiles /\ k \in Ends(file) /\ UNCHANGED <<devices, file>>
      /\ tags' = Saved(tags, d, list, ids, k)
  BY DEF ImportTags, TagImport, TransferInv
<1>2. k \in 0 .. Len(file.rows)
  BY <1>1, EndsWithin
<1>3. k \in Nat /\ \A j \in 1 .. k : list[j] \in FileRows
  <2>1. list \in Seq(ReadyRows) /\ Len(list) = Len(file.rows) /\ Len(file.rows) \in Nat
    BY <1>1, PreparedRows
  <2> HIDE DEF list
  <2>2. \A j \in 1 .. k : j \in 1 .. Len(list)
    BY <1>2, <2>1
  <2>3. \A j \in 1 .. Len(list) : list[j] \in ReadyRows
    BY <2>1
  <2> QED
    BY <1>2, <2>1, <2>2, <2>3 DEF ReadyRows
<1> HIDE DEF list, ids
<1> QED
  BY <1>1, <1>3, SavedInv DEF TransferInv

LEMMA ImportDeviceInv ==
    ASSUME TransferInv, NEW c \in TransferChannels, NEW k, ImportDevice(c, k)
    PROVE  TransferInv'
<1> DEFINE d == file.device
           list == file.rows
           ids == [j \in DOMAIN file.rows |-> file.rows[j].id]
<1>1. /\ file \in TagFiles /\ k \in Ends(file) /\ file' = file
      /\ devices' = [devices EXCEPT ![d] = c]
      /\ tags' = Saved(tags, d, list, ids, k)
  BY DEF ImportDevice, TransferInv
<1>2. d \in TransferDevices /\ list \in Seq(FileRows)
  BY <1>1 DEF TagFiles
<1>3. k \in 0 .. Len(list)
  BY <1>1, EndsWithin
<1>4. k \in Nat /\ \A j \in 1 .. k : list[j] \in FileRows
  <2> HIDE DEF list
  <2>1. Len(list) \in Nat
    BY <1>2
  <2>2. \A j \in 1 .. k : j \in 1 .. Len(list)
    BY <1>3, <2>1
  <2> QED
    BY <1>2, <1>3, <2>1, <2>2
<1>5. /\ devices' \in [TransferDevices -> TransferChannels \union {Missing}] /\ devices'[d] # Missing
      /\ \A e \in TransferDevices : devices[e] # Missing => devices'[e] # Missing
  BY <1>1, <1>2, MissingAssumption DEF TransferInv
<1> HIDE DEF d, list, ids
<1> QED
  BY <1>1, <1>2, <1>4, <1>5, SavedInv

LEMMA TransferNextInv == TransferInv /\ [TransferNext]_transferVars => TransferInv'
<1> SUFFICES ASSUME TransferInv, [TransferNext]_transferVars PROVE TransferInv'
  OBVIOUS
<1>1. CASE \E t \in TagContents : CreateTag(t.device, t)
  BY <1>1, CreateTagInv
<1>2. CASE \E t \in TagContents, i \in Ids : EditTag(i, t)
  BY <1>2, EditTagInv
<1>3. CASE \E d \in TransferDevices : DeleteDevice(d)
  BY <1>3, DeleteDeviceInv
<1>4. CASE \E d \in TransferDevices : ExportDevice(d)
  BY <1>4, ExportTagsInv DEF ExportDevice
<1>5. CASE \E d \in TransferDevices, format \in {"csv", "json"} : ExportTags(d, format)
  BY <1>5, ExportTagsInv
<1>6. CASE \E d \in TransferDevices, k \in 0..MaxNumber : ImportTags(d, k)
  BY <1>6, ImportTagsInv
<1>7. CASE \E c \in TransferChannels, k \in 0..MaxNumber : ImportDevice(c, k)
  BY <1>7, ImportDeviceInv
<1>8. CASE UNCHANGED transferVars
  BY <1>8 DEF transferVars, TransferInv, Existing
<1> QED
  BY <1>1, <1>2, <1>3, <1>4, <1>5, <1>6, <1>7, <1>8 DEF TransferNext

LEMMA TransferInvariant == TransferSpec => []TransferInv
<1> QED
  BY TransferInitInv, TransferNextInv, PTL DEF TransferSpec

\* transfer.ts, rebindImportedTags: an import that has broken off, or been
\* answered too late, may be repeated whatever was edited, exported or imported
\* before it, and ends in the same tags as one that went through.
THEOREM RetryAlwaysCompletes == TransferSpec => []RetryCompletes
<1> QED
  BY TransferInvariant, RetryFromInv, PTL

\* The rows of an import that ends arrive under as many ids.
LEMMA RowsArrive ==
    ASSUME TransferInv, NEW d \in TransferDevices, ImportTags(d, Len(file.rows)),
           NEW k \in DOMAIN file.rows
    PROVE  LET content == TagOf(d, file.rows[k])
           IN  Cardinality({j \in DOMAIN file.rows : TagOf(d, file.rows[j]) = content})
                  <= Cardinality({i \in Ids : tags'[i] = content})
<1> DEFINE list == Prepared(file, d)
           ids == Rebound(tags, d, list)
           n == Len(file.rows)
           content == TagOf(d, file.rows[k])
           J == {j \in DOMAIN file.rows : TagOf(d, file.rows[j]) = content}
           I == {i \in Ids : tags'[i] = content}
<1>1. /\ file \in TagFiles /\ tags' = Saved(tags, d, list, ids, n)
      /\ \A j \in DOMAIN file.rows : ids[j] # Missing
  BY DEF ImportTags, TagImport, TransferInv
<1>2. /\ list \in Seq(ReadyRows) /\ Len(list) = n /\ n \in Nat /\ DOMAIN file.rows = 1 .. n
      /\ \A j \in 1 .. n : TagOf(d, list[j]) = TagOf(d, file.rows[j])
  BY <1>1, PreparedRows
<1>3. ASSUME NEW j \in 1 .. n PROVE ids[j] \in Ids /\ ids[j] \notin {ids[l] : l \in 1 .. j - 1}
  <2>1. Bound(tags, d, list, ids, j) /\ list[j] \in ReadyRows
    <3>1. j \in 1 .. Len(list)
      BY <1>2
    <3> HIDE DEF list
    <3>2. Bound(tags, d, list, Rebound(tags, d, list), j)
      BY <1>2, <3>1, ReboundRow
    <3> QED
      BY <1>2, <3>1, <3>2
  <2>2. ids[j] # Missing
    BY <1>1, <1>2
  <2> DEFINE taken == {ids[l] : l \in 1 .. j - 1}
  <2>3. ids[j] = Binding(tags, d, taken, list[j])
    BY <2>1 DEF Bound
  <2> HIDE DEF ids, list, taken
  <2>4. Binding(tags, d, taken, list[j]) \in MayBeIds /\ Usable(tags, d, taken, Binding(tags, d, taken, list[j]))
    BY <2>1, <2>2, <2>3, BindingType
  <2>5. ids[j] \notin taken /\ ids[j] \in Ids
    BY <2>2, <2>3, <2>4 DEF Usable, MayBeIds
  <2> QED
    BY <2>5 DEF taken
<1> HIDE DEF ids, list, n
<1>4. ASSUME NEW j \in 1 .. n, NEW l \in 1 .. n, ids[j] = ids[l] PROVE j = l
  <2>1. n \in Nat /\ (j < l => j \in 1 .. l - 1) /\ (l < j => l \in 1 .. j - 1)
    BY <1>2
  <2> QED
    BY <1>3, <1>4, <2>1
<1>5. ASSUME NEW j \in 1 .. n PROVE tags'[ids[j]] = TagOf(d, list[j])
  <2>1. PICK l \in 1 .. n : ids[l] = ids[j] /\ Saved(tags, d, list, ids, n)[ids[j]] = TagOf(d, list[l])
    <3>1. ids[j] \in Ids /\ n \in Nat
      BY <1>2, <1>3
    <3> DEFINE i == ids[j]
               s == Saved(tags, d, list, ids, n)
    <3>2. \/ \A m \in 1 .. n : ids[m] # i
          \/ \E l \in 1 .. n : ids[l] = i /\ s[i] = TagOf(d, list[l])
      <4> HIDE DEF i
      <4>1. i \in Ids
        BY <3>1 DEF i
      <4> QED
        BY <3>1, <4>1, SavedRow
    <3>3. ids[j] = i
      OBVIOUS
    <3> HIDE DEF i, s
    <3>4. \E l \in 1 .. n : ids[l] = i /\ s[i] = TagOf(d, list[l])
      BY <3>2, <3>3
    <3> QED
      BY <3>4 DEF i, s
  <2>2. l = j
    BY <1>4, <2>1
  <2> QED
    BY <1>1, <2>1, <2>2
<1>6. IsFiniteSet(I)
  <2>1. content # Missing
    <3>1. file.rows[k] \in FileRows
      BY <1>1, <1>2 DEF TagFiles
    <3> QED
      BY <3>1, RowContent
  <2>2. I \subseteq Existing(tags')
    BY <2>1 DEF Existing
  <2>3. IsFiniteSet(Existing(tags'))
    BY ImportTagsInv DEF TransferInv
  <2> QED
    BY <2>2, <2>3, FS_Subset
<1> DEFINE f == [j \in J |-> ids[j]]
<1>7. f \in Injection(J, I)
  <2>1. \A j \in J : j \in 1 .. n /\ TagOf(d, list[j]) = content
    BY <1>2
  <2>2. f \in [J -> I]
    BY <1>3, <1>5, <2>1
  <2>3. IsInjective(f)
    BY <1>4, <2>1 DEF IsInjective
  <2> QED
    BY <2>2, <2>3 DEF Injection
<1>8. Cardinality(J) <= Cardinality(I)
  <2> HIDE DEF f, J, I
  <2> QED
    BY <1>6, <1>7, FS_Injection
<1> QED
  BY <1>8

\* transfer.ts, rebindImportedTags and POST /api/tags/import: an import that is
\* not cut short loses no row to another one, nor to a tag that was there.
THEOREM ImportsKeepEveryRow == TransferSpec => EveryRowArrives
<1>1. TransferInv /\ [TransferNext]_transferVars =>
        [\A d \in TransferDevices : ImportTags(d, Len(file.rows)) =>
           \A k \in DOMAIN file.rows :
             LET content == TagOf(d, file.rows[k])
             IN  Cardinality({j \in DOMAIN file.rows : TagOf(d, file.rows[j]) = content})
                    <= Cardinality({i \in Ids : tags'[i] = content})]_transferVars
  BY RowsArrive
<1> QED
  BY <1>1, TransferInvariant, PTL DEF TransferSpec, EveryRowArrives

-----------------------------------------------------------------------------
(* Csv: texts and their parts. *)

Letters == Chars \union {"'"}

\* The text t holds s after the position p.
Holds(t, p, s) == p \in Nat /\ p + Len(s) <= Len(t) /\ \A k \in 1 .. Len(s) : t[p + k] = s[k]

\* s is the concatenation of ss, and o the places in it after which its parts begin.
Parts(ss, o, s) ==
    /\ o \in [0 .. Len(ss) -> Nat] /\ o[0] = 0 /\ o[Len(ss)] = Len(s)
    /\ \A i \in 1 .. Len(ss) : /\ o[i] = o[i - 1] + Len(ss[i]) /\ o[i] <= Len(s)
                               /\ \A k \in 1 .. Len(ss[i]) : s[o[i - 1] + k] = ss[i][k]

LEMMA ConcatPlaces ==
    ASSUME NEW T, NEW a \in Seq(T), NEW b \in Seq(T)
    PROVE  /\ a \o b \in Seq(T) /\ Len(a) \in Nat /\ Len(b) \in Nat /\ Len(a \o b) = Len(a) + Len(b)
           /\ \A x \in 1 .. Len(a) : (a \o b)[x] = a[x]
           /\ \A x \in 1 .. Len(b) : (a \o b)[Len(a) + x] = b[x]
OBVIOUS

LEMMA OneLetter ==
    ASSUME NEW T, NEW c \in T
    PROVE  <<c>> \in Seq(T) /\ Len(<<c>>) = 1 /\ <<c>>[1] = c
OBVIOUS

LEMMA NoLetters ==
    ASSUME NEW T
    PROVE  <<>> \in Seq(T) /\ Len(<<>>) = 0
OBVIOUS

LEMMA FunctionIsSeq ==
    ASSUME NEW T, NEW n \in Nat, NEW s \in [1 .. n -> T]
    PROVE  s \in Seq(T) /\ Len(s) = n
OBVIOUS

\* FlattenSeq one part at a time.
Flattening(G, ss, T) ==
    /\ G \in [0 .. Len(ss) -> Seq(T)] /\ G[0] = <<>> /\ G[Len(ss)] = FlattenSeq(ss)
    /\ \A i \in 1 .. Len(ss) : G[i] = G[i - 1] \o ss[i]

LEMMA FlattenSteps ==
    ASSUME NEW T, NEW ss \in Seq(Seq(T))
    PROVE  \E G : Flattening(G, ss, T)
<1> DEFINE n == Len(ss)
           U == Seq(T)
           F == [i \in 1 .. n |-> [u \in U |-> u \o ss[i]]]
<1>1. n \in Nat /\ \A i \in 1 .. n : ss[i] \in U
  OBVIOUS
<1>2. F \in Steps(n, U)
  <2>1. \A i \in 1 .. n, u \in U : u \o ss[i] \in U
    BY <1>1
  <2> HIDE DEF n, U
  <2> QED
    BY <2>1 DEF Steps
<1>3. PICK f \in Paths(F, <<>>, n, U) : TRUE
  <2>1. <<>> \in U
    OBVIOUS
  <2> HIDE DEF U, F, n
  <2>2. Paths(F, <<>>, n, U) # {}
    BY <1>1, <1>2, <2>1, Recursion
  <2> QED
    BY <2>2
<1>4. f \in [0 .. n -> U] /\ f[0] = <<>> /\ \A i \in 1 .. n : f[i] = f[i - 1] \o ss[i]
  <2>1. f \in [0 .. n -> U] /\ f[0] = <<>> /\ \A i \in 1 .. n : f[i] = F[i][f[i - 1]]
    BY DEF Paths
  <2> HIDE DEF U, n
  <2>2. \A i \in 1 .. n : f[i - 1] \in U
    <3>1. \A i \in 1 .. n : i - 1 \in 0 .. n
      BY <1>1
    <3> QED
      BY <2>1, <3>1
  <2> QED
    BY <2>1, <2>2
<1> HIDE DEF F
<1>5. CASE n = 0
  <2>1. ss = <<>>
    BY <1>5
  <2>2. FlattenSeq(ss) = <<>>
    BY <2>1 DEF FlattenSeq
  <2> QED
    BY <1>4, <1>5, <2>2 DEF Flattening
<1>6. CASE n # 0
  <2> DEFINE g == [i \in 1 .. n |-> f[i]]
             Eq(h) == h = [i \in 1 .. n |-> IF i = 1 THEN ss[i] ELSE h[i - 1] \o ss[i]]
             H == CHOOSE h : Eq(h)
  <2>1. f[1] = ss[1]
    <3>1. 1 \in 1 .. n /\ f[0] = <<>> /\ ss[1] \in Seq(T)
      BY <1>1, <1>4, <1>6
    <3>2. f[1] = f[0] \o ss[1]
      BY <1>4, <3>1
    <3> QED
      BY <3>1, <3>2
  <2>2. \A i \in 1 .. n : i # 1 => i - 1 \in 1 .. n
    BY <1>1
  <2>3. Eq(g)
    <3> HIDE DEF n
    <3> QED
      BY <1>4, <2>1, <2>2
  <2>4. Eq(H)
    <3> HIDE DEF g, Eq
    <3> QED
      BY <2>3
  <2>5. FlattenSeq(ss) = H[n]
    BY <1>6 DEF FlattenSeq
  <2> HIDE DEF H
  <2>6. \A i \in 1 .. n : H[i] = IF i = 1 THEN ss[i] ELSE H[i - 1] \o ss[i]
    BY <2>4
  <2> DEFINE S == {i \in 0 .. n : i # 0 => H[i] = f[i]}
  <2>7. 0 \in S
    BY <1>1
  <2>8. ASSUME NEW i \in 1 .. n, i - 1 \in S PROVE i \in S
    <3>1. i \in 0 .. n /\ (i # 1 => i - 1 # 0)
      BY <1>1
    <3> QED
      BY <1>4, <2>1, <2>6, <2>8, <3>1
  <2>9. n \in S
    <3> HIDE DEF S, n
    <3>1. 0 .. n \subseteq S
      BY <1>1, <2>7, <2>8, IntervalInduction
    <3> QED
      BY <1>1, <3>1
  <2> QED
    BY <1>4, <1>6, <2>5, <2>9 DEF Flattening
<1> QED
  BY <1>5, <1>6

LEMMA FlattenParts ==
    ASSUME NEW T, NEW ss \in Seq(Seq(T))
    PROVE  FlattenSeq(ss) \in Seq(T) /\ \E o : Parts(ss, o, FlattenSeq(ss))
<1> DEFINE n == Len(ss)
<1>1. PICK G : Flattening(G, ss, T)
  BY FlattenSteps
<1>2. /\ n \in Nat /\ \A i \in 1 .. n : ss[i] \in Seq(T) /\ Len(ss[i]) \in Nat
      /\ G \in [0 .. n -> Seq(T)] /\ G[0] = <<>> /\ G[n] = FlattenSeq(ss)
      /\ \A i \in 1 .. n : i - 1 \in 0 .. n /\ i \in 0 .. n /\ G[i] = G[i - 1] \o ss[i]
  BY <1>1 DEF Flattening
<1> DEFINE o == [i \in 0 .. n |-> Len(G[i])]
<1>3. o \in [0 .. n -> Nat] /\ o[0] = 0 /\ o[n] = Len(FlattenSeq(ss))
  <2>1. \A i \in 0 .. n : Len(G[i]) \in Nat
    BY <1>2
  <2>2. Len(G[0]) = 0 /\ 0 \in 0 .. n /\ n \in 0 .. n
    BY <1>2
  <2> HIDE DEF n
  <2> QED
    BY <1>2, <2>1, <2>2
<1>4. \A i \in 1 .. n : o[i] = o[i - 1] + Len(ss[i])
  <2> TAKE i \in 1 .. n
  <2>1. G[i - 1] \in Seq(T) /\ ss[i] \in Seq(T) /\ G[i] = G[i - 1] \o ss[i] /\ i \in 0 .. n /\ i - 1 \in 0 .. n
    BY <1>2
  <2>2. Len(G[i]) = Len(G[i - 1]) + Len(ss[i])
    BY <2>1
  <2> HIDE DEF n
  <2> QED
    BY <2>1, <2>2
<1> DEFINE Placed(i, m) == /\ o[m] <= Len(G[i])
                           /\ \A k \in 1 .. Len(ss[m]) : G[i][o[m - 1] + k] = ss[m][k]
           S == {i \in 0 .. n : \A m \in 1 .. i : Placed(i, m)}
<1>5. 0 \in S
  BY <1>2
<1>6. ASSUME NEW i \in 1 .. n, i - 1 \in S PROVE i \in S
  <2>1. /\ i \in 0 .. n /\ i - 1 \in 0 .. n /\ i \in Nat
        /\ o[i] = Len(G[i]) /\ o[i - 1] = Len(G[i - 1])
        /\ G[i - 1] \in Seq(T) /\ ss[i] \in Seq(T) /\ G[i] = G[i - 1] \o ss[i]
    <3>1. i \in 0 .. n /\ i - 1 \in 0 .. n /\ i \in Nat
      BY <1>2
    <3>2. o[i] = Len(G[i]) /\ o[i - 1] = Len(G[i - 1])
      <4> HIDE DEF n
      <4> QED
        BY <3>1
    <3> HIDE DEF n, o
    <3> QED
      BY <1>2, <3>1, <3>2
  <2>3. /\ Len(G[i - 1]) \in Nat /\ Len(ss[i]) \in Nat /\ Len(G[i]) = Len(G[i - 1]) + Len(ss[i])
        /\ Len(G[i]) \in Nat /\ Len(G[i - 1]) <= Len(G[i])
        /\ \A x \in 1 .. Len(G[i - 1]) : G[i][x] = G[i - 1][x]
        /\ \A x \in 1 .. Len(ss[i]) : G[i][Len(G[i - 1]) + x] = ss[i][x]
    <3> DEFINE a == G[i - 1]
               b == ss[i]
               c == G[i]
    <3>1. a \in Seq(T) /\ b \in Seq(T) /\ c = a \o b
      BY <2>1
    <3> HIDE DEF o, n, a, b, c
    <3>2. /\ Len(a) \in Nat /\ Len(b) \in Nat /\ Len(c) = Len(a) + Len(b)
          /\ \A x \in 1 .. Len(a) : c[x] = a[x]
          /\ \A x \in 1 .. Len(b) : c[Len(a) + x] = b[x]
      BY <3>1, ConcatPlaces
    <3> DEFINE la == Len(a)
               lb == Len(b)
               lc == Len(c)
    <3>3. lc \in Nat /\ la <= lc
      <4>1. la \in Nat /\ lb \in Nat /\ lc = la + lb
        BY <3>2
      <4> HIDE DEF la, lb, lc
      <4> QED
        BY <4>1
    <3> QED
      BY <3>2, <3>3 DEF a, b, c
  <2>4. ASSUME NEW m \in 1 .. i PROVE Placed(i, m)
    <3>1. CASE m = i
      <4> HIDE DEF o
      <4>1. Len(G[i]) \in Nat /\ o[i] <= Len(G[i])
        <5> DEFINE z == Len(G[i])
        <5>1. z \in Nat /\ o[i] = z
          BY <2>1, <2>3
        <5> HIDE DEF z
        <5>2. o[i] <= z
          BY <5>1
        <5> QED
          BY <5>1, <5>2 DEF z
      <4>2. \A k \in 1 .. Len(ss[i]) : G[i][o[i - 1] + k] = ss[i][k]
        BY <2>1, <2>3
      <4> QED
        BY <3>1, <4>1, <4>2
    <3>2. CASE m # i
      <4>1. m \in 1 .. i - 1 /\ m \in 1 .. n
        BY <1>2, <2>1, <3>2
      <4>2. Placed(i - 1, m)
        BY <1>6, <4>1
      <4>3. o[m - 1] \in Nat /\ o[m] \in Nat /\ o[m] = o[m - 1] + Len(ss[m]) /\ Len(ss[m]) \in Nat
        <5>1. m - 1 \in 0 .. n /\ m \in 0 .. n
          BY <4>1, <1>2
        <5> HIDE DEF o
        <5> QED
          BY <1>2, <1>3, <1>4, <4>1, <5>1
      <4> HIDE DEF o
      <4>4. o[m] <= Len(G[i - 1])
        BY <4>2
      <4>5. ASSUME NEW k \in 1 .. Len(ss[m]) PROVE G[i][o[m - 1] + k] = ss[m][k]
        <5>1. o[m - 1] + k \in 1 .. Len(G[i - 1])
          <6> DEFINE x == o[m - 1]
                     y == o[m]
                     z == Len(G[i - 1])
                     l == Len(ss[m])
          <6>1. x \in Nat /\ y \in Nat /\ z \in Nat /\ l \in Nat /\ y = x + l /\ y <= z /\ k \in 1 .. l
            BY <2>3, <4>3, <4>4
          <6> HIDE DEF x, y, z, l
          <6>2. x + k \in 1 .. z
            BY <6>1
          <6> QED
            BY <6>2 DEF x, z
        <5>2. G[i][o[m - 1] + k] = G[i - 1][o[m - 1] + k]
          BY <2>3, <5>1
        <5> QED
          BY <4>2, <5>2
      <4>6. o[m] <= Len(G[i])
        <5> DEFINE x == o[m]
                   y == Len(G[i - 1])
                   z == Len(G[i])
        <5>1. x \in Nat /\ y \in Nat /\ z \in Nat /\ x <= y /\ y <= z
          BY <2>3, <4>3, <4>4
        <5> HIDE DEF x, y, z
        <5>2. x <= z
          BY <5>1
        <5> QED
          BY <5>2 DEF x, z
      <4> QED
        BY <4>5, <4>6
    <3> QED
      BY <3>1, <3>2
  <2> HIDE DEF Placed
  <2> QED
    BY <2>1, <2>4
<1>7. n \in S
  <2> HIDE DEF S, n
  <2>1. 0 .. n \subseteq S
    BY <1>2, <1>5, <1>6, IntervalInduction
  <2> QED
    BY <1>2, <2>1
<1>8. Parts(ss, o, FlattenSeq(ss))
  <2>1. \A m \in 1 .. n : Placed(n, m)
    BY <1>7
  <2> HIDE DEF o
  <2> QED
    BY <1>2, <1>3, <1>4, <2>1 DEF Parts
<1>9. FlattenSeq(ss) \in Seq(T)
  BY <1>2
<1> QED
  BY <1>8, <1>9

LEMMA HoldsConcat ==
    ASSUME NEW T, NEW t \in Seq(T), NEW a \in Seq(T), NEW b \in Seq(T), NEW p, Holds(t, p, a \o b)
    PROVE  Holds(t, p, a) /\ Holds(t, p + Len(a), b)
<1> DEFINE c == a \o b
           la == Len(a)
           lb == Len(b)
           lc == Len(c)
           lt == Len(t)
<1>1. /\ la \in Nat /\ lb \in Nat /\ lc = la + lb /\ lt \in Nat
      /\ \A x \in 1 .. la : c[x] = a[x]
      /\ \A x \in 1 .. lb : c[la + x] = b[x]
  BY ConcatPlaces
<1>2. p \in Nat /\ p + lc <= lt /\ \A k \in 1 .. lc : t[p + k] = c[k]
  BY DEF Holds
<1> HIDE DEF c, la, lb, lc, lt
<1>3. /\ p + la <= lt /\ p + la \in Nat /\ (p + la) + lb <= lt
      /\ \A x \in 1 .. la : x \in 1 .. lc
      /\ \A x \in 1 .. lb : la + x \in 1 .. lc /\ p + (la + x) = (p + la) + x
  BY <1>1, <1>2
<1>4. \A x \in 1 .. lb : t[(p + la) + x] = b[x]
  <2> TAKE x \in 1 .. lb
  <2>1. t[p + (la + x)] = c[la + x]
    BY <1>2, <1>3
  <2> QED
    BY <1>1, <1>3, <2>1
<1> QED
  BY <1>1, <1>2, <1>3, <1>4 DEF Holds, la, lb, lt

LEMMA HoldsPart ==
    ASSUME NEW T, NEW t \in Seq(T), NEW ss \in Seq(Seq(T)), NEW o, NEW s, NEW p,
           Parts(ss, o, s), Holds(t, p, s), NEW i \in 1 .. Len(ss), Len(s) \in Nat
    PROVE  Holds(t, p + o[i - 1], ss[i]) /\ o[i] = o[i - 1] + Len(ss[i])
<1> DEFINE n == Len(ss)
           lt == Len(t)
           l == Len(ss[i])
           ls == Len(s)
           a == o[i - 1]
           b == o[i]
<1>1. n \in Nat /\ lt \in Nat /\ l \in Nat /\ ls \in Nat
  BY ElementOfSeq, LenProperties
<1>2. /\ o \in [0 .. n -> Nat] /\ b = a + l /\ b <= ls
      /\ \A k \in 1 .. l : s[a + k] = ss[i][k]
  BY DEF Parts
<1>3. a \in Nat /\ b \in Nat
  <2>1. i - 1 \in 0 .. n /\ i \in 0 .. n
    BY <1>1
  <2> HIDE DEF n
  <2> QED
    BY <1>2, <2>1
<1>4. p \in Nat /\ p + ls <= lt /\ \A k \in 1 .. ls : t[p + k] = s[k]
  BY DEF Holds
<1> HIDE DEF n, lt, l, ls, a, b
<1>5. /\ p + a \in Nat /\ (p + a) + l <= lt
      /\ \A k \in 1 .. l : a + k \in 1 .. ls /\ p + (a + k) = (p + a) + k
  BY <1>1, <1>2, <1>3, <1>4
<1>6. \A k \in 1 .. l : t[(p + a) + k] = ss[i][k]
  <2> TAKE k \in 1 .. l
  <2>1. t[p + (a + k)] = s[a + k]
    BY <1>4, <1>5
  <2> QED
    BY <1>2, <1>5, <2>1
<1>7. Holds(t, p + a, ss[i]) /\ b = a + l
  BY <1>2, <1>5, <1>6 DEF Holds, l, lt
<1> QED
  BY <1>7 DEF a, b, l

-----------------------------------------------------------------------------
(* Csv: fields. *)

\* A character inside quotes.
CharText(c) == IF c = "quote" THEN <<"quote", "quote">> ELSE <<c>>
CharTexts(n) == [i \in DOMAIN n |-> CharText(n[i])]

LEMMA NeutralizedType ==
    ASSUME NEW f \in Seq(Chars)
    PROVE  Neutralized(f) \in Seq(Letters)
<1>1. f \in Seq(Letters) /\ <<"'">> \in Seq(Letters)
  <2>1. "'" \in Letters /\ Chars \subseteq Letters
    BY DEF Letters
  <2> QED
    BY <2>1
<1>2. <<"'">> \o f \in Seq(Letters)
  BY <1>1, ConcatPlaces
<1> QED
  BY <1>1, <1>2 DEF Neutralized

LEMMA CharTextsType ==
    ASSUME NEW n \in Seq(Letters)
    PROVE  /\ CharTexts(n) \in Seq(Seq(Letters)) /\ Len(CharTexts(n)) = Len(n)
           /\ \A k \in 1 .. Len(n) : CharTexts(n)[k] = CharText(n[k])
<1>1. ASSUME NEW c \in Letters PROVE CharText(c) \in Seq(Letters)
  BY <1>1 DEF CharText
<1>2. Len(n) \in Nat /\ DOMAIN n = 1 .. Len(n) /\ \A k \in 1 .. Len(n) : n[k] \in Letters
  OBVIOUS
<1> DEFINE s == CharTexts(n)
<1>3. s = [k \in 1 .. Len(n) |-> CharText(n[k])]
  BY <1>2 DEF CharTexts
<1>4. s \in [1 .. Len(n) -> Seq(Letters)] /\ \A k \in 1 .. Len(n) : s[k] = CharText(n[k])
  BY <1>1, <1>2, <1>3
<1> HIDE DEF s
<1>5. s \in Seq(Seq(Letters)) /\ Len(s) = Len(n)
  BY <1>2, <1>4
<1> QED
  BY <1>4, <1>5 DEF s

LEMMA EscapedType ==
    ASSUME NEW f \in Seq(Chars)
    PROVE  /\ Escaped(f) \in Seq(Letters)
           /\ ~ MustQuote(Neutralized(f)) => Escaped(f) = Neutralized(f)
           /\ MustQuote(Neutralized(f)) =>
                Escaped(f) = <<"quote">> \o FlattenSeq(CharTexts(Neutralized(f))) \o <<"quote">>
<1> DEFINE n == Neutralized(f)
           q == <<"quote">>
           m == FlattenSeq(CharTexts(n))
<1>1. n \in Seq(Letters)
  BY NeutralizedType
<1>2. m \in Seq(Letters)
  <2>1. CharTexts(n) \in Seq(Seq(Letters))
    BY <1>1, CharTextsType
  <2> QED
    BY <2>1, FlattenParts
<1>3. q \in Seq(Letters)
  <2>1. "quote" \in Letters
    BY DEF Letters, Chars
  <2> QED
    BY <2>1
<1>4. MustQuote(n) => Escaped(f) = q \o m \o q
  BY DEF Escaped, CharTexts, CharText
<1>5. ~ MustQuote(n) => Escaped(f) = n
  BY DEF Escaped
<1> HIDE DEF n, q, m
<1>6. q \o m \o q \in Seq(Letters)
  <2>1. q \o m \in Seq(Letters)
    BY <1>2, <1>3, ConcatPlaces
  <2> QED
    BY <1>3, <2>1, ConcatPlaces
<1>7. Escaped(f) \in Seq(Letters)
  BY <1>1, <1>4, <1>5, <1>6
<1> QED
  BY <1>4, <1>5, <1>7 DEF n, m, q

\* In t, after p, the character k of the quoted field f begins after p + 1 + C[k - 1].
CharPlaces(t, f, p, C) ==
    LET n == Neutralized(f)
    IN  /\ C \in [0 .. Len(n) -> Nat] /\ C[0] = 0 /\ Len(Escaped(f)) = C[Len(n)] + 2
        /\ t[p + 1] = "quote" /\ t[p + 1 + C[Len(n)] + 1] = "quote"
        /\ \A k \in 1 .. Len(n) : /\ Holds(t, p + 1 + C[k - 1], CharText(n[k]))
                                  /\ C[k] = C[k - 1] + Len(CharText(n[k]))

LEMMA QuotedPlaces ==
    ASSUME NEW f \in Seq(Chars), MustQuote(Neutralized(f)), NEW t \in Seq(Letters), NEW p,
           Holds(t, p, Escaped(f))
    PROVE  \E C : CharPlaces(t, f, p, C)
<1> DEFINE n == Neutralized(f)
           q == <<"quote">>
           ss == CharTexts(n)
           m == FlattenSeq(ss)
<1>1. n \in Seq(Letters) /\ q \in Seq(Letters) /\ Len(q) = 1 /\ q[1] = "quote"
  <2>1. "quote" \in Letters
    BY DEF Letters, Chars
  <2> QED
    BY <2>1, NeutralizedType
<1>2. ss \in Seq(Seq(Letters)) /\ Len(ss) = Len(n) /\ Len(n) \in Nat /\ \A k \in 1 .. Len(n) : ss[k] = CharText(n[k])
  <2> HIDE DEF n
  <2> QED
    BY <1>1, CharTextsType
<1>3. PICK C : Parts(ss, C, m)
  <2> HIDE DEF ss
  <2> QED
    BY <1>2, FlattenParts
<1>4. m \in Seq(Letters)
  <2> HIDE DEF ss
  <2> QED
    BY <1>2, FlattenParts
<1>5. Escaped(f) = (q \o m) \o q
  BY EscapedType
<1> HIDE DEF n, q, ss, m
<1>6. q \o m \in Seq(Letters) /\ Len(q \o m) = 1 + Len(m) /\ Len(m) \in Nat
  <2> DEFINE qm == q \o m
  <2>1. qm \in Seq(Letters) /\ Len(qm) = Len(q) + Len(m) /\ Len(m) \in Nat
    BY <1>1, <1>4, ConcatPlaces
  <2> HIDE DEF qm
  <2>2. Len(qm) = 1 + Len(m)
    BY <1>1, <2>1
  <2> QED
    BY <2>1, <2>2 DEF qm
<1>7. Holds(t, p, q \o m) /\ Holds(t, p + (1 + Len(m)), q) /\ Len(Escaped(f)) = Len(m) + 2
  <2>1. Holds(t, p, (q \o m) \o q)
    BY <1>5
  <2>2. Holds(t, p, q \o m) /\ Holds(t, p + Len(q \o m), q)
    BY <1>1, <1>6, <2>1, HoldsConcat
  <2>3. Len((q \o m) \o q) = Len(q \o m) + 1
    BY <1>1, <1>6, ConcatPlaces
  <2> QED
    BY <1>5, <1>6, <2>2, <2>3
<1>8. Holds(t, p, q) /\ Holds(t, p + 1, m)
  BY <1>1, <1>4, <1>7, HoldsConcat
<1>9. C[Len(n)] = Len(m) /\ C \in [0 .. Len(n) -> Nat] /\ C[0] = 0
  BY <1>2, <1>3 DEF Parts
<1>10. p \in Nat /\ t[p + 1] = "quote" /\ t[p + 1 + Len(m) + 1] = "quote"
  <2>1. p \in Nat /\ 1 \in 1 .. Len(q) /\ t[p + 1] = q[1] /\ t[(p + (1 + Len(m))) + 1] = q[1]
    BY <1>1, <1>7, <1>8 DEF Holds
  <2>2. (p + (1 + Len(m))) + 1 = p + 1 + Len(m) + 1
    BY <1>6, <2>1
  <2> QED
    BY <1>1, <2>1, <2>2
<1>11. ASSUME NEW k \in 1 .. Len(n)
       PROVE  Holds(t, p + 1 + C[k - 1], CharText(n[k])) /\ C[k] = C[k - 1] + Len(CharText(n[k]))
  <2>1. k \in 1 .. Len(ss) /\ ss[k] = CharText(n[k])
    BY <1>2
  <2>2. Holds(t, (p + 1) + C[k - 1], ss[k]) /\ C[k] = C[k - 1] + Len(ss[k])
    BY <1>2, <1>3, <1>6, <1>8, <2>1, HoldsPart
  <2> QED
    BY <2>1, <2>2
<1> QED
  BY <1>7, <1>9, <1>10, <1>11 DEF CharPlaces, n

-----------------------------------------------------------------------------
(* Csv: rows. *)

CellText(r, j) == (IF j = 1 THEN <<>> ELSE <<",">>) \o Escaped(r[j])
CellTexts(r) == [j \in DOMAIN r |-> CellText(r, j)]
Comma(j) == IF j = 1 THEN 0 ELSE 1

\* In t, the cell j of the row r begins after B[j - 1].
RowPlaces(t, r, end, B) ==
    /\ B \in [0 .. Len(r) -> Nat]
    /\ \A j \in 1 .. Len(r) : /\ Holds(t, B[j - 1] + Comma(j), Escaped(r[j]))
                              /\ B[j] = B[j - 1] + Comma(j) + Len(Escaped(r[j]))
                              /\ j # 1 => t[B[j - 1] + 1] = ","
    /\ Holds(t, B[Len(r)], end)

\* In t, the row r and the end of its line stand between the places a and b.
RowStands(t, r, end, a, b) == \E B : RowPlaces(t, r, end, B) /\ B[0] = a /\ b = B[Len(r)] + Len(end)

\* In t, the row i of the table tab begins after A[i - 1].
TablePlaces(t, tab, end, A) ==
    /\ A \in [0 .. Len(tab) -> Nat] /\ A[0] = 0 /\ A[Len(tab)] = Len(t)
    /\ \A i \in 1 .. Len(tab) : RowStands(t, tab[i], end, A[i - 1], A[i])

LEMMA LineEndShape ==
    ASSUME NEW end \in LineEnds
    PROVE  /\ end \in Seq(Letters) /\ Len(end) \in {1, 2} /\ end[1] \in {"cr", "lf"}
           /\ Len(end) = 2 <=> end = <<"cr", "lf">>
           /\ Len(end) = 2 => end[1] = "cr" /\ end[2] = "lf"
<1>1. "cr" \in Letters /\ "lf" \in Letters
  BY DEF Letters, Chars
<1>2. CASE end = <<"cr", "lf">>
  <2>1. <<"cr", "lf">> \in Seq(Letters)
    BY <1>1
  <2>2. Len(end) = 2 /\ end[1] = "cr" /\ end[2] = "lf"
    BY <1>2
  <2> QED
    BY <1>2, <2>1, <2>2
<1>3. CASE end = <<"lf">>
  <2>1. <<"lf">> \in Seq(Letters) /\ Len(<<"lf">>) = 1 /\ <<"lf">>[1] = "lf"
    BY <1>1, OneLetter
  <2>2. Len(end) = 1 /\ Len(<<"cr", "lf">>) = 2
    BY <1>3, <2>1
  <2> QED
    BY <1>3, <2>1, <2>2
<1>4. CASE end = <<"cr">>
  <2>1. <<"cr">> \in Seq(Letters) /\ Len(<<"cr">>) = 1 /\ <<"cr">>[1] = "cr"
    BY <1>1, OneLetter
  <2>2. Len(end) = 1 /\ Len(<<"cr", "lf">>) = 2
    BY <1>4, <2>1
  <2> QED
    BY <1>4, <2>1, <2>2
<1> QED
  BY <1>2, <1>3, <1>4 DEF LineEnds

LEMMA CellTextsType ==
    ASSUME NEW r \in Seq(Seq(Chars))
    PROVE  /\ CellTexts(r) \in Seq(Seq(Letters)) /\ Len(CellTexts(r)) = Len(r) /\ Len(r) \in Nat
           /\ \A j \in 1 .. Len(r) : /\ CellTexts(r)[j] = CellText(r, j) /\ r[j] \in Seq(Chars)
                                     /\ Escaped(r[j]) \in Seq(Letters)
                                     /\ CellText(r, j) \in Seq(Letters)
                                     /\ Len(CellText(r, j)) = Comma(j) + Len(Escaped(r[j]))
<1>1. Len(r) \in Nat /\ DOMAIN r = 1 .. Len(r) /\ \A j \in 1 .. Len(r) : r[j] \in Seq(Chars)
  OBVIOUS
<1>2. ASSUME NEW j \in 1 .. Len(r)
      PROVE  /\ Escaped(r[j]) \in Seq(Letters) /\ CellText(r, j) \in Seq(Letters)
             /\ Len(CellText(r, j)) = Comma(j) + Len(Escaped(r[j]))
  <2> DEFINE e == Escaped(r[j])
             sep == IF j = 1 THEN <<>> ELSE <<",">>
  <2>1. e \in Seq(Letters)
    BY <1>1, EscapedType
  <2>2. sep \in Seq(Letters) /\ Len(sep) = Comma(j)
    <3>1. "," \in Letters
      BY DEF Letters, Chars
    <3>2. <<",">> \in Seq(Letters) /\ Len(<<",">>) = 1
      BY <3>1, OneLetter
    <3>3. <<>> \in Seq(Letters) /\ Len(<<>>) = 0
      BY NoLetters
    <3>4. CASE j = 1
      BY <3>3, <3>4 DEF Comma
    <3>5. CASE j # 1
      BY <3>2, <3>5 DEF Comma
    <3> QED
      BY <3>4, <3>5
  <2>3. CellText(r, j) = sep \o e
    BY DEF CellText
  <2> HIDE DEF e, sep
  <2>4. sep \o e \in Seq(Letters) /\ Len(sep \o e) = Len(sep) + Len(e)
    BY <2>1, <2>2, ConcatPlaces
  <2> QED
    BY <2>1, <2>2, <2>3, <2>4 DEF e
<1> DEFINE s == CellTexts(r)
<1>3. s = [j \in 1 .. Len(r) |-> CellText(r, j)]
  BY <1>1 DEF CellTexts
<1>4. s \in [1 .. Len(r) -> Seq(Letters)] /\ \A j \in 1 .. Len(r) : s[j] = CellText(r, j)
  BY <1>2, <1>3
<1> HIDE DEF s
<1>5. s \in Seq(Seq(Letters)) /\ Len(s) = Len(r)
  BY <1>1, <1>4, FunctionIsSeq
<1> QED
  BY <1>1, <1>2, <1>4, <1>5 DEF s

LEMMA JoinedType ==
    ASSUME NEW r \in Seq(Seq(Chars))
    PROVE  Joined(r) = FlattenSeq(CellTexts(r)) /\ Joined(r) \in Seq(Letters)
<1>1. Joined(r) = FlattenSeq(CellTexts(r))
  BY DEF Joined, CellTexts, CellText
<1>2. CellTexts(r) \in Seq(Seq(Letters))
  BY CellTextsType
<1>3. FlattenSeq(CellTexts(r)) \in Seq(Letters)
  <2> DEFINE s == CellTexts(r)
  <2> HIDE DEF s
  <2>1. s \in Seq(Seq(Letters))
    BY <1>2 DEF s
  <2>2. FlattenSeq(s) \in Seq(Letters)
    BY <2>1, FlattenParts
  <2> QED
    BY <2>2 DEF s
<1> QED
  BY <1>1, <1>3

LEMMA RowPlaced ==
    ASSUME NEW r \in Seq(Seq(Chars)), NEW end \in LineEnds, NEW t \in Seq(Letters), NEW p,
           Holds(t, p, Joined(r) \o end)
    PROVE  RowStands(t, r, end, p, p + Len(Joined(r) \o end))
<1> DEFINE ss == CellTexts(r)
           s == Joined(r)
           n == Len(r)
<1>1. /\ ss \in Seq(Seq(Letters)) /\ Len(ss) = n /\ n \in Nat /\ s \in Seq(Letters) /\ s = FlattenSeq(ss)
      /\ end \in Seq(Letters) /\ Len(end) \in Nat
  BY CellTextsType, JoinedType, LineEndShape
<1>2. \A j \in 1 .. n : /\ ss[j] = CellText(r, j) /\ CellText(r, j) \in Seq(Letters)
                        /\ Escaped(r[j]) \in Seq(Letters) /\ Len(Escaped(r[j])) \in Nat
                        /\ Len(CellText(r, j)) = Comma(j) + Len(Escaped(r[j]))
  <2>1. \A j \in 1 .. n : /\ ss[j] = CellText(r, j) /\ CellText(r, j) \in Seq(Letters)
                          /\ Escaped(r[j]) \in Seq(Letters)
                          /\ Len(CellText(r, j)) = Comma(j) + Len(Escaped(r[j]))
    BY CellTextsType
  <2> QED
    BY <2>1, LenProperties
<1> HIDE DEF ss, s, n
<1>3. PICK o : Parts(ss, o, s)
  BY <1>1, FlattenParts
<1>4. p \in Nat /\ Holds(t, p, s) /\ Holds(t, p + Len(s), end) /\ Len(s) \in Nat
      /\ Len(s \o end) = Len(s) + Len(end)
  <2>1. Holds(t, p, s \o end)
    BY DEF s
  <2>2. Holds(t, p, s) /\ Holds(t, p + Len(s), end)
    BY <1>1, <2>1, HoldsConcat
  <2>3. Len(s) \in Nat /\ Len(s \o end) = Len(s) + Len(end)
    BY <1>1, ConcatPlaces
  <2>4. p \in Nat
    BY <2>2 DEF Holds
  <2> QED
    BY <2>2, <2>3, <2>4
<1>5. o \in [0 .. n -> Nat] /\ o[0] = 0 /\ o[n] = Len(s)
  BY <1>1, <1>3 DEF Parts
<1> DEFINE B == [j \in 0 .. n |-> p + o[j]]
<1>6. B \in [0 .. n -> Nat] /\ B[0] = p /\ B[n] = p + Len(s)
  <2>1. n \in Nat /\ p \in Nat /\ 0 \in 0 .. n /\ n \in 0 .. n
    BY <1>1, <1>4
  <2>2. \A j \in 0 .. n : p + o[j] \in Nat
    BY <2>1, <1>5
  <2>3. p + 0 = p
    BY <2>1
  <2> QED
    BY <1>5, <2>1, <2>2, <2>3
<1>7. ASSUME NEW j \in 1 .. n
      PROVE  /\ Holds(t, B[j - 1] + Comma(j), Escaped(r[j]))
             /\ B[j] = B[j - 1] + Comma(j) + Len(Escaped(r[j]))
             /\ j # 1 => t[B[j - 1] + 1] = ","
  <2> DEFINE e == Escaped(r[j])
             a == B[j - 1]
  <2>1. j \in 1 .. Len(ss) /\ j - 1 \in 0 .. n /\ j \in 0 .. n /\ a = p + o[j - 1] /\ B[j] = p + o[j]
        /\ o[j - 1] \in Nat
    <3>1. j - 1 \in 0 .. n /\ j \in 0 .. n
      BY <1>1
    <3> QED
      BY <1>1, <1>5, <3>1
  <2>2. e \in Seq(Letters) /\ Len(e) \in Nat /\ ss[j] = CellText(r, j) /\ Len(CellText(r, j)) = Comma(j) + Len(e)
    BY <1>2
  <2> HIDE DEF B, a, e
  <2>3. Holds(t, p + o[j - 1], ss[j]) /\ o[j] = o[j - 1] + Len(ss[j])
    <3>1. ss \in Seq(Seq(Letters)) /\ Parts(ss, o, s) /\ Holds(t, p, s) /\ Len(s) \in Nat /\ j \in 1 .. Len(ss)
      BY <1>1, <1>3, <1>4, <2>1
    <3> QED
      BY <3>1, HoldsPart
  <2>4. a \in Nat /\ B[j] = a + Comma(j) + Len(e) /\ Comma(j) \in Nat
    <3> DEFINE x == o[j - 1]
               y == o[j]
               z == Comma(j)
               l == Len(e)
               b == B[j]
    <3>1. z \in Nat
      BY DEF Comma
    <3>2. p \in Nat /\ x \in Nat /\ l \in Nat /\ y = x + (z + l) /\ a = p + x /\ b = p + y
      BY <1>4, <2>1, <2>2, <2>3
    <3> HIDE DEF x, y, z, l, b
    <3>3. a \in Nat /\ b = a + z + l
      BY <3>1, <3>2
    <3> QED
      BY <3>1, <3>3 DEF z, l, b
  <2>5. Holds(t, a, CellText(r, j))
    BY <2>1, <2>2, <2>3
  <2>6. CASE j = 1
    <3>1. CellText(r, j) = <<>> \o e
      BY <2>6 DEF CellText, e
    <3>2. CellText(r, j) = e /\ a + Comma(j) = a
      BY <2>2, <2>4, <2>6, <3>1 DEF Comma
    <3> QED
      BY <2>4, <2>5, <2>6, <3>2 DEF a, e
  <2>7. CASE j # 1
    <3> DEFINE c == <<",">>
    <3>1. c \in Seq(Letters) /\ Len(c) = 1 /\ c[1] = ","
      <4>1. "," \in Letters
        BY DEF Letters, Chars
      <4> QED
        BY <4>1, OneLetter
    <3>2. Holds(t, a, c \o e)
      BY <2>5, <2>7 DEF CellText, e
    <3> HIDE DEF c
    <3>3. Holds(t, a, c) /\ Holds(t, a + Len(c), e)
      BY <2>2, <3>1, <3>2, HoldsConcat
    <3>4. t[a + 1] = ","
      <4>1. \A k \in 1 .. Len(c) : t[a + k] = c[k]
        BY <3>3 DEF Holds
      <4>2. 1 \in 1 .. Len(c)
        <5>1. Len(c) = 1
          BY <3>1
        <5> QED
          BY <5>1
      <4> QED
        BY <3>1, <4>1, <4>2
    <3>5. Holds(t, a + Comma(j), e)
      BY <2>7, <3>1, <3>3 DEF Comma
    <3> QED
      BY <2>4, <3>4, <3>5 DEF a, e
  <2> QED
    BY <2>6, <2>7
<1> HIDE DEF B
<1>8. RowPlaces(t, r, end, B)
  <2>1. Holds(t, B[n], end)
    BY <1>4, <1>6
  <2> QED
    BY <1>6, <1>7, <2>1 DEF RowPlaces, n
<1>9. B[n] + Len(end) = p + Len(s \o end)
  BY <1>1, <1>4, <1>6
<1> QED
  BY <1>6, <1>8, <1>9 DEF RowStands, n, s

LEMMA TablePlaced ==
    ASSUME NEW tab \in Seq(Seq(Seq(Chars)) \ {<<>>}), NEW end \in LineEnds
    PROVE  /\ Written(tab, end) \in Seq(Letters)
           /\ \E A : TablePlaces(Written(tab, end), tab, end, A)
<1> DEFINE n == Len(tab)
           Row(i) == Joined(tab[i]) \o end
           ss == [i \in 1 .. n |-> Row(i)]
           t == Written(tab, end)
<1>1. n \in Nat /\ DOMAIN tab = 1 .. n /\ \A i \in 1 .. n : tab[i] \in Seq(Seq(Chars))
  OBVIOUS
<1>2. t = FlattenSeq(ss)
  BY <1>1 DEF Written
<1>3. \A i \in 1 .. n : Row(i) \in Seq(Letters)
  <2> TAKE i \in 1 .. n
  <2>1. Joined(tab[i]) \in Seq(Letters) /\ end \in Seq(Letters)
    BY <1>1, JoinedType, LineEndShape
  <2> QED
    BY <2>1, ConcatPlaces
<1> HIDE DEF n, Row, t
<1>4. ss \in Seq(Seq(Letters)) /\ Len(ss) = n /\ \A i \in 1 .. n : ss[i] = Row(i)
  <2>1. ss \in [1 .. n -> Seq(Letters)] /\ \A i \in 1 .. n : ss[i] = Row(i)
    BY <1>3
  <2> HIDE DEF ss
  <2> QED
    BY <1>1, <2>1
<1> HIDE DEF ss
<1>5. t \in Seq(Letters) /\ \E o : Parts(ss, o, t)
  BY <1>2, <1>4, FlattenParts
<1>6. PICK A : Parts(ss, A, t)
  BY <1>5
<1>7. A \in [0 .. n -> Nat] /\ A[0] = 0 /\ A[n] = Len(t)
  BY <1>4, <1>6 DEF Parts
<1>8. Holds(t, 0, t) /\ Len(t) \in Nat
  <2>1. Len(t) \in Nat
    BY <1>5
  <2> QED
    BY <2>1 DEF Holds
<1>9. ASSUME NEW i \in 1 .. n
      PROVE  RowStands(t, tab[i], end, A[i - 1], A[i])
  <2>1. i \in 1 .. Len(ss) /\ i - 1 \in 0 .. n
    BY <1>1, <1>4
  <2>2. Holds(t, 0 + A[i - 1], ss[i]) /\ A[i] = A[i - 1] + Len(ss[i])
    <3>1. ss \in Seq(Seq(Letters)) /\ Parts(ss, A, t) /\ Holds(t, 0, t) /\ Len(t) \in Nat
          /\ i \in 1 .. Len(ss) /\ t \in Seq(Letters)
      BY <1>4, <1>5, <1>6, <1>8, <2>1
    <3> QED
      BY <3>1, HoldsPart
  <2>3. Holds(t, A[i - 1], Joined(tab[i]) \o end) /\ A[i] = A[i - 1] + Len(Joined(tab[i]) \o end)
    <3>1. A[i - 1] \in Nat
      BY <1>7, <2>1
    <3>2. 0 + A[i - 1] = A[i - 1]
      BY <3>1
    <3> QED
      BY <1>4, <2>2, <3>2 DEF Row
  <2>4. tab[i] \in Seq(Seq(Chars))
    BY <1>1
  <2>5. RowStands(t, tab[i], end, A[i - 1], A[i - 1] + Len(Joined(tab[i]) \o end))
    <3>1. t \in Seq(Letters)
      BY <1>5
    <3> QED
      BY <2>3, <2>4, <3>1, RowPlaced
  <2> QED
    BY <2>3, <2>5
<1>10. TablePlaces(t, tab, end, A)
  BY <1>7, <1>9 DEF TablePlaces, n
<1> QED
  BY <1>5, <1>10 DEF t

\* What stands after a cell: a comma, or the end of the line.
Followed(t, r, end, B, j) ==
    /\ B[j] \in Nat /\ B[j - 1] \in Nat /\ B[j] + 1 <= Len(t)
    /\ j # Len(r) => t[B[j] + 1] = ","
    /\ j = Len(r) => t[B[j] + 1] = end[1] /\ B[j] + Len(end) <= Len(t)
    /\ j = Len(r) /\ Len(end) = 2 => t[B[j] + 2] = "lf"

LEMMA AfterCell ==
    ASSUME NEW t \in Seq(Letters), NEW r \in Seq(Seq(Chars)), NEW end \in LineEnds, NEW B,
           RowPlaces(t, r, end, B), NEW j \in 1 .. Len(r)
    PROVE  Followed(t, r, end, B, j)
<1> DEFINE n == Len(r)
           lt == Len(t)
           b == B[j]
<1>1. n \in Nat /\ lt \in Nat
  BY LenProperties
<1>2. B \in [0 .. n -> Nat] /\ Holds(t, B[n], end)
  BY DEF RowPlaces
<1>3. b \in Nat /\ B[j - 1] \in Nat
  <2>1. j \in 0 .. n /\ j - 1 \in 0 .. n
    BY <1>1
  <2> HIDE DEF n
  <2> QED
    BY <1>2, <2>1
<1>4. CASE j # n
  <2>1. j + 1 \in 1 .. n /\ j + 1 # 1 /\ (j + 1) - 1 = j
    BY <1>1, <1>4
  <2>2. Holds(t, B[(j + 1) - 1] + Comma(j + 1), Escaped(r[j + 1])) /\ t[B[(j + 1) - 1] + 1] = ","
    BY <2>1 DEF RowPlaces
  <2>3. Holds(t, b + 1, Escaped(r[j + 1])) /\ t[b + 1] = ","
    BY <2>1, <2>2 DEF Comma
  <2>4. (b + 1) + Len(Escaped(r[j + 1])) <= lt
    BY <2>3 DEF Holds
  <2>5. Len(Escaped(r[j + 1])) \in Nat
    <3>1. Escaped(r[j + 1]) \in Seq(Letters)
      BY <2>1, CellTextsType
    <3> QED
      BY <3>1, LenProperties
  <2> DEFINE l == Len(Escaped(r[j + 1]))
  <2> HIDE DEF l, b, lt
  <2>6. b + 1 <= lt
    BY <1>1, <1>3, <2>4, <2>5 DEF l
  <2> QED
    BY <1>3, <1>4, <2>3, <2>6 DEF Followed, n, b, lt
<1>5. CASE j = n
  <2>1. Len(end) \in {1, 2} /\ (Len(end) = 2 => end[2] = "lf")
    BY LineEndShape
  <2>2. Holds(t, b, end)
    BY <1>2, <1>5
  <2> DEFINE le == Len(end)
  <2> HIDE DEF b, n
  <2>3. b + le <= lt /\ \A k \in 1 .. le : t[b + k] = end[k]
    BY <2>2 DEF Holds
  <2> HIDE DEF le
  <2>4. t[b + 1] = end[1] /\ (le = 2 => t[b + 2] = end[2])
    <3>1. 1 \in 1 .. le /\ (le = 2 => 2 \in 1 .. le)
      <4>1. le = 1 \/ le = 2
        BY <2>1 DEF le
      <4> QED
        BY <4>1
    <3> QED
      BY <2>3, <3>1
  <2>5. b + 1 <= lt
    <3>1. le = 1 \/ le = 2
      BY <2>1 DEF le
    <3> HIDE DEF lt
    <3> QED
      BY <1>1, <1>3, <2>3, <3>1
  <2> QED
    BY <1>3, <1>5, <2>1, <2>3, <2>4, <2>5 DEF Followed, b, n, lt, le
<1> QED
  BY <1>4, <1>5

\* No row begins with a line feed, unless the row is empty and ends with one.
LEMMA RowBegins ==
    ASSUME NEW t \in Seq(Letters), NEW r \in Seq(Seq(Chars)), r # <<>>, NEW end \in LineEnds, NEW B,
           RowPlaces(t, r, end, B), end[1] # "lf"
    PROVE  t[B[0] + 1] # "lf"
<1> DEFINE f == r[1]
           n == Neutralized(f)
           e == Escaped(f)
<1>1. Len(r) \in Nat /\ 1 \in 1 .. Len(r) /\ f \in Seq(Chars)
  BY EmptySeq, LenProperties, ElementOfSeq
<1>2. e \in Seq(Letters) /\ n \in Seq(Letters) /\ Len(e) \in Nat
  BY <1>1, EscapedType, NeutralizedType, LenProperties
<1>3. Holds(t, B[1 - 1] + Comma(1), Escaped(r[1])) /\ B[1] = B[1 - 1] + Comma(1) + Len(Escaped(r[1]))
  BY <1>1 DEF RowPlaces
<1>4. B[0] \in Nat
  <2>1. B[1 - 1] \in Nat
    BY <1>1, AfterCell DEF Followed
  <2> QED
    BY <2>1
<1>5. Holds(t, B[0], e) /\ B[1] = B[0] + Len(e)
  BY <1>3, <1>4 DEF Comma
<1>6. CASE Len(e) = 0
  <2>1. B[1] = B[0]
    BY <1>4, <1>5, <1>6
  <2>2. t[B[1] + 1] = "," \/ t[B[1] + 1] = end[1]
    <3>1. 1 \in 1 .. Len(r)
      BY <1>1
    <3>2. Followed(t, r, end, B, 1)
      BY <3>1, AfterCell
    <3> QED
      BY <3>2 DEF Followed
  <2> QED
    BY <2>1, <2>2
<1>7. CASE Len(e) # 0 /\ MustQuote(n)
  <2>1. PICK C : CharPlaces(t, f, B[0], C)
    BY <1>1, <1>5, <1>7, QuotedPlaces
  <2> QED
    BY <2>1 DEF CharPlaces
<1>8. CASE Len(e) # 0 /\ ~ MustQuote(n)
  <2>1. e = n
    BY <1>1, <1>8, EscapedType
  <2>2. 1 \in 1 .. Len(e) /\ 1 \in DOMAIN n
    <3>1. 1 \in 1 .. Len(e) /\ DOMAIN n = 1 .. Len(n)
      BY <1>2, <1>8
    <3> QED
      BY <2>1, <3>1
  <2>3. t[B[0] + 1] = n[1]
    BY <1>5, <2>1, <2>2 DEF Holds
  <2>4. n[1] # "lf"
    BY <1>8, <2>2 DEF MustQuote
  <2> QED
    BY <2>3, <2>4
<1> QED
  BY <1>6, <1>7, <1>8

LEMMA AppendNext ==
    ASSUME NEW T, NEW s \in Seq(T), NEW k \in 1 .. Len(s)
    PROVE  Append(SubSeq(s, 1, k - 1), s[k]) = SubSeq(s, 1, k)
<1>1. Len(s) \in Nat /\ 1 \in 1 .. Len(s) /\ k \in 1 .. Len(s) /\ s[k] \in T
  BY LenProperties, ElementOfSeq
<1>2. SubSeq(s, 1, k) = SubSeq(s, 1, k - 1) \o <<s[k]>>
  BY <1>1, SubSeqRecursiveSecond
<1>3. SubSeq(s, 1, k - 1) \in Seq(T)
  <2>1. \A i \in 1 .. k - 1 : s[i] \in T
    BY <1>1
  <2> QED
    BY <2>1, SubSeqProperties
<1> QED
  BY <1>1, <1>2, <1>3, AppendIsConcat

-----------------------------------------------------------------------------
(* Csv: the parser. *)

\* The field f of the table stands in the text after b: the parser is before it,
\* between two characters of it, the quotes taken for what they are, or after it.
FieldStarts(b) == ~inQuotes /\ field = <<>> /\ pos = b + 1
FieldBare(f, b) ==
    LET n == Neutralized(f)
    IN  /\ ~inQuotes /\ ~ MustQuote(n)
        /\ \E k \in 1 .. Len(n) : pos = b + k /\ field = SubSeq(n, 1, k - 1)
FieldInside(f, b) ==
    LET n == Neutralized(f)
    IN  /\ inQuotes /\ MustQuote(n)
        /\ \E C : /\ CharPlaces(text, f, b, C)
                  /\ \E k \in 0 .. Len(n) : pos = b + 1 + C[k] + 1 /\ field = SubSeq(n, 1, k)
FieldDone(f, b) == ~inQuotes /\ field = Neutralized(f) /\ pos = b + Len(Escaped(f)) + 1

FieldState(f, b) == FieldStarts(b) \/ FieldBare(f, b) \/ FieldInside(f, b) \/ FieldDone(f, b)

\* f stands after b, and something that is no quote after f.
FieldStands(f, b) ==
    /\ Holds(text, b, Escaped(f))
    /\ b + Len(Escaped(f)) + 1 <= Len(text)
    /\ text[b + Len(Escaped(f)) + 1] # "quote"

LEMMA BareStarts ==
    ASSUME NEW f \in Seq(Chars), NEW b \in Nat, FieldStarts(b), ~ MustQuote(Neutralized(f))
    PROVE  FieldBare(f, b) \/ FieldDone(f, b)
<1> DEFINE n == Neutralized(f)
<1>1. n \in Seq(Letters) /\ Len(n) \in Nat /\ Escaped(f) = n
  BY NeutralizedType, EscapedType, LenProperties
<1>2. pos = b + 1 /\ field = <<>> /\ ~inQuotes
  BY DEF FieldStarts
<1> HIDE DEF n
<1>3. CASE Len(n) = 0
  <2>1. n = <<>>
    BY <1>1, <1>3, EmptySeq
  <2>2. pos = b + Len(Escaped(f)) + 1
    BY <1>1, <1>2, <1>3
  <2> QED
    BY <1>2, <2>1, <2>2 DEF FieldDone, n
<1>4. CASE Len(n) # 0
  <2>1. 1 \in 1 .. Len(n)
    BY <1>1, <1>4
  <2>2. field = SubSeq(n, 1, 1 - 1)
    BY <1>2, SubSeqEmpty
  <2> QED
    BY <1>2, <2>1, <2>2 DEF FieldBare, n
<1> QED
  BY <1>3, <1>4

LEMMA BareStep ==
    ASSUME NEW f \in Seq(Chars), NEW b, text \in Seq(Letters), FieldStands(f, b), FieldBare(f, b), Scan
    PROVE  (FieldBare(f, b) \/ FieldDone(f, b))' /\ UNCHANGED <<line, lines>>
<1> DEFINE n == Neutralized(f)
           m == Len(n)
<1>1. n \in Seq(Letters) /\ m \in Nat /\ Escaped(f) = n
  BY NeutralizedType, EscapedType, LenProperties DEF FieldBare
<1>2. PICK k \in 1 .. m : pos = b + k /\ field = SubSeq(n, 1, k - 1)
  BY DEF FieldBare
<1>3. b \in Nat /\ text[b + k] = n[k]
  <2> HIDE DEF n
  <2> QED
    BY <1>1 DEF FieldStands, Holds
<1>4. n[k] \notin {"quote", ",", "cr", "lf"}
  <2>1. k \in DOMAIN n
    BY <1>1
  <2> QED
    BY <2>1 DEF FieldBare, MustQuote
<1>5. At(pos) = n[k]
  <2>1. pos <= Len(text)
    BY DEF Scan
  <2> QED
    BY <1>2, <1>3, <2>1 DEF At
<1>6. field' = Append(field, n[k]) /\ pos' = pos + 1 /\ ~inQuotes' /\ UNCHANGED <<line, lines, text>>
  <2>1. ~inQuotes
    BY DEF FieldBare
  <2>2. Plain /\ text' = text
    BY <2>1 DEF Scan, Quoted
  <2> DEFINE c == n[k]
  <2>3. At(pos) = c /\ c \notin {"quote", ",", "cr", "lf"}
    BY <1>4, <1>5
  <2> HIDE DEF c
  <2>4. field' = Append(field, c) /\ pos' = pos + 1 /\ ~inQuotes' /\ UNCHANGED <<line, lines, text>>
    <3>1. CASE At(pos) = "quote" \/ At(pos) = "," \/ At(pos) \in {"cr", "lf"}
      BY <2>3, <3>1
    <3>2. CASE At(pos) \notin {"quote", ",", "cr", "lf"}
      <4>1. field' = Append(field, At(pos)) /\ pos' = pos + 1 /\ UNCHANGED <<inQuotes, line, lines>>
        BY <2>2, <3>2, Zenon DEF Plain
      <4>2. ~inQuotes'
        BY <2>1, <4>1, Zenon
      <4> QED
        BY <2>2, <2>3, <4>1, <4>2
    <3> QED
      BY <3>1, <3>2
  <2> QED
    BY <2>4 DEF c
<1> HIDE DEF n
<1>7. field' = SubSeq(n, 1, k)
  BY <1>1, <1>2, <1>6, AppendNext
<1>8. CASE k = m
  <2>1. field' = n
    BY <1>1, <1>7, <1>8, SubSeqFull
  <2>2. pos' = b + Len(Escaped(f)) + 1
    BY <1>1, <1>2, <1>3, <1>6, <1>8
  <2> QED
    BY <1>6, <2>1, <2>2 DEF FieldDone, n
<1>9. CASE k # m
  <2>1. k + 1 \in 1 .. m /\ (k + 1) - 1 = k /\ pos' = b + (k + 1)
    <3>1. m \in Nat /\ k \in 1 .. m /\ k # m
      BY <1>1, <1>9
    <3>2. b \in Nat /\ pos' = b + k + 1
      BY <1>2, <1>3, <1>6
    <3> HIDE DEF m
    <3> QED
      BY <3>1, <3>2
  <2>2. \E l \in 1 .. m : pos' = b + l /\ field' = SubSeq(n, 1, l - 1)
    BY <1>7, <2>1
  <2> QED
    BY <1>6, <2>2 DEF FieldBare, n
<1> QED
  BY <1>6, <1>8, <1>9

LEMMA OpenStep ==
    ASSUME NEW f \in Seq(Chars), NEW b, text \in Seq(Letters), FieldStands(f, b),
           FieldStarts(b), MustQuote(Neutralized(f)), Scan
    PROVE  FieldInside(f, b)' /\ UNCHANGED <<line, lines>>
<1> DEFINE n == Neutralized(f)
<1>1. PICK C : CharPlaces(text, f, b, C)
  BY QuotedPlaces DEF FieldStands
<1>2. b \in Nat /\ C[0] = 0 /\ text[b + 1] = "quote" /\ n \in Seq(Letters) /\ Len(n) \in Nat
  BY <1>1, NeutralizedType, LenProperties DEF FieldStands, Holds, CharPlaces
<1>3. pos = b + 1 /\ field = <<>> /\ ~inQuotes /\ pos <= Len(text)
  BY DEF FieldStarts, Scan
<1>4. At(pos) = "quote"
  BY <1>2, <1>3 DEF At
<1>5. inQuotes' /\ pos' = pos + 1 /\ UNCHANGED <<field, line, lines, text>>
  BY <1>3, <1>4 DEF Scan, Plain, Quoted
<1> HIDE DEF n
<1>6. 0 \in 0 .. Len(n) /\ pos' = b + 1 + C[0] + 1 /\ field' = SubSeq(n, 1, 0)
  BY <1>2, <1>3, <1>5, SubSeqEmpty
<1>7. CharPlaces(text', f, b, C)
  BY <1>1, <1>5
<1>8. \E D : /\ CharPlaces(text', f, b, D)
             /\ \E k \in 0 .. Len(n) : pos' = b + 1 + D[k] + 1 /\ field' = SubSeq(n, 1, k)
  BY <1>6, <1>7
<1> QED
  BY <1>5, <1>8 DEF FieldInside, n

LEMMA InsideStep ==
    ASSUME NEW f \in Seq(Chars), NEW b, text \in Seq(Letters), FieldStands(f, b), FieldInside(f, b), Scan
    PROVE  (FieldInside(f, b) \/ FieldDone(f, b))' /\ UNCHANGED <<line, lines>>
<1> DEFINE n == Neutralized(f)
           m == Len(n)
           After(C, p, s) == \E k \in 0 .. m : p = b + 1 + C[k] + 1 /\ s = SubSeq(n, 1, k)
<1>1. n \in Seq(Letters) /\ m \in Nat /\ inQuotes /\ MustQuote(n) /\ b \in Nat
      /\ Len(text) \in Nat /\ pos <= Len(text) /\ text' = text
  BY NeutralizedType, LenProperties DEF FieldInside, FieldStands, Holds, Scan
<1>2. PICK C : CharPlaces(text, f, b, C) /\ After(C, pos, field)
  BY DEF FieldInside
<1>3. PICK k \in 0 .. m : pos = b + 1 + C[k] + 1 /\ field = SubSeq(n, 1, k)
  BY <1>2
<1>4. /\ C \in [0 .. m -> Nat] /\ Len(Escaped(f)) = C[m] + 2 /\ text[b + 1 + C[m] + 1] = "quote"
      /\ \A j \in 1 .. m : /\ Holds(text, b + 1 + C[j - 1], CharText(n[j]))
                           /\ C[j] = C[j - 1] + Len(CharText(n[j]))
  BY <1>2 DEF CharPlaces
<1>5. C[k] \in Nat
  <2> HIDE DEF m
  <2> QED
    BY <1>4
<1>6. CASE k = m
  <2>1. At(pos) = "quote"
    BY <1>1, <1>3, <1>4, <1>6 DEF At
  <2>2. At(pos + 1) # "quote"
    <3>1. pos + 1 = b + Len(Escaped(f)) + 1
      BY <1>1, <1>3, <1>4, <1>5, <1>6
    <3> QED
      BY <3>1 DEF At, FieldStands
  <2>3. ~inQuotes' /\ pos' = pos + 1 /\ UNCHANGED <<field, line, lines>>
    BY <1>1, <2>1, <2>2 DEF Scan, Quoted, Plain
  <2>4. pos' = b + Len(Escaped(f)) + 1 /\ field' = n
    <3>1. pos' = b + Len(Escaped(f)) + 1
      BY <1>1, <1>3, <1>4, <1>5, <1>6, <2>3
    <3>2. field' = n
      <4> HIDE DEF n
      <4> QED
        BY <1>1, <1>3, <1>6, <2>3, SubSeqFull
    <3> QED
      BY <3>1, <3>2
  <2> QED
    BY <2>3, <2>4 DEF FieldDone
<1>7. CASE k # m
  <2> DEFINE j == k + 1
             c == n[j]
             q == b + 1 + C[k]
  <2>1. j \in 1 .. m /\ j - 1 = k /\ j \in 0 .. m
    BY <1>1, <1>7
  <2>2. Holds(text, q, CharText(c)) /\ C[j] = C[k] + Len(CharText(c))
    BY <1>4, <2>1
  <2>3. q \in Nat /\ pos = q + 1
    BY <1>1, <1>3, <1>5
  <2> HIDE DEF j, c, q
  <2>4. UNCHANGED <<line, lines>> /\ inQuotes' /\ field' = Append(field, c) /\ pos' = q + Len(CharText(c)) + 1
    <3>1. CASE c = "quote"
      <4>1. CharText(c) = <<"quote", "quote">>
        BY <3>1 DEF CharText
      <4>2. Len(CharText(c)) = 2 /\ CharText(c)[1] = "quote" /\ CharText(c)[2] = "quote"
        BY <4>1
      <4>3. q + 2 <= Len(text) /\ text[q + 1] = "quote" /\ text[q + 2] = "quote"
        <5>1. 1 \in 1 .. 2 /\ 2 \in 1 .. 2
          OBVIOUS
        <5> QED
          BY <2>2, <4>2, <5>1 DEF Holds
      <4>4. At(pos) = "quote" /\ At(pos + 1) = "quote"
        <5>1. pos + 1 = q + 2 /\ pos + 1 <= Len(text)
          BY <2>3, <4>3
        <5> QED
          BY <1>1, <2>3, <4>3, <5>1 DEF At
      <4>5. inQuotes' /\ field' = Append(field, "quote") /\ pos' = pos + 2 /\ UNCHANGED <<line, lines>>
        BY <1>1, <4>4 DEF Scan, Quoted, Plain
      <4>6. pos' = q + 2 + 1
        BY <2>3, <4>5
      <4> QED
        BY <3>1, <4>2, <4>5, <4>6
    <3>2. CASE c # "quote"
      <4>1. CharText(c) = <<c>>
        BY <3>2 DEF CharText
      <4>2. Len(CharText(c)) = 1 /\ CharText(c)[1] = c
        BY <4>1
      <4>3. text[q + 1] = c
        <5>1. 1 \in 1 .. 1
          OBVIOUS
        <5> QED
          BY <2>2, <4>2, <5>1 DEF Holds
      <4>4. At(pos) = c
        BY <1>1, <2>3, <4>3 DEF At
      <4>5. inQuotes' /\ field' = Append(field, c) /\ pos' = pos + 1 /\ UNCHANGED <<line, lines>>
        BY <1>1, <3>2, <4>4 DEF Scan, Quoted, Plain
      <4>6. pos' = q + 1 + 1
        BY <2>3, <4>5
      <4> QED
        BY <4>2, <4>5, <4>6
    <3> QED
      BY <3>1, <3>2
  <2>5. field' = SubSeq(n, 1, j)
    <3>1. Append(SubSeq(n, 1, j - 1), n[j]) = SubSeq(n, 1, j)
      <4> HIDE DEF n
      <4> QED
        BY <1>1, <2>1, AppendNext
    <3> QED
      BY <1>3, <2>1, <2>4, <3>1 DEF c
  <2>6. pos' = b + 1 + C[j] + 1
    <3> DEFINE l == Len(CharText(c))
    <3>1. C[j] \in Nat
      <4> HIDE DEF m
      <4> QED
        BY <1>4, <2>1
    <3>2. l \in Nat
      <4>1. l = 1 \/ l = 2
        BY DEF CharText
      <4> QED
        BY <4>1
    <3>3. pos' = q + l + 1 /\ C[j] = C[k] + l
      BY <2>2, <2>4
    <3> HIDE DEF l
    <3> QED
      BY <1>1, <1>5, <3>1, <3>2, <3>3 DEF q
  <2>7. After(C, pos', field')
    BY <2>1, <2>5, <2>6
  <2>8. CharPlaces(text', f, b, C)
    BY <1>1, <1>2
  <2>9. FieldInside(f, b)'
    <3>1. inQuotes' /\ MustQuote(n) /\ \E D : CharPlaces(text', f, b, D) /\ After(D, pos', field')
      BY <1>1, <2>4, <2>7, <2>8
    <3> QED
      BY <3>1 DEF FieldInside
  <2> QED
    BY <2>4, <2>9
<1> QED
  BY <1>6, <1>7

LEMMA FieldWithin ==
    ASSUME NEW f \in Seq(Chars), NEW b, text \in Seq(Letters), FieldStands(f, b), FieldState(f, b)
    PROVE  pos <= Len(text)
<1> DEFINE n == Neutralized(f)
           m == Len(n)
           e == Len(Escaped(f))
           lt == Len(text)
<1>1. n \in Seq(Letters) /\ m \in Nat /\ b \in Nat /\ e \in Nat /\ lt \in Nat /\ b + e + 1 <= lt
  <2>1. n \in Seq(Letters) /\ m \in Nat
    BY NeutralizedType, LenProperties
  <2>2. e \in Nat /\ lt \in Nat
    BY EscapedType, LenProperties
  <2> QED
    BY <2>1, <2>2 DEF FieldStands, Holds
<1>2. CASE FieldStarts(b) \/ FieldDone(f, b)
  <2>1. pos = b + 1 \/ pos = b + e + 1
    BY <1>2 DEF FieldStarts, FieldDone
  <2> HIDE DEF e, lt
  <2>2. pos <= lt
    BY <1>1, <2>1
  <2> QED
    BY <2>2 DEF lt
<1>3. CASE FieldBare(f, b)
  <2>1. PICK k \in 1 .. m : pos = b + k
    BY <1>3 DEF FieldBare
  <2>2. e = m
    BY <1>3, EscapedType DEF FieldBare
  <2> HIDE DEF e, lt, m
  <2>3. pos <= lt
    BY <1>1, <2>1, <2>2
  <2> QED
    BY <2>3 DEF lt
<1>4. CASE FieldInside(f, b)
  <2>1. PICK C : CharPlaces(text, f, b, C) /\ \E k \in 0 .. m : pos = b + 1 + C[k] + 1
    BY <1>4 DEF FieldInside
  <2>2. PICK k \in 0 .. m : pos = b + 1 + C[k] + 1
    BY <2>1
  <2>3. /\ C \in [0 .. m -> Nat] /\ e = C[m] + 2
        /\ \A j \in 1 .. m : Holds(text, b + 1 + C[j - 1], CharText(n[j]))
    BY <2>1 DEF CharPlaces
  <2>4. C[k] \in Nat
    <3> HIDE DEF m
    <3> QED
      BY <2>3
  <2>5. CASE k = m
    <3> HIDE DEF e, lt, m
    <3>1. pos <= lt
      BY <1>1, <2>2, <2>3, <2>4, <2>5
    <3> QED
      BY <3>1 DEF lt
  <2>6. CASE k # m
    <3> DEFINE l == Len(CharText(n[k + 1]))
    <3>1. k + 1 \in 1 .. m /\ (k + 1) - 1 = k
      BY <1>1, <2>6
    <3>2. Holds(text, b + 1 + C[k], CharText(n[k + 1]))
      BY <2>3, <3>1
    <3>3. b + 1 + C[k] + l <= lt
      BY <3>2 DEF Holds
    <3>4. l = 1 \/ l = 2
      BY DEF CharText
    <3> HIDE DEF lt, l, m
    <3>5. pos <= lt
      BY <1>1, <2>2, <2>4, <3>3, <3>4
    <3> QED
      BY <3>5 DEF lt
  <2> QED
    BY <2>5, <2>6
<1> QED
  BY <1>2, <1>3, <1>4 DEF FieldState

\* A comma ends a field.
LEMMA CommaStep ==
    ASSUME NEW f, NEW b, FieldDone(f, b), At(pos) = ",", Scan
    PROVE  /\ line' = Append(line, Neutralized(f)) /\ field' = <<>> /\ pos' = pos + 1 /\ ~inQuotes'
           /\ UNCHANGED <<table, text, lines, done>>
<1>1. ~inQuotes /\ field = Neutralized(f)
  BY DEF FieldDone
<1>2. Plain /\ UNCHANGED <<table, text, done>>
  BY <1>1 DEF Scan, Quoted
<1>3. line' = Append(line, field) /\ field' = <<>> /\ pos' = pos + 1 /\ UNCHANGED <<inQuotes, lines>>
  BY <1>2 DEF Plain
<1>4. ~inQuotes'
  BY <1>1, <1>3, Zenon
<1> QED
  BY <1>1, <1>2, <1>3, <1>4

\* The end of a line ends a field and a row.
LEMMA LineEndStep ==
    ASSUME NEW f, NEW b, FieldDone(f, b), At(pos) \in {"cr", "lf"}, Scan
    PROVE  /\ lines' = Append(lines, Append(line, Neutralized(f))) /\ line' = <<>> /\ field' = <<>>
           /\ pos' = pos + LineEnd /\ ~inQuotes' /\ UNCHANGED <<table, text, done>>
<1>1. ~inQuotes /\ field = Neutralized(f)
  BY DEF FieldDone
<1>2. Plain /\ UNCHANGED <<table, text, done>>
  BY <1>1 DEF Scan, Quoted
<1>3. /\ lines' = Append(lines, Append(line, field)) /\ line' = <<>> /\ field' = <<>>
      /\ pos' = pos + LineEnd /\ inQuotes' = inQuotes
  BY <1>2 DEF Plain
<1>4. ~inQuotes'
  BY <1>1, <1>3, Zenon
<1> QED
  BY <1>1, <1>2, <1>3, <1>4

\* What is to be read.
ReadRow(r) == [j \in DOMAIN r |-> Neutralized(r[j])]
ReadTable(tab) == [i \in DOMAIN tab |-> ReadRow(tab[i])]

LEMMA ReadRowType ==
    ASSUME NEW r \in Seq(Seq(Chars))
    PROVE  /\ ReadRow(r) \in Seq(Seq(Letters)) /\ Len(ReadRow(r)) = Len(r) /\ Len(r) \in Nat
           /\ \A j \in 1 .. Len(r) : ReadRow(r)[j] = Neutralized(r[j]) /\ r[j] \in Seq(Chars)
<1>1. Len(r) \in Nat /\ DOMAIN r = 1 .. Len(r) /\ \A j \in 1 .. Len(r) : r[j] \in Seq(Chars)
  OBVIOUS
<1> DEFINE s == ReadRow(r)
<1>2. s = [j \in 1 .. Len(r) |-> Neutralized(r[j])]
  BY <1>1 DEF ReadRow
<1>3. \A j \in 1 .. Len(r) : Neutralized(r[j]) \in Seq(Letters)
  BY <1>1, NeutralizedType
<1>4. s \in [1 .. Len(r) -> Seq(Letters)] /\ \A j \in 1 .. Len(r) : s[j] = Neutralized(r[j])
  BY <1>2, <1>3
<1> HIDE DEF s
<1>5. s \in Seq(Seq(Letters)) /\ Len(s) = Len(r)
  BY <1>1, <1>4, FunctionIsSeq
<1> QED
  BY <1>1, <1>4, <1>5 DEF s

LEMMA ReadTableType ==
    ASSUME NEW tab \in Seq(Seq(Seq(Chars)) \ {<<>>})
    PROVE  /\ ReadTable(tab) \in Seq(Seq(Seq(Letters))) /\ Len(ReadTable(tab)) = Len(tab) /\ Len(tab) \in Nat
           /\ \A i \in 1 .. Len(tab) : /\ ReadTable(tab)[i] = ReadRow(tab[i])
                                       /\ tab[i] \in Seq(Seq(Chars)) /\ tab[i] # <<>>
<1>1. Len(tab) \in Nat /\ DOMAIN tab = 1 .. Len(tab)
      /\ \A i \in 1 .. Len(tab) : tab[i] \in Seq(Seq(Chars)) /\ tab[i] # <<>>
  OBVIOUS
<1> DEFINE s == ReadTable(tab)
<1>2. s = [i \in 1 .. Len(tab) |-> ReadRow(tab[i])]
  BY <1>1 DEF ReadTable
<1>3. \A i \in 1 .. Len(tab) : ReadRow(tab[i]) \in Seq(Seq(Letters))
  BY <1>1, ReadRowType
<1>4. s \in [1 .. Len(tab) -> Seq(Seq(Letters))] /\ \A i \in 1 .. Len(tab) : s[i] = ReadRow(tab[i])
  BY <1>2, <1>3
<1> HIDE DEF s
<1>5. s \in Seq(Seq(Seq(Letters))) /\ Len(s) = Len(tab)
  BY <1>1, <1>4, FunctionIsSeq
<1> QED
  BY <1>1, <1>4, <1>5 DEF s

\* Rows 1 .. i - 1 are read, and of row i the cells before j.
InCell(tab, i, j, B) ==
    /\ lines = SubSeq(ReadTable(tab), 1, i - 1)
    /\ line = SubSeq(ReadRow(tab[i]), 1, j - 1)
    /\ FieldState(tab[i][j], B[j - 1] + Comma(j))
InRow(tab, end, A, i) ==
    \E B : /\ RowPlaces(text, tab[i], end, B) /\ B[0] = A[i - 1] /\ A[i] = B[Len(tab[i])] + Len(end)
           /\ \E j \in 1 .. Len(tab[i]) : InCell(tab, i, j, B)
\* Rows 1 .. i are read.
AfterRow(tab, A, i) ==
    /\ lines = SubSeq(ReadTable(tab), 1, i) /\ line = <<>> /\ FieldStarts(A[i])

Parsing(tab, end) ==
    \E A : /\ TablePlaces(text, tab, end, A)
           /\ \/ \E i \in 0 .. Len(tab) : AfterRow(tab, A, i)
              \/ \E i \in 1 .. Len(tab) : InRow(tab, end, A, i)

\* A cell of a row is a field that stands where RowPlaces says.
LEMMA CellStands ==
    ASSUME NEW r \in Seq(Seq(Chars)), NEW end \in LineEnds, NEW B, text \in Seq(Letters),
           RowPlaces(text, r, end, B), NEW j \in 1 .. Len(r)
    PROVE  /\ r[j] \in Seq(Chars) /\ FieldStands(r[j], B[j - 1] + Comma(j))
           /\ B[j - 1] + Comma(j) \in Nat
           /\ B[j - 1] + Comma(j) + Len(Escaped(r[j])) = B[j]
<1> DEFINE b == B[j - 1] + Comma(j)
           e == Len(Escaped(r[j]))
<1>1. r[j] \in Seq(Chars)
  BY CellTextsType
<1>2. Holds(text, b, Escaped(r[j])) /\ B[j] = b + e
  BY DEF RowPlaces
<1>3. b \in Nat
  BY <1>2 DEF Holds
<1>4. Followed(text, r, end, B, j)
  BY AfterCell
<1>5. end[1] # "quote"
  BY LineEndShape
<1> HIDE DEF b, e
<1>6. b + e + 1 <= Len(text) /\ text[b + e + 1] # "quote"
  BY <1>2, <1>4, <1>5 DEF Followed
<1> QED
  BY <1>1, <1>2, <1>3, <1>6 DEF FieldStands, b, e

LEMMA RowStarts ==
    ASSUME NEW tab \in Seq(Seq(Seq(Chars)) \ {<<>>}), NEW end \in LineEnds, text \in Seq(Letters), NEW A,
           TablePlaces(text, tab, end, A), NEW i \in 0 .. Len(tab), i # Len(tab), AfterRow(tab, A, i)
    PROVE  InRow(tab, end, A, i + 1)
<1> DEFINE m == i + 1
           r == tab[m]
<1>1. m \in 1 .. Len(tab) /\ m - 1 = i /\ r \in Seq(Seq(Chars)) /\ r # <<>>
  <2>1. Len(tab) \in Nat
    BY ReadTableType
  <2>2. m \in 1 .. Len(tab) /\ m - 1 = i
    BY <2>1
  <2> HIDE DEF m
  <2> QED
    BY <2>2, ReadTableType
<1>2. RowStands(text, r, end, A[m - 1], A[m])
  BY <1>1 DEF TablePlaces
<1> HIDE DEF m, r
<1>3. PICK B : RowPlaces(text, r, end, B) /\ B[0] = A[i] /\ A[m] = B[Len(r)] + Len(end)
  BY <1>1, <1>2 DEF RowStands
<1>4. Len(r) \in Nat /\ 1 \in 1 .. Len(r)
  <2>1. Len(r) \in Nat /\ Len(r) # 0
    BY <1>1, EmptySeq, LenProperties
  <2> QED
    BY <2>1
<1>5. B[1 - 1] + Comma(1) = A[i]
  <2>1. B[1 - 1] \in Nat
    BY <1>1, <1>3, <1>4, AfterCell DEF Followed
  <2> QED
    BY <1>3, <2>1 DEF Comma
<1>6. lines = SubSeq(ReadTable(tab), 1, m - 1)
  BY <1>1 DEF AfterRow
<1>7. line = SubSeq(ReadRow(r), 1, 1 - 1)
  BY SubSeqEmpty DEF AfterRow
<1>8. FieldState(r[1], B[1 - 1] + Comma(1))
  BY <1>5 DEF AfterRow, FieldState
<1>9. InCell(tab, m, 1, B)
  BY <1>6, <1>7, <1>8 DEF InCell, r
<1>10. \E j \in 1 .. Len(r) : InCell(tab, m, j, B)
  BY <1>4, <1>9
<1>11. InRow(tab, end, A, m)
  BY <1>1, <1>3, <1>10 DEF InRow, r
<1> QED
  BY <1>11 DEF m

LEMMA RowPos ==
    ASSUME NEW tab \in Seq(Seq(Seq(Chars)) \ {<<>>}), NEW end \in LineEnds, text \in Seq(Letters), NEW A,
           NEW i \in 1 .. Len(tab), InRow(tab, end, A, i)
    PROVE  pos \in Int
<1>1. PICK B : RowPlaces(text, tab[i], end, B) /\ \E j \in 1 .. Len(tab[i]) : InCell(tab, i, j, B)
  BY DEF InRow
<1>2. PICK j \in 1 .. Len(tab[i]) : InCell(tab, i, j, B)
  BY <1>1
<1>3. tab[i] \in Seq(Seq(Chars))
  BY ReadTableType
<1> DEFINE f == tab[i][j]
           b == B[j - 1] + Comma(j)
<1>4. f \in Seq(Chars) /\ b \in Nat
  BY <1>1, <1>3, CellStands
<1>5. FieldState(f, b)
  BY <1>2 DEF InCell
<1> HIDE DEF f, b
<1>6. Len(Escaped(f)) \in Nat
  BY <1>4, EscapedType, LenProperties
<1>7. CASE FieldStarts(b) \/ FieldDone(f, b)
  BY <1>4, <1>6, <1>7 DEF FieldStarts, FieldDone
<1>8. CASE FieldBare(f, b)
  BY <1>4, <1>8 DEF FieldBare
<1>9. CASE FieldInside(f, b)
  BY <1>4, <1>9 DEF FieldInside, CharPlaces
<1> QED
  BY <1>5, <1>7, <1>8, <1>9 DEF FieldState

LEMMA RowWithin ==
    ASSUME NEW tab \in Seq(Seq(Seq(Chars)) \ {<<>>}), NEW end \in LineEnds, text \in Seq(Letters), NEW A,
           NEW i \in 1 .. Len(tab), InRow(tab, end, A, i)
    PROVE  pos <= Len(text)
<1>1. PICK B : RowPlaces(text, tab[i], end, B) /\ \E j \in 1 .. Len(tab[i]) : InCell(tab, i, j, B)
  BY DEF InRow
<1>2. PICK j \in 1 .. Len(tab[i]) : InCell(tab, i, j, B)
  BY <1>1
<1>3. tab[i] \in Seq(Seq(Chars))
  BY ReadTableType
<1>4. tab[i][j] \in Seq(Chars) /\ FieldStands(tab[i][j], B[j - 1] + Comma(j))
  BY <1>1, <1>3, CellStands
<1> QED
  BY <1>2, <1>4, FieldWithin DEF InCell

\* A turn of the loop within a field.
LEMMA FieldStep ==
    ASSUME NEW f \in Seq(Chars), NEW b \in Nat, text \in Seq(Letters), FieldStands(f, b), FieldState(f, b),
           ~ FieldDone(f, b), Scan
    PROVE  FieldState(f, b)' /\ UNCHANGED <<line, lines>>
<1>1. CASE FieldStarts(b) /\ MustQuote(Neutralized(f))
  BY <1>1, OpenStep DEF FieldState
<1>2. CASE FieldBare(f, b) \/ (FieldStarts(b) /\ ~ MustQuote(Neutralized(f)))
  <2>1. FieldBare(f, b)
    BY <1>2, BareStarts
  <2> QED
    BY <2>1, BareStep DEF FieldState
<1>3. CASE FieldInside(f, b)
  BY <1>3, InsideStep DEF FieldState
<1> QED
  BY <1>1, <1>2, <1>3 DEF FieldState

\* A turn of the loop within a row.
LEMMA RowStep ==
    ASSUME NEW tab \in Seq(Seq(Seq(Chars)) \ {<<>>}), NEW end \in LineEnds, text \in Seq(Letters), NEW A,
           TablePlaces(text, tab, end, A), NEW i \in 1 .. Len(tab), InRow(tab, end, A, i), Scan
    PROVE  InRow(tab, end, A, i)' \/ AfterRow(tab, A, i)'
<1> DEFINE r == tab[i]
           lt == Len(text)
<1>1. /\ r \in Seq(Seq(Chars)) /\ ReadTable(tab) \in Seq(Seq(Seq(Letters))) /\ Len(ReadTable(tab)) = Len(tab)
      /\ ReadTable(tab)[i] = ReadRow(r) /\ Len(tab) \in Nat
  BY ReadTableType
<1>2. PICK B : /\ RowPlaces(text, r, end, B) /\ B[0] = A[i - 1] /\ A[i] = B[Len(r)] + Len(end)
               /\ \E j \in 1 .. Len(r) : InCell(tab, i, j, B)
  BY DEF InRow
<1>3. PICK j \in 1 .. Len(r) : InCell(tab, i, j, B)
  BY <1>2
<1> DEFINE f == r[j]
           b == B[j - 1] + Comma(j)
<1>4. f \in Seq(Chars) /\ FieldStands(f, b) /\ b \in Nat /\ b + Len(Escaped(f)) = B[j]
  <2> HIDE DEF r
  <2> QED
    BY <1>1, <1>2, CellStands
<1>5. /\ lines = SubSeq(ReadTable(tab), 1, i - 1) /\ line = SubSeq(ReadRow(r), 1, j - 1)
      /\ FieldState(f, b) /\ text' = text /\ pos <= lt
  BY <1>3 DEF InCell, Scan
<1>6. /\ ReadRow(r) \in Seq(Seq(Letters)) /\ Len(ReadRow(r)) = Len(r) /\ Len(r) \in Nat
      /\ ReadRow(r)[j] = Neutralized(f)
  <2> HIDE DEF r
  <2> QED
    BY <1>1, ReadRowType DEF f
<1>7. Followed(text, r, end, B, j)
  <2> HIDE DEF r
  <2> QED
    BY <1>1, <1>2, AfterCell
<1>8. ASSUME NEW k \in 1 .. Len(r), InCell(tab, i, k, B)' PROVE InRow(tab, end, A, i)'
  <2>1. /\ RowPlaces(text', r, end, B) /\ B[0] = A[i - 1] /\ A[i] = B[Len(r)] + Len(end)
        /\ \E l \in 1 .. Len(r) : InCell(tab, i, l, B)'
    BY <1>2, <1>5, <1>8
  <2> QED
    BY <2>1 DEF InRow
<1>9. CASE ~ FieldDone(f, b)
  <2>1. FieldState(f, b)' /\ UNCHANGED <<line, lines>>
    <3> HIDE DEF f, b
    <3> QED
      BY <1>4, <1>5, <1>9, FieldStep
  <2>2. InCell(tab, i, j, B)'
    BY <1>5, <2>1 DEF InCell
  <2> QED
    BY <1>8, <2>2
<1>10. CASE FieldDone(f, b)
  <2>1. pos = B[j] + 1 /\ At(pos) = text[B[j] + 1]
    BY <1>4, <1>5, <1>10 DEF FieldDone, At
  <2>2. CASE j # Len(r)
    <3> DEFINE k == j + 1
    <3>1. At(pos) = ","
      BY <1>7, <2>1, <2>2 DEF Followed
    <3>2. /\ line' = Append(line, Neutralized(f)) /\ field' = <<>> /\ pos' = pos + 1 /\ ~inQuotes'
          /\ lines' = lines
      <4> HIDE DEF f, b
      <4> QED
        BY <1>10, <3>1, CommaStep
    <3>3. k \in 1 .. Len(r) /\ k - 1 = j /\ k # 1
      <4> DEFINE n == Len(r)
      <4>1. n \in Nat /\ j \in 1 .. n /\ j # n
        BY <1>6, <2>2
      <4> HIDE DEF n
      <4>2. j + 1 \in 1 .. n /\ (j + 1) - 1 = j /\ j + 1 # 1
        BY <4>1
      <4> QED
        BY <4>2 DEF n
    <3>4. line' = SubSeq(ReadRow(r), 1, k - 1)
      <4>1. Append(SubSeq(ReadRow(r), 1, j - 1), ReadRow(r)[j]) = SubSeq(ReadRow(r), 1, j)
        <5> DEFINE s == ReadRow(r)
        <5>1. s \in Seq(Seq(Letters)) /\ j \in 1 .. Len(s)
          BY <1>6
        <5> HIDE DEF s
        <5> QED
          BY <5>1, AppendNext DEF s
      <4> QED
        BY <1>5, <1>6, <3>2, <3>3, <4>1
    <3>5. FieldState(r[k], B[k - 1] + Comma(k))'
      <4>1. B[k - 1] + Comma(k) = B[j] + 1
        BY <3>3 DEF Comma
      <4>2. pos' = B[j] + 1 + 1
        BY <2>1, <3>2
      <4> QED
        BY <3>2, <4>1, <4>2 DEF FieldState, FieldStarts
    <3>6. InCell(tab, i, k, B)'
      BY <1>5, <3>2, <3>4, <3>5 DEF InCell
    <3> QED
      BY <1>8, <3>3, <3>6
  <2>3. CASE j = Len(r)
    <3>1. At(pos) = end[1] /\ end[1] \in {"cr", "lf"} /\ Len(end) \in {1, 2}
      BY <1>7, <2>1, <2>3, LineEndShape DEF Followed
    <3>2. /\ lines' = Append(lines, Append(line, Neutralized(f))) /\ line' = <<>> /\ field' = <<>>
          /\ pos' = pos + LineEnd /\ ~inQuotes'
      <4> HIDE DEF f, b
      <4> QED
        BY <1>10, <3>1, LineEndStep
    <3>3. A[i] = B[j] + Len(end) /\ B[j] \in Nat /\ A[i] <= lt /\ lt \in Nat
      BY <1>2, <1>7, <2>3, LenProperties DEF Followed
    <3>4. LineEnd = Len(end)
      <4>1. CASE Len(end) = 2
        <5>1. text[B[j] + 2] = "lf" /\ end[1] = "cr"
          BY <1>7, <2>3, <4>1, LineEndShape DEF Followed
        <5>2. At(pos + 1) = "lf"
          <6>1. pos + 1 = B[j] + 2 /\ pos + 1 <= lt
            <7> DEFINE x == B[j]
            <7>1. x \in Nat /\ pos = x + 1 /\ x + 2 <= lt
              BY <2>1, <3>3, <4>1
            <7> HIDE DEF x, lt
            <7>2. pos + 1 = x + 2
              BY <7>1
            <7> QED
              BY <7>1, <7>2 DEF x
          <6> QED
            BY <5>1, <6>1 DEF At
        <5> QED
          BY <3>1, <4>1, <5>1, <5>2 DEF LineEnd
      <4>2. CASE Len(end) = 1 /\ end[1] = "lf"
        BY <3>1, <4>2 DEF LineEnd
      <4>3. CASE Len(end) = 1 /\ end[1] = "cr"
        <5>1. pos + 1 = A[i] + 1
          BY <2>1, <3>3, <4>3
        <5>2. At(pos + 1) # "lf"
          <6>1. CASE i = Len(tab)
            <7>1. A[i] = lt
              BY <6>1 DEF TablePlaces
            <7>2. ~ (pos + 1 <= lt)
              BY <3>3, <5>1, <7>1
            <7> QED
              BY <7>2 DEF At
          <6>2. CASE i # Len(tab)
            <7> DEFINE q == i + 1
            <7>1. q \in 1 .. Len(tab) /\ q - 1 = i
              BY <1>1, <6>2
            <7>2. RowStands(text, tab[q], end, A[q - 1], A[q])
              BY <7>1 DEF TablePlaces
            <7>3. PICK D : RowPlaces(text, tab[q], end, D) /\ D[0] = A[i]
              BY <7>1, <7>2 DEF RowStands
            <7>4. tab[q] \in Seq(Seq(Chars)) /\ tab[q] # <<>>
              <8> HIDE DEF q
              <8> QED
                BY <7>1, ReadTableType
            <7>5. text[D[0] + 1] # "lf"
              <8> DEFINE s == tab[q]
              <8>1. s \in Seq(Seq(Chars)) /\ s # <<>> /\ RowPlaces(text, s, end, D) /\ end[1] # "lf"
                BY <4>3, <7>3, <7>4
              <8> HIDE DEF s
              <8> QED
                BY <8>1, RowBegins
            <7> QED
              BY <5>1, <7>3, <7>5 DEF At
          <6> QED
            BY <6>1, <6>2
        <5> QED
          BY <3>1, <4>3, <5>2 DEF LineEnd
      <4> QED
        BY <3>1, <4>1, <4>2, <4>3
    <3>5. Append(line, Neutralized(f)) = ReadRow(r)
      <4> DEFINE s == ReadRow(r)
      <4>1. s \in Seq(Seq(Letters)) /\ Len(s) = j /\ j \in 1 .. Len(s) /\ s[j] = Neutralized(f)
            /\ line = SubSeq(s, 1, j - 1)
        BY <1>5, <1>6, <2>3
      <4> HIDE DEF s, f
      <4>2. Append(SubSeq(s, 1, j - 1), s[j]) = SubSeq(s, 1, j)
        BY <4>1, AppendNext
      <4>3. SubSeq(s, 1, j) = s
        BY <4>1, SubSeqFull
      <4> QED
        BY <4>1, <4>2, <4>3 DEF s
    <3>6. lines' = SubSeq(ReadTable(tab), 1, i)
      <4> DEFINE s == ReadTable(tab)
      <4>1. s \in Seq(Seq(Seq(Letters))) /\ i \in 1 .. Len(s) /\ s[i] = ReadRow(r) /\ lines = SubSeq(s, 1, i - 1)
        BY <1>1, <1>5
      <4> HIDE DEF s, f, r
      <4>2. Append(SubSeq(s, 1, i - 1), s[i]) = SubSeq(s, 1, i)
        BY <4>1, AppendNext
      <4> QED
        BY <3>2, <3>5, <4>1, <4>2 DEF s
    <3>7. pos' = A[i] + 1
      <4> DEFINE x == B[j]
                 y == A[i]
                 l == Len(end)
      <4>1. x \in Nat /\ pos = x + 1 /\ pos' = pos + l /\ y = x + l /\ (l = 1 \/ l = 2)
        BY <2>1, <3>1, <3>2, <3>3, <3>4
      <4> HIDE DEF x, y, l
      <4>2. l \in Nat /\ y \in Nat
        <5>1. l = 1 \/ l = 2
          BY <4>1
        <5>2. l \in Nat
          BY <5>1
        <5>3. x \in Nat /\ y = x + l
          BY <4>1
        <5> QED
          BY <5>2, <5>3
      <4>3. pos' = (x + 1) + l
        BY <4>1
      <4>4. (x + 1) + l = y + 1
        BY <4>1, <4>2
      <4> QED
        BY <4>3, <4>4 DEF y
    <3>8. AfterRow(tab, A, i)'
      BY <3>2, <3>6, <3>7 DEF AfterRow, FieldStarts
    <3> QED
      BY <3>8
  <2> QED
    BY <2>2, <2>3
<1> QED
  BY <1>9, <1>10

\* The inductive invariant: the text is a table that was written, and the parser is
\* where a row ends or within one, with what stands before that place.
CsvInv ==
    \E tab \in Tables, end \in LineEnds :
        /\ table = tab /\ text = Written(tab, end)
        /\ IF done THEN lines = WithoutBlank(ReadTable(tab)) ELSE Parsing(tab, end)

LEMMA CsvInitInv == CsvInit => CsvInv
<1> SUFFICES ASSUME CsvInit PROVE CsvInv
  OBVIOUS
<1>1. PICK tab \in Tables, end \in LineEnds : table = tab /\ text = Written(tab, end)
  BY DEF CsvInit
<1>2. tab \in Seq(Seq(Seq(Chars)) \ {<<>>})
  BY TablesAssumption
<1>3. PICK A : TablePlaces(text, tab, end, A)
  BY <1>1, <1>2, TablePlaced
<1>4. Len(tab) \in Nat /\ A[0] = 0
  BY <1>2, <1>3, ReadTableType DEF TablePlaces
<1>5. lines = <<>> /\ line = <<>> /\ field = <<>> /\ pos = 1 /\ ~inQuotes /\ ~done
  BY DEF CsvInit
<1>6. 0 \in 0 .. Len(tab) /\ AfterRow(tab, A, 0)
  <2>1. lines = SubSeq(ReadTable(tab), 1, 0)
    BY <1>5, SubSeqEmpty
  <2> QED
    BY <1>4, <1>5, <2>1 DEF AfterRow, FieldStarts
<1>7. Parsing(tab, end)
  BY <1>3, <1>6 DEF Parsing
<1> QED
  BY <1>1, <1>5, <1>7 DEF CsvInv

LEMMA ScanInv == ASSUME CsvInv, Scan PROVE CsvInv'
<1>1. PICK tab \in Tables, end \in LineEnds :
        /\ table = tab /\ text = Written(tab, end)
        /\ IF done THEN lines = WithoutBlank(ReadTable(tab)) ELSE Parsing(tab, end)
  BY DEF CsvInv
<1>2. tab \in Seq(Seq(Seq(Chars)) \ {<<>>}) /\ text \in Seq(Letters) /\ Len(tab) \in Nat
  <2>1. tab \in Seq(Seq(Seq(Chars)) \ {<<>>})
    BY TablesAssumption
  <2> QED
    BY <1>1, <2>1, TablePlaced, ReadTableType
<1>3. Parsing(tab, end) /\ UNCHANGED <<table, text, done>> /\ ~done /\ pos <= Len(text)
  BY <1>1 DEF Scan
<1>4. PICK A : /\ TablePlaces(text, tab, end, A)
               /\ \/ \E i \in 0 .. Len(tab) : AfterRow(tab, A, i)
                  \/ \E i \in 1 .. Len(tab) : InRow(tab, end, A, i)
  BY <1>3 DEF Parsing
<1>5. \E i \in 1 .. Len(tab) : InRow(tab, end, A, i)
  <2>1. CASE \E i \in 0 .. Len(tab) : AfterRow(tab, A, i)
    <3>1. PICK i \in 0 .. Len(tab) : AfterRow(tab, A, i)
      BY <2>1
    <3>2. i # Len(tab)
      <4>1. A[Len(tab)] = Len(text) /\ pos = A[i] + 1 /\ Len(text) \in Nat
        BY <1>2, <1>4, <3>1, LenProperties DEF TablePlaces, AfterRow, FieldStarts
      <4> QED
        BY <1>3, <4>1
    <3>3. InRow(tab, end, A, i + 1)
      BY <1>2, <1>4, <3>1, <3>2, RowStarts
    <3>4. i + 1 \in 1 .. Len(tab)
      BY <1>2, <3>2
    <3> QED
      BY <3>3, <3>4
  <2> QED
    BY <1>4, <2>1
<1>6. PICK i \in 1 .. Len(tab) : InRow(tab, end, A, i)
  BY <1>5
<1>7. InRow(tab, end, A, i)' \/ AfterRow(tab, A, i)'
  BY <1>2, <1>4, <1>6, RowStep
<1>8. i \in 0 .. Len(tab) /\ TablePlaces(text', tab, end, A)
  BY <1>2, <1>3, <1>4
<1>9. Parsing(tab, end)'
  BY <1>7, <1>8 DEF Parsing
<1>10. table' = tab /\ text' = Written(tab, end) /\ ~done'
  BY <1>1, <1>3
<1> QED
  BY <1>9, <1>10 DEF CsvInv

LEMMA FinishInv == ASSUME CsvInv, Finish PROVE CsvInv'
<1>1. PICK tab \in Tables, end \in LineEnds :
        /\ table = tab /\ text = Written(tab, end)
        /\ IF done THEN lines = WithoutBlank(ReadTable(tab)) ELSE Parsing(tab, end)
  BY DEF CsvInv
<1>2. tab \in Seq(Seq(Seq(Chars)) \ {<<>>}) /\ text \in Seq(Letters) /\ Len(tab) \in Nat
  <2>1. tab \in Seq(Seq(Seq(Chars)) \ {<<>>})
    BY TablesAssumption
  <2> QED
    BY <1>1, <2>1, TablePlaced, ReadTableType
<1>3. Parsing(tab, end) /\ UNCHANGED <<table, text>> /\ ~done /\ done' /\ pos > Len(text)
  BY <1>1 DEF Finish
<1>4. PICK A : /\ TablePlaces(text, tab, end, A)
               /\ \/ \E i \in 0 .. Len(tab) : AfterRow(tab, A, i)
                  \/ \E i \in 1 .. Len(tab) : InRow(tab, end, A, i)
  BY <1>3 DEF Parsing
<1>5. Len(text) \in Nat /\ ~ (pos <= Len(text))
  <2>1. Len(text) \in Nat
    BY <1>2, LenProperties
  <2>2. pos \in Int
    <3>1. A \in [0 .. Len(tab) -> Nat]
      BY <1>4 DEF TablePlaces
    <3>2. CASE \E i \in 0 .. Len(tab) : AfterRow(tab, A, i)
      BY <3>1, <3>2 DEF AfterRow, FieldStarts
    <3>3. CASE \E i \in 1 .. Len(tab) : InRow(tab, end, A, i)
      BY <1>2, <3>3, RowPos
    <3> QED
      BY <1>4, <3>2, <3>3
  <2> QED
    BY <1>3, <2>1, <2>2
<1>6. PICK i \in 0 .. Len(tab) : AfterRow(tab, A, i)
  BY <1>2, <1>4, <1>5, RowWithin
<1>7. i = Len(tab)
  <2>1. CASE i # Len(tab)
    <3>1. InRow(tab, end, A, i + 1)
      BY <1>2, <1>4, <1>6, <2>1, RowStarts
    <3>2. i + 1 \in 1 .. Len(tab)
      BY <1>2, <2>1
    <3> QED
      BY <1>2, <1>5, <3>1, <3>2, RowWithin
  <2> QED
    BY <2>1
<1>8. lines = ReadTable(tab)
  <2> DEFINE s == ReadTable(tab)
  <2>1. s \in Seq(Seq(Seq(Letters))) /\ Len(s) = Len(tab)
    BY <1>2, ReadTableType
  <2>2. lines = SubSeq(s, 1, Len(s))
    BY <1>6, <1>7, <2>1 DEF AfterRow
  <2> HIDE DEF s
  <2> QED
    BY <2>1, <2>2, SubSeqFull DEF s
<1>9. field = <<>> /\ line = <<>>
  BY <1>6 DEF AfterRow, FieldStarts
<1>10. lines' = WithoutBlank(lines)
  BY <1>9 DEF Finish
<1> QED
  BY <1>1, <1>3, <1>8, <1>10 DEF CsvInv

LEMMA CsvInvariant == CsvSpec => []CsvInv
<1>1. CsvInv /\ [CsvNext]_csvVars => CsvInv'
  <2> SUFFICES ASSUME CsvInv, [CsvNext]_csvVars PROVE CsvInv'
    OBVIOUS
  <2>1. CASE UNCHANGED csvVars
    <3>1. UNCHANGED <<table, text, pos, inQuotes, field, line, lines, done>>
      BY <2>1 DEF csvVars
    <3>2. \A f, b : FieldState(f, b) => FieldState(f, b)'
      BY <3>1 DEF FieldState, FieldStarts, FieldBare, FieldInside, FieldDone
    <3>3. \A tab, i, j, B : InCell(tab, i, j, B) => InCell(tab, i, j, B)'
      BY <3>1, <3>2 DEF InCell
    <3>4. \A tab, end, A, i : InRow(tab, end, A, i) => InRow(tab, end, A, i)'
      BY <3>1, <3>3 DEF InRow
    <3>5. \A tab, A, i : AfterRow(tab, A, i) => AfterRow(tab, A, i)'
      BY <3>1 DEF AfterRow, FieldStarts
    <3>6. \A tab, end : Parsing(tab, end) => Parsing(tab, end)'
      BY <3>1, <3>4, <3>5 DEF Parsing
    <3> QED
      BY <3>1, <3>6 DEF CsvInv
  <2> QED
    BY <2>1, ScanInv, FinishInv DEF CsvNext
<1> QED
  BY <1>1, CsvInitInv, PTL DEF CsvSpec

\* transfer.ts, csvEscape, tagsToCsv and parseCsvRows: whatever the names,
\* addresses and descriptions of the tags hold, reading a table that was written
\* gives its rows again, also when a spreadsheet has changed the ends of the lines.
THEOREM CsvRoundTrip == CsvSpec => []ParseInvertsWrite
<1>1. CsvInv => ParseInvertsWrite
  <2> SUFFICES ASSUME CsvInv, done PROVE lines = WithoutBlank(ReadTable(table))
    BY DEF ParseInvertsWrite, ReadTable, ReadRow
  <2> QED
    BY DEF CsvInv
<1> QED
  BY <1>1, CsvInvariant, PTL
=============================================================================
