----------------------------- MODULE MqttProofs -----------------------------
(***************************************************************************)
(* MQTT: the manager leaks no client, an agent keeps its subscribers and    *)
(* timers in step, and the console's page neither forgets a change nor      *)
(* takes a password into another agent's form.                              *)
(***************************************************************************)
EXTENDS MqttManager, MqttAgent, AgentPage, TagEngineProofs

-----------------------------------------------------------------------------
(* The manager.  No client of an agent is ever leaked, and nothing runs after  *)
(* stop().  The two facts carry each other: stop() ends all clients because    *)
(* none was leaked before.                                                     *)

ManagerInv == ManagerTypeOK /\ OneLiveClient /\ NothingRunsAfterStop

\* Nothing runs before the first reconciliation or after the last.
LEMMA ManagerInitInv == ManagerInit => ManagerInv
<1> SUFFICES ASSUME ManagerInit PROVE ManagerInv
  OBVIOUS
<1>1. ManagerTypeOK
  <2>1. 0 \in 0 .. Debounce /\ 0 \in 0 .. MaxChanges /\ 0 \in 0 .. MaxFailures
    BY ManagerAssumption
  <2>2. opened \in [Agents -> Nat]
    BY DEF ManagerInit
  <2> QED
    BY <2>1, <2>2 DEF ManagerInit, ManagerTypeOK
<1>2. OneLiveClient
  BY DEF ManagerInit, OneLiveClient
<1>3. NothingRunsAfterStop
  BY DEF ManagerInit, NothingRunsAfterStop
<1> QED
  BY <1>1, <1>2, <1>3 DEF ManagerInv

\* A reconciliation ends the client of every runtime it drops and enters every
\* client it opens into a runtime.
LEMMA ReconcileInv ==
    ASSUME ManagerTypeOK, OneLiveClient, Reconcile
    PROVE  /\ runtimes' \in [Agents -> [config : AgentConfigs, client : Nat] \cup {NoAgent}]
           /\ live' \subseteq [agent : Agents, client : Nat \ {0}]
           /\ opened' \in [Agents -> Nat]
           /\ failed' \in BOOLEAN
           /\ failures' \in 0 .. MaxFailures
           /\ OneLiveClient'
<1> PICK opens \in SUBSET {a \in Changed : saved[a].enabled} :
      /\ runtimes' = [a \in Agents |->
                        IF a \in Changed
                          THEN [config |-> saved[a],
                                client |-> IF a \in opens THEN opened[a] + 1 ELSE 0]
                        ELSE IF a \in Removed THEN NoAgent
                        ELSE runtimes[a]]
      /\ live' = {c \in live : ~ (/\ c.agent \in Stopped
                                  /\ c.client = runtimes[c.agent].client)}
                   \cup {Client(a, opened[a] + 1) : a \in opens}
      /\ opened' = [a \in Agents |-> IF a \in opens THEN opened[a] + 1 ELSE opened[a]]
      /\ failed' = FALSE
      /\ UNCHANGED failures
  BY DEF Reconcile
<1>1. opens \subseteq Agents /\ opens \subseteq Changed
  BY DEF Changed
<1>2. \A a \in Agents : opened[a] \in Nat /\ opened[a] + 1 \in Nat \ {0}
  BY DEF ManagerTypeOK
<1>3. \A a \in Changed : saved[a] \in AgentConfigs
  BY DEF Changed, ManagerTypeOK, Rows
<1>4. runtimes' \in [Agents -> [config : AgentConfigs, client : Nat] \cup {NoAgent}]
  BY <1>2, <1>3 DEF ManagerTypeOK
<1>5. live' \subseteq [agent : Agents, client : Nat \ {0}]
  BY <1>1, <1>2 DEF ManagerTypeOK, Client
<1>6. opened' \in [Agents -> Nat]
  BY <1>2
<1>7. OneLiveClient'
  <2> DEFINE Running == {b \in Agents : runtimes'[b] # NoAgent /\ runtimes'[b].client # 0}
  <2>1. ASSUME NEW a \in Running PROVE Client(a, runtimes'[a].client) \in live'
    <3>1. CASE a \in Changed
      BY <3>1
    <3>2. CASE a \notin Changed
      <4>1. a \notin Stopped /\ runtimes'[a] = runtimes[a]
        BY <3>2 DEF Stopped
      <4>2. Client(a, runtimes[a].client) \in live
        BY <4>1 DEF OneLiveClient
      <4> QED
        BY <4>1, <4>2 DEF Client
    <3> QED
      BY <3>1, <3>2
  <2>2. ASSUME NEW c \in live' PROVE \E a \in Running : c = Client(a, runtimes'[a].client)
    <3>1. CASE \E a \in opens : c = Client(a, opened[a] + 1)
      <4> PICK a \in opens : c = Client(a, opened[a] + 1)
        BY <3>1
      <4>1. runtimes'[a] = [config |-> saved[a], client |-> opened[a] + 1]
        BY <1>1
      <4>2. runtimes'[a] # NoAgent
        BY <4>1, <1>1, <1>2, <1>3, ManagerAssumption
      <4> QED
        BY <4>1, <4>2, <1>1, <1>2
    <3>2. CASE c \in live /\ ~ (c.agent \in Stopped /\ c.client = runtimes[c.agent].client)
      <4> PICK a \in Agents : /\ runtimes[a] # NoAgent /\ runtimes[a].client # 0
                              /\ c = Client(a, runtimes[a].client)
        BY <3>2 DEF OneLiveClient
      <4>1. a \notin Stopped
        BY <3>2 DEF Client
      <4>2. runtimes'[a] = runtimes[a]
        BY <4>1 DEF Stopped
      <4> QED
        BY <4>2
    <3> QED
      BY <3>1, <3>2
  <2>3. live' \subseteq {Client(a, runtimes'[a].client) : a \in Running}
    BY <2>2
  <2>4. {Client(a, runtimes'[a].client) : a \in Running} \subseteq live'
    BY <2>1
  <2>5. live' = {Client(a, runtimes'[a].client) : a \in Running}
    BY <2>3, <2>4
  <2> QED
    BY <2>5 DEF OneLiveClient, Client
<1> QED
  BY <1>4, <1>5, <1>6, <1>7 DEF ManagerTypeOK

\* The store cannot be read: nothing of what the invariant is about moves.
LEMMA CannotReadInv ==
    ASSUME ManagerTypeOK, OneLiveClient, CannotRead
    PROVE  /\ runtimes' \in [Agents -> [config : AgentConfigs, client : Nat] \cup {NoAgent}]
           /\ live' \subseteq [agent : Agents, client : Nat \ {0}]
           /\ opened' \in [Agents -> Nat]
           /\ failed' \in BOOLEAN
           /\ failures' \in 0 .. MaxFailures
           /\ OneLiveClient'
<1>1. failures + 1 \in 0 .. MaxFailures
  BY ManagerAssumption DEF ManagerTypeOK, CannotRead
<1> QED
  BY <1>1 DEF ManagerTypeOK, OneLiveClient, CannotRead

\* Every step keeps the invariant.
LEMMA ManagerNextInv ==
    ASSUME ManagerInv, [ManagerNext]_managerVars
    PROVE  ManagerInv'
<1> USE ManagerAssumption DEF ManagerInv
<1>1. CASE Start
  <2>1. OneLiveClient' /\ ManagerTypeOK'
    BY <1>1, ReconcileInv, CannotReadInv DEF Start, ManagerTypeOK
  <2>2. NothingRunsAfterStop'
    BY <1>1 DEF Start, NothingRunsAfterStop
  <2> QED
    BY <2>1, <2>2
<1>2. CASE Tick
  <2>1. timer - 1 \in 0 .. Debounce
    BY <1>2 DEF Tick, ManagerTypeOK
  <2> QED
    BY <1>2, <2>1 DEF Tick, ManagerTypeOK, OneLiveClient, NothingRunsAfterStop
<1>3. CASE DebounceElapses
  <2>1. OneLiveClient' /\ ManagerTypeOK'
    BY <1>3, ReconcileInv, CannotReadInv DEF DebounceElapses, ManagerTypeOK
  <2>2. NothingRunsAfterStop'
    BY <1>3 DEF DebounceElapses, NothingRunsAfterStop
  <2> QED
    BY <2>1, <2>2
<1>4. CASE StopManager
  <2>1. \A a \in Agents : runtimes'[a] = NoAgent
    BY <1>4 DEF StopManager
  <2>2. live' = {}
    BY <1>4 DEF StopManager, OneLiveClient
  <2>3. OneLiveClient'
    BY <2>1, <2>2 DEF OneLiveClient
  <2> QED
    BY <1>4, <2>2, <2>3 DEF StopManager, ManagerTypeOK, NothingRunsAfterStop
<1>5. ASSUME Notify, saved' \in [Agents -> Rows] PROVE ManagerInv'
  <2>1. changes + 1 \in 0 .. MaxChanges
    BY <1>5 DEF Notify, ManagerTypeOK
  <2> QED
    BY <1>5, <2>1 DEF Notify, ManagerTypeOK, OneLiveClient, NothingRunsAfterStop
<1>6. CASE \E a \in Agents, row \in Rows : EditAgent(a, row)
  BY <1>5, <1>6 DEF EditAgent, ManagerTypeOK
<1>7. CASE EditOther
  BY <1>5, <1>7 DEF EditOther, ManagerTypeOK
<1>8. CASE UNCHANGED managerVars
  BY <1>8 DEF managerVars, ManagerTypeOK, OneLiveClient, NothingRunsAfterStop
<1> QED
  BY <1>1, <1>2, <1>3, <1>4, <1>6, <1>7, <1>8 DEF ManagerNext

LEMMA ManagerInvariant == ManagerSpec => []ManagerInv
<1>1. ManagerInv /\ [ManagerNext]_managerVars => ManagerInv'
  BY ManagerNextInv
<1> QED
  BY ManagerInitInv, <1>1, PTL DEF ManagerSpec

\* No client is leaked and no agent has two, for any number of agents, edits
\* and failures (manager.ts:51-71).
THEOREM NoLeakedClient == ManagerSpec => []OneLiveClient
<1>1. ManagerInv => OneLiveClient
  BY DEF ManagerInv
<1> QED
  BY ManagerInvariant, <1>1, PTL

\* stop() is final, whatever was scheduled before it (manager.ts:93-98).
THEOREM StopIsFinal == ManagerSpec => []NothingRunsAfterStop
<1>1. ManagerInv => NothingRunsAfterStop
  BY DEF ManagerInv
<1> QED
  BY ManagerInvariant, <1>1, PTL

\* A reconciliation replaces a runtime only if its configuration is another one.
LEMMA ReconcileReconnects ==
    ASSUME ManagerTypeOK, Reconcile, NEW a \in Agents,
           runtimes[a] # NoAgent, runtimes'[a] # NoAgent, runtimes'[a] # runtimes[a]
    PROVE  runtimes'[a].config # runtimes[a].config
<1>1. PICK opens \in SUBSET {b \in Changed : saved[b].enabled} :
        runtimes' = [b \in Agents |->
                       IF b \in Changed
                         THEN [config |-> saved[b],
                               client |-> IF b \in opens THEN opened[b] + 1 ELSE 0]
                       ELSE IF b \in Removed THEN NoAgent
                       ELSE runtimes[b]]
  BY DEF Reconcile
<1>2. a \in Changed
  BY <1>1
<1>3. runtimes[a].config # saved[a]
  BY <1>2 DEF Changed
<1>4. runtimes'[a].config = saved[a]
  BY <1>1, <1>2
<1> QED
  BY <1>3, <1>4

\* "agents are started/stopped/restarted only when their own configuration changes":
\* no broker connection is given up for the same configuration (manager.ts:13-14, 51-71).
THEOREM ConnectionsKept == ManagerSpec => OnlyEditsReconnect
<1> DEFINE RestartedForCause == \A a \in Agents :
             (runtimes[a] # NoAgent /\ runtimes'[a] # NoAgent /\ runtimes'[a] # runtimes[a])
             => runtimes'[a].config # runtimes[a].config
<1>1. ManagerInv /\ [ManagerNext]_managerVars => [RestartedForCause]_managerVars
  <2> SUFFICES ASSUME ManagerInv, ManagerNext PROVE RestartedForCause
    OBVIOUS
  <2>1. ManagerTypeOK
    BY DEF ManagerInv
  <2>2. CASE Start \/ DebounceElapses
    <3>1. Reconcile \/ runtimes' = runtimes
      BY <2>2 DEF Start, DebounceElapses, CannotRead
    <3> QED
      BY <2>1, <3>1, ReconcileReconnects
  <2>3. CASE StopManager
    BY <2>3 DEF StopManager
  <2>4. CASE Tick \/ EditOther \/ \E a \in Agents, row \in Rows : EditAgent(a, row)
    BY <2>4 DEF Tick, EditOther, EditAgent, Notify
  <2> QED
    BY <2>2, <2>3, <2>4 DEF ManagerNext
<1> QED
  BY ManagerInvariant, <1>1, PTL DEF ManagerSpec, OnlyEditsReconnect

-----------------------------------------------------------------------------
(* The agent.  What a subscriber has is compared with what the engine reported  *)
(* last, not with what it holds: a change event for a tag makes the two the     *)
(* same, and between events neither the reported value nor the quality moves.   *)

\* A change event is emitted for the tag.
Reports(t) == \E e \in events' : e.type = "change" /\ e.tag = t

\* What a driver's call does to the tag, as far as its listeners are concerned.
Follows(t) ==
    /\ tags'[t] = Absent <=> tags[t] = Absent
    /\ tags[t] = Absent => ~ Reports(t)
    /\ tags[t] # Absent =>
         /\ tags'[t].config = tags[t].config
         /\ Reports(t) => tags'[t].reportedValue = tags'[t].current.value
         /\ ~ Reports(t) => /\ tags'[t].reportedValue = tags[t].reportedValue
                            /\ tags'[t].current.quality = tags[t].current.quality

\* updateRaw (tag-engine.ts:112-137).
LEMMA UpdateFollows ==
    ASSUME EngineInv, NEW t \in Tags, NEW raw \in RawValues, UpdateRaw(t, raw, "good"),
           NEW u \in Tags
    PROVE  Follows(u)
<1> USE AbsentAssumption
<1> DEFINE value == IF raw = NULL THEN NULL ELSE ProcessValue(tags[t].config, raw)
           up == Updated(tags[t], value, "good")
           reports == UpdateReports(tags[t], value, "good")
<1>1. /\ TypeOK /\ tags[t] # Absent /\ tags[t] \in RuntimeTags
      /\ InStep(tags[t], seen[t])
  BY EngineInvByTag, KnownType DEF UpdateRaw
<1>2. value \in Values
  <2>1. tags[t].config \in ConfigSpace /\ raw \in Primitives
    BY <1>1, KnownType, ConfigAssumption, InputAssumption
  <2> QED
    BY <2>1, ProcessValueType DEF Values
<1>3. /\ tags' = [tags EXCEPT ![t] = up]
      /\ events' = IF reports THEN {Change(t, tags'[t].current)} ELSE {}
  BY DEF UpdateRaw
<1> HIDE DEF value
<1>4. up \in RuntimeTags /\ up.config = tags[t].config
  BY <1>1, <1>2, UpdatedInStep DEF Qualities
<1>5. /\ reports => up.reportedValue = up.current.value
      /\ ~ reports => up.reportedValue = tags[t].reportedValue /\ up.current.quality = "good"
  BY <1>1 DEF Updated, RuntimeTags
<1>6. ~ reports => tags[t].current.quality = "good"
  BY <1>1 DEF UpdateReports, InStep
<1>7. tags'[t] = up /\ \A w \in Tags \ {t} : tags'[w] = tags[w]
  BY <1>1, <1>3 DEF TypeOK
<1>8. \A w \in Tags : Reports(w) <=> w = t /\ reports
  <2>1. /\ Change(t, tags'[t].current).type = "change"
        /\ Change(t, tags'[t].current).tag = t
    BY DEF Change
  <2> HIDE DEF reports
  <2> QED
    BY <1>3, <2>1 DEF Reports
<1> HIDE DEF up, reports
<1> QED
  BY <1>1, <1>4, <1>5, <1>6, <1>7, <1>8 DEF Follows

\* setQuality, of one tag or of a device (tag-engine.ts:144-162).
LEMMA MarkFollows ==
    ASSUME EngineInv, NEW ids \in SUBSET Tags, NEW quality \in Qualities,
           NEW error \in Errors \cup {NoError}, quality # "good",
           MarkQuality(ids, quality, error), NEW u \in Tags
    PROVE  Follows(u)
<1> USE AbsentAssumption
<1> DEFINE marked == {w \in ids : tags[w] # Absent /\ QualityReports(tags[w], quality, error)}
<1>1. /\ \A w \in Tags : tags'[w] = IF w \in ids /\ tags[w] # Absent
                                      THEN Requalified(tags[w], quality, error) ELSE tags[w]
      /\ events' = {Change(w, tags'[w].current) : w \in marked}
  BY DEF MarkQuality
<1>2. Reports(u) <=> u \in marked
  <2>1. \A w \in marked : /\ Change(w, tags'[w].current).type = "change"
                          /\ Change(w, tags'[w].current).tag = w
    BY DEF Change
  <2> HIDE DEF marked
  <2>2. events' = {Change(w, tags'[w].current) : w \in marked}
    BY <1>1 DEF marked
  <2>3. \A e \in events' : e.tag \in marked
    BY <2>1, <2>2
  <2>4. \A w \in marked : \E e \in events' : e.type = "change" /\ e.tag = w
    BY <2>1, <2>2
  <2> QED
    BY <2>3, <2>4 DEF Reports
<1>3. CASE tags[u] = Absent
  BY <1>1, <1>2, <1>3 DEF Follows
<1>4. CASE tags[u] # Absent /\ u \notin marked
  <2>1. tags'[u] = tags[u]
    BY <1>1, <1>4 DEF Requalified
  <2> QED
    BY <1>2, <1>4, <2>1 DEF Follows
<1>5. CASE u \in marked
  <2> DEFINE up == Requalified(tags[u], quality, error)
  <2>1. tags[u] \in RuntimeTags /\ InStep(tags[u], seen[u]) /\ tags[u] # Absent
    BY <1>5, EngineInvByTag, KnownType
  <2>2. up \in RuntimeTags /\ up.config = tags[u].config
    BY <2>1, RequalifiedInStep
  <2>3. tags'[u] = up
    BY <1>1, <1>5
  <2>4. up.reportedValue = up.current.value
    <3> DEFINE new == [tags[u].current EXCEPT !.quality = quality, !.error = error]
    <3>1. new.value = tags[u].current.value
      BY <2>1 DEF RuntimeTags, TagValues
    <3>2. up = [tags[u] EXCEPT !.current = new, !.reportedQuality = quality,
                               !.reportedValue = tags[u].current.value]
      BY <1>5, <2>1 DEF Requalified, RuntimeTags
    <3>3. up.current = new /\ up.reportedValue = tags[u].current.value
      <4> HIDE DEF new
      <4> QED
        BY <2>1, <3>2 DEF RuntimeTags
    <3> QED
      BY <3>1, <3>3
  <2> HIDE DEF up
  <2> QED
    BY <1>2, <1>5, <2>1, <2>2, <2>3, <2>4 DEF Follows
<1> QED
  BY <1>3, <1>4, <1>5

\* A call a driver makes keeps the engine's invariant and serves its listeners.
LEMMA DriverFollows ==
    ASSUME EngineInv,
           DriverStep \/ \E d \in Devices, e \in Errors : SetQualityForDevice(d, "bad", e)
    PROVE  EngineInv' /\ \A t \in Tags : Follows(t)
<1>1. ASSUME NEW t \in Tags, NEW raw \in RawValues, UpdateRaw(t, raw, "good")
      PROVE  EngineInv' /\ \A u \in Tags : Follows(u)
  BY <1>1, UpdateRawInv, UpdateFollows
<1>2. ASSUME NEW t \in Tags, NEW q \in {"bad", "uncertain"}, NEW e \in Errors \cup {NoError},
             SetQuality(t, q, e)
      PROVE  EngineInv' /\ \A u \in Tags : Follows(u)
  <2>1. MarkQuality({t}, q, e) /\ {t} \in SUBSET Tags /\ q \in Qualities /\ q # "good"
    BY <1>2 DEF SetQuality, Qualities
  <2> QED
    BY <2>1, MarkQualityInv, MarkFollows
<1>3. ASSUME NEW d \in Devices, NEW e \in Errors, SetQualityForDevice(d, "bad", e)
      PROVE  EngineInv' /\ \A u \in Tags : Follows(u)
  <2>1. /\ MarkQuality(byDevice[d], "bad", e) /\ byDevice[d] \in SUBSET Tags
        /\ "bad" \in Qualities /\ e \in Errors \cup {NoError}
    BY <1>3 DEF SetQualityForDevice, Qualities, EngineInv, TypeOK
  <2> QED
    BY <2>1, MarkQualityInv, MarkFollows
<1> QED
  BY <1>1, <1>2, <1>3 DEF DriverStep

\* What is published is a value and its quality.
LEMMA ShownType ==
    ASSUME NEW data \in TagValues
    PROVE  /\ Shown(data) \in [value : Values, quality : Qualities]
           /\ Shown(data) # Absent
           /\ Shown(data).value = data.value
           /\ Shown(data).quality = data.quality
<1>1. Shown(data) \in [value : Values, quality : Qualities]
  BY DEF Shown, TagValues
<1> QED
  BY <1>1, AgentAssumption DEF Shown

\* Timers depend on the configurations of the tags alone.
LEMMA SameTimers ==
    ASSUME \A t \in Tags : Follows(t)
    PROVE  TimersFor("connected", tags') = TimersFor("connected", tags)
<1>1. \A u \in Tags : /\ tags'[u] # Absent <=> tags[u] # Absent
                      /\ tags[u] # Absent => tags'[u].config = tags[u].config
  BY DEF Follows
<1> QED
  BY <1>1 DEF TimersFor

\* The interval a tag is published on is one of the intervals.
LEMMA IntervalsOf ==
    ASSUME NEW c \in Configs, InMode(c, "interval")
    PROVE  Resolve(c).interval \in Intervals
  BY AgentAssumption DEF Resolve, InMode

LEMMA TimersType ==
    ASSUME TypeOK
    PROVE  TimersFor("connected", tags) \subseteq Intervals
  BY KnownType, IntervalsOf DEF TimersFor

\* What the agent's filter drops is within its deadband of what it published, or
\* next to a NaN (render.ts:116-130).
LEMMA DroppedIsNear ==
    ASSUME NEW prev \in Values, NEW next \in Values, NEW d \in Nat, d <= MaxAgentDeadband,
           ~ ExceedsDeadband(prev, next, d)
    PROVE  \/ NaN \in {prev, next}
           \/ Near(prev, next, AtLeast(MaxAgentDeadband, MaxDeadband))
<1>1. MaxAgentDeadband \in Nat /\ MaxDeadband \in Nat
  BY AgentAssumption, ConfigAssumption
<1>2. d <= AtLeast(MaxAgentDeadband, MaxDeadband) /\ AtLeast(MaxAgentDeadband, MaxDeadband) \in Nat
  BY <1>1 DEF AtLeast
<1>3. CASE prev \in Numbers /\ next \in Numbers /\ prev # NaN /\ next # NaN
  <2>1. prev \in Int /\ next \in Int
    BY <1>3 DEF Numbers
  <2>2. next - prev <= d /\ prev - next <= d
    BY <1>3, <2>1 DEF ExceedsDeadband
  <2> QED
    BY <1>2, <2>1, <2>2 DEF Near
<1>4. CASE ~ (prev \in Numbers /\ next \in Numbers)
  <2>1. prev = next
    BY <1>4 DEF ExceedsDeadband
  <2> QED
    BY <2>1 DEF Near
<1> QED
  BY <1>3, <1>4

\* The agent is within a deadband of what the engine reported last of one tag.
Published(t) ==
    /\ connected
    /\ tags[t] # Absent /\ InMode(tags[t].config, "on-change")
    /\ last[t] # Absent /\ last[t].quality = tags[t].current.quality
    /\ \/ NaN \in {last[t].value, tags[t].reportedValue}
       \/ Near(last[t].value, tags[t].reportedValue, AtLeast(MaxAgentDeadband, MaxDeadband))

\* onTagChange.
LEMMA FollowEngineInv ==
    ASSUME AgentInv, FollowEngine
    PROVE  AgentInv'
<1>1. EngineInv /\ EngineInv' /\ TypeOK' /\ \A t \in Tags : Follows(t)
  BY DriverFollows DEF AgentInv, EngineInv, FollowEngine
<1>2. /\ sent' = Heard
      /\ last' = [t \in Tags |-> IF t \in Heard THEN Shown(tags'[t].current) ELSE last[t]]
      /\ steady' = steady \cup Heard
      /\ UNCHANGED <<state, client, connected, timers, ended, edits>>
  BY DEF FollowEngine, Publish
<1>3. ASSUME NEW t \in Heard
      PROVE  /\ t \in Tags /\ Reports(t) /\ state = "connected"
             /\ tags'[t] # Absent /\ InMode(tags'[t].config, "on-change")
             /\ Shown(tags'[t].current) \in [value : Values, quality : Qualities]
             /\ Shown(tags'[t].current) # Absent
             /\ Shown(tags'[t].current).value = tags'[t].current.value
             /\ Shown(tags'[t].current).quality = tags'[t].current.quality
  <2>1. /\ t \in Tags /\ Reports(t) /\ state = "connected"
        /\ InMode(tags'[t].config, "on-change")
    BY DEF Heard, Reports
  <2>2. tags'[t] # Absent
    BY <1>1, <2>1 DEF Follows
  <2>3. tags'[t].current \in TagValues
    BY <1>1, <2>1, <2>2 DEF TypeOK, RuntimeTags
  <2> QED
    BY <2>1, <2>2, <2>3, ShownType
<1>4. AgentTypeOK'
  <2>1. Heard \subseteq Tags
    BY <1>3
  <2>2. last' \in [Tags -> {Absent} \cup [value : Values, quality : Qualities]]
    BY <1>2, <1>3 DEF AgentInv, AgentTypeOK
  <2> QED
    BY <1>1, <1>2, <2>1, <2>2 DEF AgentInv, AgentTypeOK
<1>5. StatusIsClients'
  BY <1>2 DEF AgentInv, StatusIsClients
<1>6. TimersMatchTags'
  BY <1>1, <1>2, SameTimers DEF AgentInv, TimersMatchTags
<1>7. ASSUME NEW t \in steady' PROVE Published(t)'
  <2> USE DEF AgentInv, PublishedNearReported, StatusIsClients
  <2>1. t \in Tags /\ Follows(t)
    BY <1>1, <1>2, <1>3 DEF AgentTypeOK
  <2>2. CASE t \in Heard
    <3>1. last'[t] = Shown(tags'[t].current)
      BY <1>2, <2>1, <2>2
    <3>2. tags'[t].reportedValue = tags'[t].current.value
      BY <1>3, <2>1, <2>2 DEF Follows
    <3>3. Near(last'[t].value, tags'[t].reportedValue, AtLeast(MaxAgentDeadband, MaxDeadband))
      BY <1>3, <2>2, <3>1, <3>2 DEF Near
    <3> QED
      BY <1>2, <1>3, <2>2, <3>1, <3>3 DEF Published
  <2>3. CASE t \notin Heard
    <3>1. /\ t \in steady /\ connected /\ state = "connected" /\ client /\ ~ ended
          /\ tags[t] # Absent /\ InMode(tags[t].config, "on-change")
          /\ last[t] # Absent /\ last[t].quality = tags[t].current.quality
      BY <1>2, <2>3
    <3>2. /\ tags'[t] # Absent /\ tags'[t].config = tags[t].config
          /\ last'[t] = last[t] /\ connected'
      BY <1>2, <2>1, <2>3, <3>1 DEF Follows
    <3>3. CASE ~ Reports(t)
      BY <2>1, <3>1, <3>2, <3>3 DEF Follows, Published
    <3>4. CASE Reports(t)
      <4>1. ~ PublishWorthy(tags'[t].config, last[t], tags'[t].current)
        BY <2>1, <2>3, <3>1, <3>2, <3>4 DEF Heard, Reports
      <4>2. /\ last[t].quality = tags'[t].current.quality
            /\ ~ ExceedsDeadband(last[t].value, tags'[t].current.value,
                                 Resolve(tags[t].config).deadband)
        BY <3>1, <3>2, <4>1 DEF PublishWorthy
      <4>3. last[t].value \in Values /\ tags'[t].current.value \in Values
        <5>1. tags'[t].current \in TagValues
          BY <1>1, <2>1, <3>2 DEF TypeOK, RuntimeTags
        <5> QED
          BY <2>1, <3>1, <5>1 DEF AgentTypeOK, TagValues
      <4>4. /\ Resolve(tags[t].config).deadband \in Nat
            /\ Resolve(tags[t].config).deadband <= MaxAgentDeadband
        <5>1. tags[t].config \in Configs /\ Resolve(tags[t].config) # Absent
          BY <1>1, <2>1, <3>1, KnownType DEF EngineInv, InMode
        <5>2. Resolve(tags[t].config).deadband \in Nat
          BY <5>1, AgentAssumption DEF Resolve
        <5> QED
          BY <5>1, <5>2, AgentDeadbandAssumption
      <4>5. \/ NaN \in {last[t].value, tags'[t].current.value}
            \/ Near(last[t].value, tags'[t].current.value, AtLeast(MaxAgentDeadband, MaxDeadband))
        BY <4>2, <4>3, <4>4, DroppedIsNear
      <4>6. tags'[t].reportedValue = tags'[t].current.value
        BY <2>1, <3>1, <3>4 DEF Follows
      <4> QED
        BY <3>1, <3>2, <4>2, <4>5, <4>6 DEF Published
    <3> QED
      BY <3>3, <3>4
  <2> QED
    BY <2>2, <2>3
<1>8. PublishedNearReported'
  BY <1>7 DEF PublishedNearReported, Published
<1> QED
  BY <1>1, <1>4, <1>5, <1>6, <1>8 DEF AgentInv

\* Tags an edit leaves keep what the engine reported of them.
LEMMA LoadKeepsReported ==
    ASSUME EngineInv, NEW configs \in [Tags -> Configs \cup {Absent}], Load(configs),
           NEW t \in Tags, tags[t] # Absent, tags'[t] # Absent
    PROVE  tags'[t].current = tags[t].current /\ tags'[t].reportedValue = tags[t].reportedValue
<1>1. tags'[t] = [tags[t] EXCEPT !.config = configs[t]]
  BY DEF Load, Loaded
<1>2. tags[t] \in RuntimeTags
  BY KnownType DEF EngineInv
<1> QED
  BY <1>1, <1>2 DEF RuntimeTags

\* onConfigChange.
LEMMA ConfigChangeInv ==
    ASSUME AgentInv, ConfigChange
    PROVE  AgentInv'
<1>1. PICK configs \in [Tags -> Configs \cup {Absent}] : Load(configs)
  BY DEF ConfigChange
<1>2. EngineInv /\ EngineInv' /\ TypeOK'
  BY <1>1, LoadInv DEF AgentInv, EngineInv
<1>3. /\ sent' = {}
      /\ last' = [t \in Tags |-> last[t]]
      /\ timers' = IF client /\ ~ ended THEN TimersFor(state, tags') ELSE timers
      /\ steady' = {t \in steady : tags'[t] # Absent /\ InMode(tags'[t].config, "on-change")}
      /\ edits < MaxEdits /\ edits' = edits + 1
      /\ UNCHANGED <<state, client, connected, ended>>
  BY DEF ConfigChange, Publish
<1>4. AgentTypeOK'
  <2>1. TimersFor(state, tags') \subseteq Intervals
    <3>1. ASSUME NEW t \in Tags, tags'[t] # Absent, InMode(tags'[t].config, "interval")
          PROVE  Resolve(tags'[t].config).interval \in Intervals
      <4>1. tags'[t].config \in Configs
        BY <1>2, <3>1 DEF TypeOK, RuntimeTags
      <4> QED
        BY <3>1, <4>1, IntervalsOf
    <3> QED
      BY <3>1 DEF TimersFor
  <2>2. edits' \in 0 .. MaxEdits
    BY <1>3, AgentAssumption DEF AgentInv, AgentTypeOK
  <2>3. last' = last /\ steady' \subseteq Tags
    BY <1>3 DEF AgentInv, AgentTypeOK
  <2>4. timers' \subseteq Intervals
    BY <1>3, <2>1 DEF AgentInv, AgentTypeOK
  <2> QED
    BY <1>2, <1>3, <2>2, <2>3, <2>4 DEF AgentInv, AgentTypeOK
<1>5. StatusIsClients'
  BY <1>3 DEF AgentInv, StatusIsClients
<1>6. TimersMatchTags'
  BY <1>3 DEF AgentInv, TimersMatchTags, StatusIsClients
<1>7. ASSUME NEW t \in steady' PROVE Published(t)'
  <2>1. /\ t \in Tags /\ t \in steady /\ tags[t] # Absent
        /\ tags'[t] # Absent /\ InMode(tags'[t].config, "on-change")
        /\ last'[t] = last[t]
    BY <1>3 DEF AgentInv, AgentTypeOK, PublishedNearReported
  <2>2. tags'[t].current = tags[t].current /\ tags'[t].reportedValue = tags[t].reportedValue
    BY <1>1, <1>2, <2>1, LoadKeepsReported
  <2> QED
    BY <1>3, <2>1, <2>2 DEF AgentInv, PublishedNearReported, Published
<1>8. PublishedNearReported'
  BY <1>7 DEF PublishedNearReported, Published
<1> QED
  BY <1>2, <1>4, <1>5, <1>6, <1>8 DEF AgentInv

\* The broker's answer: everything is published, and the two deadbands start
\* from the value the engine holds.
LEMMA ConnectInv ==
    ASSUME AgentInv, Connect
    PROVE  AgentInv'
<1> DEFINE ids == {t \in Known : Resolve(tags[t].config) # Absent}
<1>1. /\ client /\ ~ ended /\ state' = "connected" /\ connected' = TRUE
      /\ sent' = ids
      /\ last' = [t \in Tags |-> IF t \in ids THEN Shown(tags[t].current) ELSE last[t]]
      /\ steady' = {t \in Known : InMode(tags[t].config, "on-change")}
      /\ timers' = TimersFor("connected", tags)
      /\ UNCHANGED <<vars, client, ended, edits>>
  BY DEF Connect, Publish
<1>2. EngineInv /\ EngineInv'
  BY <1>1, NextInv DEF AgentInv
<1>3. \A t \in Known : /\ tags[t].current \in TagValues
                        /\ Shown(tags[t].current) \in [value : Values, quality : Qualities]
                        /\ Shown(tags[t].current) # Absent
                        /\ Shown(tags[t].current).value = tags[t].current.value
                        /\ Shown(tags[t].current).quality = tags[t].current.quality
  BY <1>2, KnownType, ShownType DEF Known, EngineInv
<1>4. AgentTypeOK'
  <2>1. timers' \subseteq Intervals
    BY <1>1, <1>2, TimersType DEF EngineInv
  <2>2. sent' \subseteq Tags /\ steady' \subseteq Tags
    BY <1>1 DEF Known
  <2>3. last' \in [Tags -> {Absent} \cup [value : Values, quality : Qualities]]
    BY <1>1, <1>3 DEF AgentInv, AgentTypeOK
  <2> QED
    BY <1>1, <1>2, <2>1, <2>2, <2>3 DEF AgentInv, AgentTypeOK, EngineInv
<1>5. StatusIsClients'
  BY <1>1 DEF StatusIsClients
<1>6. TimersMatchTags'
  BY <1>1 DEF TimersMatchTags, vars
<1>7. ASSUME NEW t \in steady' PROVE Published(t)'
  <2>1. t \in Known /\ t \in Tags /\ tags[t] # Absent /\ InMode(tags[t].config, "on-change")
    BY <1>1 DEF Known
  <2>2. last'[t] = Shown(tags[t].current)
    BY <1>1, <2>1 DEF InMode
  <2>3. Near(tags[t].current.value, tags[t].reportedValue, AtLeast(MaxAgentDeadband, MaxDeadband))
    <3>1. Near(tags[t].current.value, tags[t].reportedValue, MaxDeadband)
      BY <1>2, <2>1 DEF EngineInv, ReportedInStep
    <3>2. MaxDeadband <= AtLeast(MaxAgentDeadband, MaxDeadband)
      BY AgentAssumption, ConfigAssumption DEF AtLeast
    <3>3. MaxDeadband \in Nat /\ AtLeast(MaxAgentDeadband, MaxDeadband) \in Nat
      BY AgentAssumption, ConfigAssumption DEF AtLeast
    <3> QED
      BY <3>1, <3>2, <3>3 DEF Near
  <2>4. tags' = tags /\ connected'
    BY <1>1 DEF vars
  <2> QED
    BY <1>3, <2>1, <2>2, <2>3, <2>4 DEF Published
<1>8. PublishedNearReported'
  BY <1>7 DEF PublishedNearReported, Published
<1> QED
  BY <1>2, <1>4, <1>5, <1>6, <1>8 DEF AgentInv

\* Steps beside the engine after which nothing is promised, or what was before.
LEMMA AsideInv ==
    ASSUME AgentInv, Close \/ ClientError \/ Stop
    PROVE  AgentInv'
<1>1. EngineInv' /\ TypeOK'
  BY NextInv DEF AgentInv, EngineInv, Close, ClientError, Stop
<1>2. AgentTypeOK'
  BY <1>1 DEF AgentInv, AgentTypeOK, Close, ClientError, Stop
<1>3. StatusIsClients'
  BY DEF AgentInv, StatusIsClients, Close, ClientError, Stop
<1>4. TimersMatchTags'
  BY DEF AgentInv, TimersMatchTags, Close, ClientError, Stop, vars
<1>5. PublishedNearReported'
  BY DEF AgentInv, PublishedNearReported, Close, ClientError, Stop, vars
<1> QED
  BY <1>1, <1>2, <1>3, <1>4, <1>5 DEF AgentInv

\* publishIntervalGroup publishes no tag that is published on change.
LEMMA IntervalFiresInv ==
    ASSUME AgentInv, NEW i \in Intervals, IntervalFires(i)
    PROVE  AgentInv'
<1> DEFINE ids == IF ~ connected THEN {}
                  ELSE {t \in Known : /\ InMode(tags[t].config, "interval")
                                      /\ Resolve(tags[t].config).interval = i}
<1>1. /\ sent' = ids
      /\ last' = [t \in Tags |-> IF t \in ids THEN Shown(tags[t].current) ELSE last[t]]
      /\ UNCHANGED <<vars, state, client, connected, timers, ended, steady, edits>>
  BY DEF IntervalFires, Publish
<1>2. EngineInv /\ EngineInv'
  BY <1>1, NextInv DEF AgentInv
<1>3. ids \subseteq Tags
  BY DEF Known
<1>4. \A t \in ids : Shown(tags[t].current) \in [value : Values, quality : Qualities]
  BY <1>2, KnownType, ShownType DEF Known, EngineInv
<1>5. \A t \in steady : t \in Tags /\ t \notin ids
  BY DEF AgentInv, AgentTypeOK, PublishedNearReported, InMode
<1> HIDE DEF ids
<1>6. AgentTypeOK'
  <2>1. last' \in [Tags -> {Absent} \cup [value : Values, quality : Qualities]]
    BY <1>1, <1>4 DEF AgentInv, AgentTypeOK
  <2> QED
    BY <1>1, <1>2, <1>3, <2>1 DEF AgentInv, AgentTypeOK, EngineInv
<1>7. StatusIsClients' /\ TimersMatchTags'
  BY <1>1 DEF AgentInv, StatusIsClients, TimersMatchTags, vars
<1>8. \A t \in steady : last'[t] = last[t]
  BY <1>1, <1>5
<1>9. PublishedNearReported'
  BY <1>1, <1>8 DEF AgentInv, PublishedNearReported, vars
<1> QED
  BY <1>2, <1>6, <1>7, <1>9 DEF AgentInv

LEMMA AgentInitInv == AgentInit => AgentInv
<1> SUFFICES ASSUME AgentInit PROVE AgentInv
  OBVIOUS
<1>1. EngineInv
  BY InitInv DEF AgentInit
<1>2. AgentTypeOK
  <2>1. 0 \in 0 .. MaxEdits
    BY AgentAssumption
  <2>2. last \in [Tags -> {Absent} \cup [value : Values, quality : Qualities]]
    BY DEF AgentInit
  <2> QED
    BY <1>1, <2>1, <2>2 DEF AgentInit, AgentTypeOK, EngineInv
<1> QED
  BY <1>1, <1>2 DEF AgentInit, AgentInv, StatusIsClients, TimersMatchTags, PublishedNearReported

LEMMA AgentNextInv == AgentInv /\ [AgentNext]_<<vars, agentVars>> => AgentInv'
<1> SUFFICES ASSUME AgentInv, [AgentNext]_<<vars, agentVars>> PROVE AgentInv'
  OBVIOUS
<1>1. CASE UNCHANGED <<vars, agentVars>>
  <2>1. EngineInv' /\ TypeOK'
    BY <1>1, NextInv DEF AgentInv, EngineInv
  <2> QED
    BY <1>1, <2>1 DEF AgentInv, AgentTypeOK, StatusIsClients, TimersMatchTags,
                      PublishedNearReported, vars, agentVars
<1>2. CASE AgentNext
  BY <1>2, FollowEngineInv, ConfigChangeInv, ConnectInv, AsideInv, IntervalFiresInv DEF AgentNext
<1> QED
  BY <1>1, <1>2

LEMMA AgentInvariant == AgentSpec => []AgentInv
  BY AgentInitInv, AgentNextInv, PTL DEF AgentSpec

\* A subscriber sees the true quality of an on-change tag, and a value no
\* further off than the two deadbands in a row allow, through reconnections,
\* edits and moves, for any tags, configurations, overrides and deadbands
\* (agent-runtime.ts:357-403).
THEOREM SubscribersAlwaysInStep == AgentSpec => []SubscribersInStep
<1>1. ASSUME AgentInv PROVE SubscribersInStep
  <2> SUFFICES ASSUME NEW t \in steady
               PROVE  /\ tags[t] # Absent /\ last[t] # Absent
                      /\ last[t].quality = tags[t].current.quality
                      /\ \/ NaN \in {last[t].value, tags[t].current.value}
                         \/ Near(last[t].value, tags[t].current.value,
                                 AtLeast(MaxAgentDeadband, MaxDeadband) + MaxDeadband)
    BY DEF SubscribersInStep
  <2>1. Published(t) /\ t \in Tags
    BY <1>1 DEF AgentInv, AgentTypeOK, PublishedNearReported, Published
  <2>2. Near(tags[t].current.value, tags[t].reportedValue, MaxDeadband)
    BY <1>1, <2>1 DEF AgentInv, EngineInv, ReportedInStep, Known, Published
  <2>3. CASE NaN \in {last[t].value, tags[t].reportedValue}
    <3>1. NaN = tags[t].reportedValue => NaN = tags[t].current.value
      BY <2>2, ValueAssumption DEF Near
    <3> QED
      BY <2>1, <2>3, <3>1 DEF Published
  <2>4. CASE Near(last[t].value, tags[t].reportedValue, AtLeast(MaxAgentDeadband, MaxDeadband))
    <3>1. MaxDeadband \in Nat /\ AtLeast(MaxAgentDeadband, MaxDeadband) \in Nat
      BY AgentAssumption, ConfigAssumption DEF AtLeast
    <3>2. Near(last[t].value, tags[t].current.value,
               AtLeast(MaxAgentDeadband, MaxDeadband) + MaxDeadband)
      BY <2>2, <2>4, <3>1 DEF Near
    <3> QED
      BY <2>1, <3>2 DEF Published
  <2> QED
    BY <2>1, <2>3, <2>4 DEF Published
<1> QED
  BY <1>1, AgentInvariant, PTL

\* A timer runs for exactly the intervals in force while the agent is connected,
\* and none after stop() (agent-runtime.ts:320-328, 408-443).
THEOREM TimersAlwaysMatch == AgentSpec => []TimersMatchTags
<1>1. AgentInv => TimersMatchTags
  BY DEF AgentInv
<1> QED
  BY <1>1, AgentInvariant, PTL

-----------------------------------------------------------------------------
(* The page.  Whatever is selected, created, deleted and fetched, in any       *)
(* order, a password typed into one agent's form is not saved for another.     *)

EditorFields == {"id", "url", "password", "pending", "busy", "mount"}
PutFields == {"id", "url", "password", "state", "mount"}

\* A password in the form was typed for the agent the form belongs to.
FormBelongs(ed, typed) ==
    ed # Nothing =>
        /\ DOMAIN ed = EditorFields
        /\ ed.password # Empty => ed.id \in typed

\* A password in a save under way was typed for the agent that is saved.
PutsBelong(ps, typed) ==
    \A p \in ps :
        /\ DOMAIN p = PutFields
        /\ p.password \in Passwords => p.id \in typed

\* The inductive invariant: PasswordsStayWithAgent speaks only of what is sent, and
\* what is sent comes out of the form.
PasswordInv == FormBelongs(editor, typedFor) /\ PutsBelong(puts, typedFor)

-----------------------------------------------------------------------------

\* The form that is shown after a selection or a fetch is the mounted one, which keeps
\* its agent, or one without a password (MqttPage.tsx:147-175, 597-604).
LEMMA ShownBelongs ==
    ASSUME NEW rows, NEW sel, FormBelongs(editor, typedFor)
    PROVE  FormBelongs(ShownEditor(rows, sel), typedFor)
  BY DEF FormBelongs, ShownEditor, EditorFields

\* An answer that clears the busy flag of a form leaves its agent and password
\* (MqttPage.tsx:211-236).
LEMMA IdleBelongs ==
    ASSUME NEW p, FormBelongs(editor, typedFor)
    PROVE  FormBelongs(Idle(p), typedFor)
  BY DEF FormBelongs, Idle, EditorFields

\* What is sent is the password of the form, or none (MqttPage.tsx:177-209).
LEMMA SaveBelongs ==
    ASSUME PasswordAssumption, PasswordInv, NEW url, editor # Nothing, Save(url)
    PROVE  PasswordInv'
  <1>1. FormBelongs(editor, typedFor)'
    BY DEF PasswordInv, Save, FormBelongs, EditorFields
  <1>2. PutsBelong(puts, typedFor)'
    BY DEF PasswordInv, Save, FormBelongs, PutsBelong, PutFields, PasswordAssumption
  <1> QED
    BY <1>1, <1>2 DEF PasswordInv

\* Every step of the page, the server and other clients keeps the invariant.
LEMMA PasswordStep ==
    ASSUME PasswordAssumption, PasswordInv, [PageNext]_pageVars
    PROVE  PasswordInv'
  <1> USE DEF PasswordInv
  <1>1. ASSUME NEW k \in DOMAIN fetches, ServeList(k) PROVE PasswordInv'
    BY <1>1 DEF ServeList
  <1>2. ASSUME NEW k \in DOMAIN fetches, ListArrives(k) PROVE PasswordInv'
    BY <1>2, ShownBelongs DEF ListArrives
  <1>3. ASSUME NEW k \in DOMAIN fetches, ListFails(k) PROVE PasswordInv'
    BY <1>3, ShownBelongs DEF ListFails
  <1>4. ASSUME NEW i \in Ids, Select(i) PROVE PasswordInv'
    BY <1>4, ShownBelongs DEF Select
  <1>5. ASSUME NEW i \in Ids, NEW a, OtherClient(i, a) PROVE PasswordInv'
    BY <1>5 DEF OtherClient
  <1>6. ASSUME NEW u, NEW p, Type(u, p) PROVE PasswordInv'
    <2>1. FormBelongs(editor, typedFor)'
      BY <1>6 DEF Type, FormBelongs, EditorFields
    <2>2. PutsBelong(puts, typedFor)'
      BY <1>6 DEF Type, PutsBelong
    <2> QED
      BY <2>1, <2>2
  <1>7. CASE Submit
    BY <1>7, SaveBelongs DEF Submit
  <1>8. CASE AskScheme
    BY <1>8 DEF AskScheme, FormBelongs, EditorFields
  <1>9. CASE ConfirmScheme
    BY <1>9, SaveBelongs DEF ConfirmScheme
  <1>10. CASE CancelScheme
    BY <1>10 DEF CancelScheme, FormBelongs, EditorFields
  <1>11. ASSUME NEW p \in puts, SaveServed(p) PROVE PasswordInv'
    <2>1. PutsBelong(puts, typedFor)'
      BY <1>11 DEF SaveServed, PutsBelong, PutFields
    <2> QED
      BY <1>11, <2>1 DEF SaveServed
  <1>12. ASSUME NEW p \in puts, SaveAnswered(p) PROVE PasswordInv'
    BY <1>12, IdleBelongs DEF SaveAnswered, PutsBelong
  <1>13. ASSUME NEW p \in puts, SaveFails(p) PROVE PasswordInv'
    BY <1>13, IdleBelongs DEF SaveFails, PutsBelong
  <1>14. CASE Create
    BY <1>14 DEF Create
  <1>15. ASSUME NEW p \in posts, CreateServed(p) \/ CreateAnswered(p) \/ CreateFails(p)
         PROVE PasswordInv'
    BY <1>15 DEF CreateServed, CreateAnswered, CreateFails
  <1>16. CASE OpenDelete \/ CancelDelete \/ ConfirmDelete \/ DeleteServed \/ DeleteFails
    BY <1>16 DEF OpenDelete, CancelDelete, ConfirmDelete, DeleteServed, DeleteFails
  <1>17. CASE DeleteAnswered
    BY <1>17, ShownBelongs DEF DeleteAnswered
  <1>18. CASE UNCHANGED pageVars
    BY <1>18 DEF pageVars
  <1> QED
    BY <1>1, <1>2, <1>3, <1>4, <1>5, <1>6, <1>7, <1>8, <1>9, <1>10, <1>11, <1>12, <1>13,
       <1>14, <1>15, <1>16, <1>17, <1>18 DEF PageNext

\* A password is saved only for an agent it was typed for, for any number of agents,
\* requests and fetches under way (MqttPage.tsx:147-175, 597-604).
THEOREM PasswordsNeverMove ==
    ASSUME PasswordAssumption
    PROVE  PageSpec => []PasswordsStayWithAgent
  <1>1. PageInit => PasswordInv
    BY DEF PageInit, PasswordInv, FormBelongs, PutsBelong
  <1>2. PasswordInv /\ [PageNext]_pageVars => PasswordInv'
    BY PasswordStep
  <1>3. PasswordInv => PasswordsStayWithAgent
    BY DEF PasswordInv, PutsBelong, PasswordsStayWithAgent
  <1> QED
    BY <1>1, <1>2, <1>3, PTL DEF PageSpec

-----------------------------------------------------------------------------
(* The page's list.  It is the last answer of those served that counts:    *)
(* unless a change is on its way to a fetch that has not been served yet, that  *)
(* answer is what the server has.                                               *)

FetchFields == {"rows", "then", "late"}

\* Answers are marked late only once they are served.
FetchesShaped ==
    /\ \E S : fetches \in Seq(S)
    /\ \A k \in DOMAIN fetches :
         /\ DOMAIN fetches[k] = FetchFields
         /\ fetches[k].then \in Ids \cup {Nothing}
         /\ fetches[k].late \in BOOLEAN
         /\ fetches[k].rows = Nothing => ~ fetches[k].late

RequestsShaped ==
    /\ \A p \in puts : "state" \in DOMAIN p
    /\ \A p \in posts : "state" \in DOMAIN p /\ "id" \in DOMAIN p /\ p.id \in Ids
    /\ selected \in Ids \cup {Nothing}
    /\ deletion \in DeletionDialogs \cup {Nothing}

\* A fetch will be served after the last change of the server's agents.
FetchToCome ==
    \/ \E k \in DOMAIN fetches : fetches[k].rows = Nothing
    \/ \E p \in puts \cup posts : p.state = "done"
    \/ deletion # Nothing /\ deletion.state = "done"

\* An answer newer than those the page has shown.
NewAnswer(k) == fetches[k].rows # Nothing /\ ~ fetches[k].late

\* The newest answer, or the list if there is none, is what the server has.
NewestIsCurrent ==
    /\ \A k \in DOMAIN fetches :
         (NewAnswer(k) /\ \A j \in DOMAIN fetches : j > k => ~ NewAnswer(j))
         => fetches[k].rows = Redacted(stored)
    /\ (\A k \in DOMAIN fetches : ~ NewAnswer(k)) => agents = Redacted(stored)

\* The inductive invariant.
ListInv ==
    /\ FetchesShaped /\ RequestsShaped
    /\ lapse \in BOOLEAN
    /\ lapse \/ FetchToCome \/ NewestIsCurrent

-----------------------------------------------------------------------------

\* A sequence without its k-th element.
LEMMA RemoveAtSeq ==
    ASSUME NEW S, NEW s \in Seq(S), NEW k \in 1 .. Len(s)
    PROVE  /\ RemoveAt(s, k) \in Seq(S)
           /\ Len(RemoveAt(s, k)) = Len(s) - 1
           /\ \A i \in 1 .. Len(s) - 1 : RemoveAt(s, k)[i] = IF i < k THEN s[i] ELSE s[i + 1]
<1> DEFINE front == SubSeq(s, 1, k - 1)
           back  == SubSeq(s, k + 1, Len(s))
<1>1. Len(s) \in Nat /\ k \in Nat /\ k <= Len(s) /\ 1 <= k
  OBVIOUS
<1>2. front \in Seq(S) /\ Len(front) = k - 1 /\ \A i \in 1 .. k - 1 : front[i] = s[i]
  BY <1>1
<1>3. back \in Seq(S) /\ Len(back) = Len(s) - k /\ \A i \in 1 .. Len(s) - k : back[i] = s[i + k]
  BY <1>1
<1>4. RemoveAt(s, k) = front \o back
  BY DEF RemoveAt
<1> HIDE DEF front, back
<1>5. front \o back \in Seq(S) /\ Len(front \o back) = Len(s) - 1
  <2>1. (k - 1) + (Len(s) - k) = Len(s) - 1
    BY <1>1
  <2>2. front \in Seq(S) /\ back \in Seq(S)
    BY <1>2, <1>3
  <2>3. front \o back \in Seq(S) /\ Len(front \o back) = Len(front) + Len(back)
    BY <2>2
  <2> QED
    BY <1>2, <1>3, <2>1, <2>3
<1>6. ASSUME NEW i \in 1 .. Len(s) - 1
      PROVE  (front \o back)[i] = IF i < k THEN s[i] ELSE s[i + 1]
  <2>1. CASE i < k
    BY <1>1, <1>2, <1>3, <2>1
  <2>2. CASE ~ (i < k)
    <3> i >= k
      BY <1>1, <2>2
    <3>1. (front \o back)[i] = back[i - (k - 1)]
      BY <1>1, <1>2, <1>3, <2>2
    <3>2. i - (k - 1) \in 1 .. Len(s) - k /\ (i - (k - 1)) + k = i + 1
      BY <1>1, <2>2
    <3> QED
      BY <1>3, <2>2, <3>1, <3>2
  <2> QED
    BY <2>1, <2>2
<1> QED
  BY <1>4, <1>5, <1>6

\* A fetch that has just been asked for is still to be served.
LEMMA ReloadComes ==
    ASSUME FetchesShaped, NEW then \in Ids \cup {Nothing}, Reload(then)
    PROVE  FetchesShaped' /\ FetchToCome'
<1> DEFINE f == [rows |-> Nothing, then |-> then, late |-> FALSE]
<1>1. fetches' = Append(fetches, f)
  BY DEF Reload
<1>2. PICK S : fetches \in Seq(S)
  BY DEF FetchesShaped
<1>3. PICK n \in Nat : n = Len(fetches) /\ DOMAIN fetches = 1 .. n
  BY <1>2
<1>4. /\ fetches' \in Seq(S \cup {f})
      /\ DOMAIN fetches' = 1 .. n + 1
      /\ \A i \in 1 .. n : fetches'[i] = fetches[i]
      /\ fetches'[n + 1] = f
  <2>1. fetches \in Seq(S \cup {f})
    BY <1>2
  <2> QED
    BY <1>1, <1>3, <2>1
<1>5. DOMAIN f = FetchFields /\ f.then \in Ids \cup {Nothing} /\ f.late \in BOOLEAN /\ ~ f.late /\ f.rows = Nothing
  BY DEF FetchFields
<1> HIDE DEF f
<1>6. FetchesShaped'
  <2>1. \E T : fetches' \in Seq(T)
    BY <1>4
  <2>2. \A k \in 1 .. n + 1 : k \in 1 .. n \/ k = n + 1
    OBVIOUS
  <2> QED
    BY <1>3, <1>4, <1>5, <2>1, <2>2 DEF FetchesShaped
<1>7. FetchToCome'
  <2>1. n + 1 \in DOMAIN fetches'
    BY <1>4
  <2> QED
    BY <1>4, <1>5, <2>1 DEF FetchToCome
<1> QED
  BY <1>6, <1>7

\* A fetch leaves the sequence; what was behind it moves up.
LEMMA Without ==
    ASSUME NEW S, NEW s \in Seq(S), NEW k \in DOMAIN s
    PROVE  /\ RemoveAt(s, k) \in Seq(S)
           /\ \E n \in Nat :
                /\ DOMAIN s = 1 .. n + 1 /\ DOMAIN RemoveAt(s, k) = 1 .. n
                /\ \A i \in 1 .. n : RemoveAt(s, k)[i] = IF i < k THEN s[i] ELSE s[i + 1]
<1>1. PICK m \in Nat : m = Len(s) /\ DOMAIN s = 1 .. m
  OBVIOUS
<1>2. k \in 1 .. Len(s)
  BY <1>1
<1>3. /\ RemoveAt(s, k) \in Seq(S) /\ Len(RemoveAt(s, k)) = m - 1
      /\ \A i \in 1 .. m - 1 : RemoveAt(s, k)[i] = IF i < k THEN s[i] ELSE s[i + 1]
  BY <1>1, <1>2, RemoveAtSeq
<1>4. DOMAIN RemoveAt(s, k) = 1 .. m - 1
  BY <1>3
<1>5. m - 1 \in Nat /\ m = (m - 1) + 1
  BY <1>1
<1> QED
  BY <1>1, <1>3, <1>4, <1>5

\* What is not about the list leaves it as current as it was, unless a fetch is to
\* come no more.
LEMMA ListRests ==
    ASSUME ListInv, RequestsShaped', FetchToCome => FetchToCome',
           UNCHANGED <<stored, agents, fetches, lapse>>
    PROVE  ListInv'
  BY DEF ListInv, FetchesShaped, NewestIsCurrent, NewAnswer, Redacted

\* A failure excuses the list.
LEMMA ListLapses ==
    ASSUME FetchesShaped', RequestsShaped', lapse'
    PROVE  ListInv'
  BY DEF ListInv

\* The server answers: what it has now becomes the newest answer.
LEMMA ServeListInv ==
    ASSUME ListInv, NEW k \in DOMAIN fetches, ServeList(k)
    PROVE  ListInv'
<1> DEFINE g == [fetches[k] EXCEPT !.rows = Redacted(stored)]
           s == RemoveAt(fetches, k)
<1>1. /\ fetches[k].rows = Nothing /\ fetches' = Append(s, g)
      /\ UNCHANGED <<stored, agents, selected, puts, posts, deletion, lapse>>
  BY DEF ServeList
<1>2. FetchesShaped /\ RequestsShaped
  BY DEF ListInv
<1>3. PICK S : fetches \in Seq(S)
  BY <1>2 DEF FetchesShaped
<1>4. /\ DOMAIN g = FetchFields /\ g.then \in Ids \cup {Nothing} /\ g.late = FALSE
      /\ g.rows = Redacted(stored)
  BY <1>1, <1>2 DEF FetchesShaped, FetchFields
<1>5. s \in Seq(S)
  BY <1>3, Without
<1>6. PICK n \in Nat :
        /\ DOMAIN fetches = 1 .. n + 1 /\ DOMAIN s = 1 .. n
        /\ \A i \in 1 .. n : s[i] = IF i < k THEN fetches[i] ELSE fetches[i + 1]
  BY <1>3, Without
<1> HIDE DEF g, s
<1>7. /\ fetches' \in Seq(S \cup {g}) /\ DOMAIN fetches' = 1 .. n + 1
      /\ \A i \in 1 .. n : fetches'[i] = s[i]
      /\ fetches'[n + 1] = g
  <2>1. s \in Seq(S \cup {g}) /\ Len(s) = n
    BY <1>5, <1>6
  <2> QED
    BY <1>1, <2>1
<1>8. \A i \in 1 .. n + 1 : i \in 1 .. n \/ i = n + 1
  OBVIOUS
<1>9. \A i \in 1 .. n : \E j \in DOMAIN fetches : fetches'[i] = fetches[j]
  <2>1. \A i \in 1 .. n : i \in 1 .. n + 1 /\ i + 1 \in 1 .. n + 1
    OBVIOUS
  <2> QED
    BY <1>6, <1>7, <2>1
<1>10. FetchesShaped'
  <2> DEFINE Shaped(f) == /\ DOMAIN f = FetchFields
                          /\ f.then \in Ids \cup {Nothing} /\ f.late \in BOOLEAN
                          /\ f.rows = Nothing => ~ f.late
  <2>1. \E T : fetches' \in Seq(T)
    BY <1>7
  <2>2. Shaped(g)
    BY <1>4
  <2>3. \A j \in DOMAIN fetches : Shaped(fetches[j])
    BY <1>2 DEF FetchesShaped
  <2> HIDE DEF Shaped
  <2>4. \A i \in 1 .. n + 1 : Shaped(fetches'[i])
    BY <1>7, <1>8, <1>9, <2>2, <2>3
  <2>5. \A i \in DOMAIN fetches' : Shaped(fetches'[i])
    BY <1>7, <2>4
  <2> QED
    BY <2>1, <2>5 DEF FetchesShaped, Shaped
<1>11. RequestsShaped'
  BY <1>1, <1>2 DEF RequestsShaped
<1>12. CASE g.rows = Nothing
  <2>1. n + 1 \in DOMAIN fetches'
    BY <1>7
  <2>2. FetchToCome'
    BY <1>7, <1>12, <2>1 DEF FetchToCome
  <2> QED
    BY <1>1, <1>10, <1>11, <2>2 DEF ListInv
<1>13. CASE g.rows # Nothing
  <2>1. NewAnswer(n + 1)'
    BY <1>4, <1>7, <1>13 DEF NewAnswer
  <2>2. \A i \in 1 .. n : n + 1 > i
    OBVIOUS
  <2>3. n + 1 \in DOMAIN fetches' /\ fetches'[n + 1].rows = Redacted(stored)
    BY <1>4, <1>7
  <2>4. Redacted(stored)' = Redacted(stored)
    BY <1>1 DEF Redacted
  <2>5. NewestIsCurrent'
    BY <1>7, <1>8, <2>1, <2>2, <2>3, <2>4 DEF NewestIsCurrent
  <2> QED
    BY <1>1, <1>10, <1>11, <2>5 DEF ListInv
<1> QED
  BY <1>12, <1>13

\* An answer arrives: it is the newest the page has shown, those before it are not
\* new any more, and if there is none behind it the list is as current as it is.
LEMMA ListArrivesInv ==
    ASSUME ListInv, NEW k \in DOMAIN fetches, ListArrives(k)
    PROVE  ListInv'
<1> DEFINE g == [j \in DOMAIN fetches |->
                   [fetches[j] EXCEPT !.late = @ \/ (j < k /\ fetches[j].rows # Nothing)]]
           sel == IF fetches[k].then = Nothing THEN selected ELSE fetches[k].then
<1>1. /\ fetches[k].rows # Nothing /\ agents' = fetches[k].rows
      /\ fetches' = RemoveAt(g, k)
      /\ lapse' = (lapse \/ fetches[k].late)
      /\ selected' = sel
      /\ UNCHANGED <<stored, puts, posts, deletion>>
  BY DEF ListArrives
<1>2. FetchesShaped /\ RequestsShaped /\ lapse \in BOOLEAN
  BY DEF ListInv
<1>3. PICK S : fetches \in Seq(S)
  BY <1>2 DEF FetchesShaped
<1>4. PICK m \in Nat : m = Len(fetches) /\ DOMAIN fetches = 1 .. m
  BY <1>3
<1>5. \A j \in 1 .. m :
        /\ DOMAIN g[j] = FetchFields /\ g[j].then = fetches[j].then
        /\ g[j].rows = fetches[j].rows
        /\ g[j].late \in BOOLEAN
        /\ g[j].late <=> fetches[j].late \/ (j < k /\ fetches[j].rows # Nothing)
  BY <1>2, <1>4 DEF FetchesShaped, FetchFields
<1>6. g \in Seq({g[j] : j \in 1 .. m}) /\ DOMAIN g = 1 .. m
  BY <1>4
<1>7. selected' \in Ids \cup {Nothing}
  BY <1>1, <1>2 DEF FetchesShaped, RequestsShaped
<1> HIDE DEF g, sel
<1>8. fetches' \in Seq({g[j] : j \in 1 .. m})
  BY <1>1, <1>4, <1>6, Without
<1>9. PICK n \in Nat :
        /\ DOMAIN g = 1 .. n + 1 /\ DOMAIN fetches' = 1 .. n
        /\ \A i \in 1 .. n : fetches'[i] = IF i < k THEN g[i] ELSE g[i + 1]
  <2> DEFINE T == {g[j] : j \in 1 .. m}
  <2>1. g \in Seq(T) /\ k \in DOMAIN g
    BY <1>4, <1>6
  <2> HIDE DEF T
  <2>2. \E n \in Nat :
          /\ DOMAIN g = 1 .. n + 1 /\ DOMAIN RemoveAt(g, k) = 1 .. n
          /\ \A i \in 1 .. n : RemoveAt(g, k)[i] = IF i < k THEN g[i] ELSE g[i + 1]
    BY <2>1, Without
  <2> QED
    BY <1>1, <2>2
<1>10. DOMAIN fetches = 1 .. n + 1 /\ 1 .. m = 1 .. n + 1 /\ k \in 1 .. n + 1
  BY <1>4, <1>6, <1>9
<1>11. FetchesShaped'
  <2>1. \A i \in 1 .. n : i \in 1 .. n + 1 /\ i + 1 \in 1 .. n + 1
    OBVIOUS
  <2>2. \A i \in 1 .. n : \E j \in 1 .. n + 1 : fetches'[i] = g[j]
    BY <1>9, <2>1
  <2>3. \A j \in 1 .. n + 1 : /\ DOMAIN g[j] = FetchFields /\ g[j].then \in Ids \cup {Nothing}
                               /\ g[j].late \in BOOLEAN /\ (g[j].rows = Nothing => ~ g[j].late)
    BY <1>2, <1>5, <1>10 DEF FetchesShaped
  <2>4. \E T : fetches' \in Seq(T)
    BY <1>8
  <2> QED
    BY <1>9, <2>2, <2>3, <2>4 DEF FetchesShaped
<1>12. RequestsShaped'
  BY <1>1, <1>2, <1>7 DEF RequestsShaped
<1>13. CASE lapse' \/ FetchToCome'
  BY <1>1, <1>2, <1>11, <1>12, <1>13 DEF ListInv, FetchesShaped
<1>14. CASE ~ lapse' /\ ~ FetchToCome'
  <2>1. ~ lapse /\ ~ fetches[k].late
    BY <1>1, <1>14
  <2>2. \A j \in 1 .. n + 1 : j # k => \E i \in 1 .. n : fetches'[i] = g[j]
                                       /\ i = IF j < k THEN j ELSE j - 1
    <3> SUFFICES ASSUME NEW j \in 1 .. n + 1, j # k
                 PROVE  \E i \in 1 .. n : fetches'[i] = g[j] /\ i = IF j < k THEN j ELSE j - 1
      OBVIOUS
    <3>1. CASE j < k
      <4>1. j \in 1 .. n
        BY <1>10, <3>1
      <4> QED
        BY <1>9, <3>1, <4>1
    <3>2. CASE j > k
      <4>1. j - 1 \in 1 .. n /\ ~ (j - 1 < k) /\ (j - 1) + 1 = j /\ ~ (j < k)
        BY <1>10, <3>2
      <4> QED
        BY <1>9, <3>2, <4>1
    <3> QED
      BY <1>10, <3>1, <3>2
  <2>3. ~ FetchToCome
    <3>1. ASSUME NEW j \in 1 .. n + 1 PROVE fetches[j].rows # Nothing
      <4>1. CASE j = k
        BY <1>1, <4>1
      <4>2. CASE j # k
        <5>1. PICK i \in 1 .. n : fetches'[i] = g[j]
          BY <2>2, <4>2
        <5>2. fetches'[i].rows # Nothing
          BY <1>9, <1>14, <5>1 DEF FetchToCome
        <5> QED
          BY <1>5, <1>10, <5>1, <5>2
      <4> QED
        BY <4>1, <4>2
    <3> QED
      BY <1>1, <1>10, <1>14, <3>1 DEF FetchToCome
  <2>4. NewestIsCurrent
    BY <2>1, <2>3 DEF ListInv
  <2>5. NewAnswer(k)
    BY <1>1, <2>1 DEF NewAnswer
  <2>6. \A i \in 1 .. n : NewAnswer(i)' =>
          i >= k /\ i + 1 \in 1 .. n + 1 /\ NewAnswer(i + 1) /\ fetches'[i].rows = fetches[i + 1].rows
    <3> SUFFICES ASSUME NEW i \in 1 .. n, NewAnswer(i)'
                 PROVE  i >= k /\ i + 1 \in 1 .. n + 1 /\ NewAnswer(i + 1)
                        /\ fetches'[i].rows = fetches[i + 1].rows
      OBVIOUS
    <3>1. fetches'[i].rows # Nothing /\ ~ fetches'[i].late
      BY DEF NewAnswer
    <3>2. i \in 1 .. n + 1 /\ i + 1 \in 1 .. n + 1
      OBVIOUS
    <3>3. ~ (i < k)
      <4> SUFFICES ASSUME i < k PROVE FALSE
        OBVIOUS
      <4>1. fetches'[i] = g[i]
        BY <1>9
      <4> QED
        BY <1>5, <1>10, <3>1, <3>2, <4>1
    <3>4. fetches'[i] = g[i + 1]
      BY <1>9, <3>3
    <3>5. NewAnswer(i + 1) /\ fetches'[i].rows = fetches[i + 1].rows
      BY <1>5, <1>10, <3>1, <3>2, <3>4 DEF NewAnswer
    <3>6. i >= k
      BY <1>10, <3>3
    <3> QED
      BY <3>2, <3>5, <3>6
  <2>7. \A j \in 1 .. n + 1 : j > k /\ NewAnswer(j) => j - 1 \in 1 .. n /\ NewAnswer(j - 1)'
    <3> SUFFICES ASSUME NEW j \in 1 .. n + 1, j > k, NewAnswer(j)
                 PROVE  j - 1 \in 1 .. n /\ NewAnswer(j - 1)'
      OBVIOUS
    <3>1. j - 1 \in 1 .. n /\ ~ (j - 1 < k) /\ (j - 1) + 1 = j /\ ~ (j < k)
      BY <1>10
    <3>2. fetches'[j - 1] = g[j]
      BY <1>9, <3>1
    <3>3. g[j].rows # Nothing /\ ~ g[j].late
      BY <1>5, <1>10, <3>1 DEF NewAnswer
    <3>4. NewAnswer(j - 1)'
      BY <3>2, <3>3 DEF NewAnswer
    <3> QED
      BY <3>1, <3>4
  <2>8. Redacted(stored)' = Redacted(stored)
    BY <1>1 DEF Redacted
  <2>9. ASSUME NEW i \in DOMAIN fetches', NewAnswer(i)',
               \A j \in DOMAIN fetches' : j > i => ~ NewAnswer(j)'
        PROVE  fetches'[i].rows = Redacted(stored)'
    <3>1. i \in 1 .. n /\ i >= k /\ i + 1 \in 1 .. n + 1 /\ NewAnswer(i + 1)
          /\ fetches'[i].rows = fetches[i + 1].rows
      BY <1>9, <2>6, <2>9
    <3>2. ASSUME NEW j \in 1 .. n + 1, j > i + 1, NewAnswer(j) PROVE FALSE
      <4>1. j > k /\ j - 1 > i
        BY <1>10, <3>1, <3>2
      <4>2. j - 1 \in DOMAIN fetches' /\ NewAnswer(j - 1)'
        BY <1>9, <2>7, <3>2, <4>1
      <4> QED
        BY <2>9, <4>1, <4>2
    <3> QED
      BY <1>10, <2>4, <2>8, <3>1, <3>2 DEF NewestIsCurrent
  <2>10. ASSUME \A i \in DOMAIN fetches' : ~ NewAnswer(i)'
         PROVE  agents' = Redacted(stored)'
    <3>1. \A j \in DOMAIN fetches : j > k => ~ NewAnswer(j)
      BY <1>9, <1>10, <2>7, <2>10
    <3> QED
      BY <1>1, <2>4, <2>5, <2>8, <3>1 DEF NewestIsCurrent
  <2>11. NewestIsCurrent'
    BY <2>9, <2>10 DEF NewestIsCurrent
  <2> QED
    BY <1>1, <1>2, <1>11, <1>12, <1>14, <2>11 DEF ListInv
<1> QED
  BY <1>13, <1>14

LEMMA PageInitInv == PageInit => ListInv
<1> SUFFICES ASSUME PageInit PROVE ListInv
  OBVIOUS
<1> DEFINE f == [rows |-> Nothing, then |-> Nothing, late |-> FALSE]
<1>1. fetches = <<f>>
  BY DEF PageInit
<1>2. fetches \in Seq({f}) /\ DOMAIN fetches = {1} /\ fetches[1] = f
  BY <1>1
<1>3. DOMAIN f = FetchFields /\ f.then \in Ids \cup {Nothing} /\ f.late = FALSE /\ f.rows = Nothing
  BY DEF FetchFields
<1> HIDE DEF f
<1>4. FetchesShaped
  <2>1. \E S : fetches \in Seq(S)
    BY <1>2
  <2> QED
    BY <1>2, <1>3, <2>1 DEF FetchesShaped
<1>5. FetchToCome
  BY <1>2, <1>3 DEF FetchToCome
<1> QED
  BY <1>4, <1>5 DEF PageInit, ListInv, RequestsShaped

\* Every step of the page, the server and other clients keeps the invariant.
LEMMA ListStep ==
    ASSUME ListInv, [PageNext]_pageVars
    PROVE  ListInv'
<1>0. FetchesShaped /\ RequestsShaped /\ lapse \in BOOLEAN
  BY DEF ListInv
<1>1. ASSUME NEW k \in DOMAIN fetches, ListFails(k) PROVE ListInv'
  <2>1. /\ fetches' = RemoveAt(fetches, k) /\ lapse'
        /\ selected' = IF fetches[k].then = Nothing THEN selected ELSE fetches[k].then
        /\ UNCHANGED <<puts, posts, deletion>>
    BY <1>1 DEF ListFails
  <2>2. PICK S : fetches \in Seq(S)
    BY <1>0 DEF FetchesShaped
  <2>3. fetches' \in Seq(S)
    BY <2>1, <2>2, Without
  <2>4. PICK n \in Nat :
          /\ DOMAIN fetches = 1 .. n + 1 /\ DOMAIN RemoveAt(fetches, k) = 1 .. n
          /\ \A i \in 1 .. n : RemoveAt(fetches, k)[i] = IF i < k THEN fetches[i] ELSE fetches[i + 1]
    BY <2>2, Without
  <2>5. \A i \in 1 .. n : i \in 1 .. n + 1 /\ i + 1 \in 1 .. n + 1
    OBVIOUS
  <2>6. \A i \in DOMAIN fetches' : \E j \in DOMAIN fetches : fetches'[i] = fetches[j]
    BY <2>1, <2>4, <2>5
  <2>7. FetchesShaped'
    <3>1. \E T : fetches' \in Seq(T)
      BY <2>3
    <3> QED
      BY <1>0, <2>6, <3>1 DEF FetchesShaped
  <2>8. RequestsShaped'
    BY <1>0, <2>1 DEF RequestsShaped, FetchesShaped
  <2> QED
    BY <2>1, <2>7, <2>8, ListLapses
<1>2. ASSUME NEW i \in Ids, Select(i) PROVE ListInv'
  <2>1. RequestsShaped'
    BY <1>0, <1>2 DEF Select, RequestsShaped
  <2> QED
    BY <1>2, <2>1, ListRests DEF Select, FetchToCome
<1>3. ASSUME NEW i \in Ids, NEW a \in AgentRows \union {Nothing}, OtherClient(i, a) PROVE ListInv'
  BY <1>0, <1>3, ListLapses DEF OtherClient, FetchesShaped, RequestsShaped
<1>4. ASSUME NEW u \in Urls, NEW p \in Passwords \union {Empty}, Type(u, p) PROVE ListInv'
  BY <1>0, <1>4, ListRests DEF Type, RequestsShaped, FetchToCome
<1>5. ASSUME NEW url, Save(url) PROVE ListInv'
  <2> DEFINE q == [id |-> editor.id, url |-> url, state |-> "asked", mount |-> editor.mount,
                   password |-> IF editor.password = Empty THEN Kept ELSE editor.password]
  <2>1. puts' = puts \union {q} /\ "state" \in DOMAIN q
    BY <1>5 DEF Save
  <2> HIDE DEF q
  <2>2. RequestsShaped'
    BY <1>0, <1>5, <2>1 DEF Save, RequestsShaped
  <2>3. FetchToCome => FetchToCome'
    BY <1>5, <2>1 DEF Save, FetchToCome
  <2> QED
    BY <1>5, <2>2, <2>3, ListRests DEF Save
<1>6. CASE Submit \/ ConfirmScheme
  BY <1>5, <1>6 DEF Submit, ConfirmScheme
<1>7. CASE AskScheme \/ CancelScheme
  BY <1>0, <1>7, ListRests DEF AskScheme, CancelScheme, RequestsShaped, FetchToCome
<1>8. ASSUME NEW p \in puts, SaveServed(p) PROVE ListInv'
  <2> DEFINE q == [p EXCEPT !.state = "done"]
  <2>1. puts' = (puts \ {p}) \union {q} /\ UNCHANGED <<fetches, selected, posts, deletion, lapse>>
    BY <1>8 DEF SaveServed
  <2>2. "state" \in DOMAIN q /\ q.state = "done"
    BY <1>0 DEF RequestsShaped
  <2> HIDE DEF q
  <2>3. RequestsShaped' /\ FetchesShaped' /\ FetchToCome'
    BY <1>0, <2>1, <2>2 DEF RequestsShaped, FetchesShaped, FetchToCome
  <2> QED
    BY <1>0, <2>1, <2>3 DEF ListInv
<1>9. ASSUME NEW p \in puts, SaveAnswered(p) PROVE ListInv'
  <2>1. FetchesShaped' /\ FetchToCome'
    BY <1>0, <1>9, ReloadComes DEF SaveAnswered
  <2>2. RequestsShaped'
    BY <1>0, <1>9 DEF SaveAnswered, RequestsShaped
  <2> QED
    BY <1>0, <1>9, <2>1, <2>2 DEF SaveAnswered, ListInv
<1>10. ASSUME NEW p \in puts, SaveFails(p) PROVE ListInv'
  BY <1>0, <1>10, ListLapses DEF SaveFails, FetchesShaped, RequestsShaped
<1>11. CASE Create
  <2>1. PICK i \in Ids : posts' = posts \union {[id |-> i, state |-> "asked", number |-> requests]}
    BY <1>11 DEF Create
  <2>2. RequestsShaped'
    BY <1>0, <1>11, <2>1 DEF Create, RequestsShaped
  <2>3. FetchToCome => FetchToCome'
    BY <1>11, <2>1 DEF Create, FetchToCome
  <2> QED
    BY <1>11, <2>2, <2>3, ListRests DEF Create
<1>12. ASSUME NEW p \in posts, CreateServed(p) PROVE ListInv'
  <2> DEFINE q == [p EXCEPT !.state = "done"]
  <2>1. posts' = (posts \ {p}) \union {q} /\ UNCHANGED <<fetches, selected, puts, deletion, lapse>>
    BY <1>12 DEF CreateServed
  <2>2. "state" \in DOMAIN q /\ q.state = "done" /\ "id" \in DOMAIN q /\ q.id \in Ids
    BY <1>0 DEF RequestsShaped
  <2> HIDE DEF q
  <2>3. RequestsShaped' /\ FetchesShaped' /\ FetchToCome'
    BY <1>0, <2>1, <2>2 DEF RequestsShaped, FetchesShaped, FetchToCome
  <2> QED
    BY <1>0, <2>1, <2>3 DEF ListInv
<1>13. ASSUME NEW p \in posts, CreateAnswered(p) PROVE ListInv'
  <2>1. p.id \in Ids \cup {Nothing}
    BY <1>0 DEF RequestsShaped
  <2>2. FetchesShaped' /\ FetchToCome'
    BY <1>0, <1>13, <2>1, ReloadComes DEF CreateAnswered
  <2>3. RequestsShaped'
    BY <1>0, <1>13 DEF CreateAnswered, RequestsShaped
  <2> QED
    BY <1>0, <1>13, <2>2, <2>3 DEF CreateAnswered, ListInv
<1>14. ASSUME NEW p \in posts, CreateFails(p) PROVE ListInv'
  BY <1>0, <1>14, ListLapses DEF CreateFails, FetchesShaped, RequestsShaped
<1>15. CASE OpenDelete
  <2>1. deletion' \in DeletionDialogs /\ deletion = Nothing
    BY <1>0, <1>15 DEF OpenDelete, DeletionDialogs, RequestsShaped
  <2>2. RequestsShaped'
    BY <1>0, <1>15, <2>1 DEF OpenDelete, RequestsShaped
  <2> QED
    BY <1>15, <2>1, <2>2, ListRests DEF OpenDelete, FetchToCome
<1>16. CASE CancelDelete
  <2>1. RequestsShaped'
    BY <1>0, <1>16 DEF CancelDelete, RequestsShaped
  <2> QED
    BY <1>16, <2>1, ListRests DEF CancelDelete, FetchToCome
<1>17. CASE ConfirmDelete
  <2>1. deletion' \in DeletionDialogs /\ deletion.state = "open"
    BY <1>0, <1>17 DEF ConfirmDelete, DeletionDialogs, RequestsShaped
  <2>2. RequestsShaped'
    BY <1>0, <1>17, <2>1 DEF ConfirmDelete, RequestsShaped
  <2> QED
    BY <1>17, <2>1, <2>2, ListRests DEF ConfirmDelete, FetchToCome
<1>18. CASE DeleteServed
  <2>1. deletion' \in DeletionDialogs /\ deletion'.state = "done"
    BY <1>0, <1>18 DEF DeleteServed, DeletionDialogs, RequestsShaped
  <2>2. RequestsShaped' /\ FetchesShaped' /\ FetchToCome'
    BY <1>0, <1>18, <2>1, DialogAssumption DEF DeleteServed, RequestsShaped, FetchesShaped, FetchToCome
  <2> QED
    BY <1>0, <1>18, <2>2 DEF DeleteServed, ListInv
<1>19. CASE DeleteAnswered
  <2>1. FetchesShaped' /\ FetchToCome'
    BY <1>0, <1>19, ReloadComes DEF DeleteAnswered
  <2>2. RequestsShaped'
    BY <1>0, <1>19 DEF DeleteAnswered, RequestsShaped
  <2> QED
    BY <1>0, <1>19, <2>1, <2>2 DEF DeleteAnswered, ListInv
<1>20. CASE DeleteFails
  BY <1>0, <1>20, ListLapses DEF DeleteFails, FetchesShaped, RequestsShaped
<1>21. CASE UNCHANGED pageVars
  BY <1>0, <1>21, ListRests DEF pageVars, RequestsShaped, FetchToCome
<1> QED
  BY <1>1, <1>2, <1>3, <1>4, <1>6, <1>7, <1>8, <1>9, <1>10, <1>11, <1>12, <1>13, <1>14, <1>15,
     <1>16, <1>17, <1>18, <1>19, <1>20, <1>21, ServeListInv, ListArrivesInv DEF PageNext

\* Once nothing is under way the page's list is what the server has, unless a
\* request failed, an answer was overtaken or another client was at work, for any
\* order in which fetches, saves, creations and deletions are served and answered
\* (MqttPage.tsx:57-85, 177-236).
THEOREM QuietListIsCurrent == PageSpec => []QuietListCurrent
<1>1. ListInv => QuietListCurrent
  <2> SUFFICES ASSUME ListInv, fetches = <<>>, puts = {}, posts = {}, deletion = Nothing, ~ lapse
               PROVE  agents = Redacted(stored)
    BY DEF QuietListCurrent
  <2>1. DOMAIN fetches = {}
    OBVIOUS
  <2>2. ~ FetchToCome
    BY <2>1 DEF FetchToCome
  <2> QED
    BY <2>1, <2>2 DEF ListInv, NewestIsCurrent
<1> QED
  BY <1>1, PageInitInv, ListStep, PTL DEF PageSpec
=============================================================================
