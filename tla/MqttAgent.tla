----------------------------- MODULE MqttAgent -----------------------------
(***************************************************************************)
(* One MQTT agent runtime following the tag engine                         *)
(* (packages/server/src/mqtt/agent-runtime.ts, render.ts).                 *)
(*                                                                         *)
(* The agent's engine listener runs inside the engine call that emits, so  *)
(* an engine step and the agent's reaction to its events are one step.     *)
(* The store's rows are the engine's configurations (EngineMirrorsStore of  *)
(* ServerCore).  `last` is what the agent published last for a tag, and so *)
(* what the broker's subscribers hold of it.                               *)
(***************************************************************************)
EXTENDS TagEngine

CONSTANTS
    Agent,          \* [enabled, mode, interval, deadband]: the agent's defaults
    Override,       \* configuration -> its override for this agent, or Absent
    Inherit,        \* an override field left out
    Intervals,      \* publish intervals
    MaxAgentDeadband,   \* upper bound on the effective agent-side deadbands
    MaxEdits        \* bound: configuration edits

Modes == {"on-change", "interval"}

ASSUME AgentAssumption ==
    /\ Agent \in [enabled : BOOLEAN, mode : Modes, interval : Intervals, deadband : Nat]
    /\ Override \in [Configs -> {Absent} \cup
            [enabled : BOOLEAN, mode : Modes \cup {Inherit},
             interval : Intervals \cup {Inherit}, deadband : Nat \cup {Inherit}]]
    /\ MaxAgentDeadband \in Nat /\ MaxEdits \in Nat
    /\ Absent \notin [value : Values, quality : Qualities]

VARIABLES
    state,      \* statusState
    client,     \* the MQTT client exists and its handlers are attached
    connected,  \* client.connected
    last,       \* tag id -> [value, quality] last published, or Absent
    timers,     \* the intervals a timer runs for
    ended,      \* stop() was called
    sent,       \* the tags published by this step
    steady,     \* ghost: the on-change tags published since they have been
                \* on-change, known and connected
    edits

agentVars == <<state, client, connected, last, timers, ended, sent, steady, edits>>

-----------------------------------------------------------------------------
(* render.ts *)

\* resolvePublishConfig: the override over the agent's defaults, or Absent
\* when the tag is opted out.
Resolve(config) ==
    LET o == Override[config]
    IN  IF o = Absent
          THEN [mode |-> Agent.mode, interval |-> Agent.interval, deadband |-> Agent.deadband]
        ELSE IF ~ o.enabled THEN Absent
        ELSE [mode |-> IF o.mode = Inherit THEN Agent.mode ELSE o.mode,
              interval |-> IF o.interval = Inherit THEN Agent.interval ELSE o.interval,
              deadband |-> IF o.deadband = Inherit THEN Agent.deadband ELSE o.deadband]

\* Math.abs(next - prev) > deadband; a comparison with NaN is false.
ExceedsDeadband(prev, next, deadband) ==
    IF prev \in Numbers /\ next \in Numbers
      THEN /\ prev # NaN /\ next # NaN
           /\ next - prev > deadband \/ prev - next > deadband
      ELSE prev # next

\* What MaxAgentDeadband is for.
ASSUME AgentDeadbandAssumption ==
    \A c \in Configs : Resolve(c) # Absent => Resolve(c).deadband <= MaxAgentDeadband

InMode(config, mode) == Resolve(config) # Absent /\ Resolve(config).mode = mode

-----------------------------------------------------------------------------

Shown(data) == [value |-> data.value, quality |-> data.quality]

\* Fault: a change of the quality alone is not published.
PublishWorthyValue(config, before, data) ==
    \/ before = Absent
    \/ ExceedsDeadband(before.value, data.value, Resolve(config).deadband)

\* publishTag without force.
PublishWorthy(config, before, data) ==
    \/ before = Absent
    \/ before.quality # data.quality
    \/ ExceedsDeadband(before.value, data.value, Resolve(config).deadband)

\* onTagChange: the tags of this step's events that are published.
Heard ==
    IF ~ client \/ ended \/ state # "connected" THEN {}
    ELSE {t \in Tags :
            /\ \E e \in events' : e.type = "change" /\ e.tag = t
            /\ InMode(tags'[t].config, "on-change")
            /\ PublishWorthy(tags'[t].config, last[t], tags'[t].current)}

\* What is known of map after publishing the tags of ids from it.
Publish(ids, map) ==
    /\ sent' = ids
    /\ last' = [t \in Tags |-> IF t \in ids THEN Shown(map[t].current) ELSE last[t]]

\* refreshTimers: one timer for each effective interval, none unless connected.
TimersFor(status, map) ==
    IF status # "connected" THEN {}
    ELSE {Resolve(map[t].config).interval :
            t \in {u \in Tags : map[u] # Absent /\ InMode(map[u].config, "interval")}}

\* The constructor: disabled, the connect call throws, or a client that
\* connects in its own time.
AgentInit ==
    /\ Init
    /\ connected = FALSE /\ ended = FALSE
    /\ last = [t \in Tags |-> Absent]
    /\ timers = {} /\ sent = {} /\ steady = {} /\ edits = 0
    /\ \/ ~ Agent.enabled /\ client = FALSE /\ state = "disabled"
       \/ Agent.enabled /\ client = FALSE /\ state = "error"
       \/ Agent.enabled /\ client = TRUE /\ state = "connecting"

-----------------------------------------------------------------------------
(* Engine steps and the agent's reaction. *)

\* A driver delivers, or marks tags bad: onTagChange for every change event.
FollowEngine ==
    /\ \/ DriverStep
       \/ \E d \in Devices, e \in Errors : SetQualityForDevice(d, "bad", e)
    /\ Publish(Heard, tags')
    /\ steady' = steady \cup Heard
    /\ UNCHANGED <<state, client, connected, timers, ended, edits>>

\* Fault: the interval groups are not rebuilt.
ConfigChangeUnheard ==
    /\ edits < MaxEdits
    /\ \E configs \in [Tags -> Configs \cup {Absent}] : Load(configs)
    /\ Publish({}, tags')
    /\ steady' = {t \in steady : tags'[t] # Absent /\ InMode(tags'[t].config, "on-change")}
    /\ edits' = edits + 1
    /\ UNCHANGED <<state, client, connected, timers, ended>>

\* A saved configuration: the engine is reloaded and the interval groups are
\* rebuilt (onConfigChange).  Nothing is published.
ConfigChange ==
    /\ edits < MaxEdits
    /\ \E configs \in [Tags -> Configs \cup {Absent}] : Load(configs)
    /\ Publish({}, tags')
    /\ timers' = IF client /\ ~ ended THEN TimersFor(state, tags') ELSE timers
    /\ steady' = {t \in steady : tags'[t] # Absent /\ InMode(tags'[t].config, "on-change")}
    /\ edits' = edits + 1
    /\ UNCHANGED <<state, client, connected, ended>>

-----------------------------------------------------------------------------
(* Client events. *)

\* "connect": the snapshot publishes every tag that is not opted out.
Connect ==
    /\ client /\ ~ ended /\ ~ connected
    /\ state' = "connected" /\ connected' = TRUE
    /\ Publish({t \in Known : Resolve(tags[t].config) # Absent}, tags)
    /\ steady' = {t \in Known : InMode(tags[t].config, "on-change")}
    /\ timers' = TimersFor("connected", tags)
    /\ UNCHANGED <<vars, client, ended, edits>>

\* "close": the interval timers keep running.
Close ==
    /\ client /\ ~ ended
    /\ state' = "connecting" /\ connected' = FALSE
    /\ sent' = {} /\ steady' = {}
    /\ UNCHANGED <<vars, client, last, timers, ended, edits>>

\* "error": mqtt.js goes on reconnecting.
ClientError ==
    /\ client /\ ~ ended
    /\ state' = IF state = "connected" THEN state ELSE "error"
    /\ sent' = {}
    /\ UNCHANGED <<vars, client, connected, last, timers, ended, steady, edits>>

\* publishIntervalGroup
IntervalFires(i) ==
    /\ i \in timers
    /\ Publish(IF ~ connected THEN {}
               ELSE {t \in Known : /\ InMode(tags[t].config, "interval")
                                   /\ Resolve(tags[t].config).interval = i}, tags)
    /\ UNCHANGED <<vars, state, client, connected, timers, ended, steady, edits>>

\* stop(): both listeners are removed and the client is ended.
Stop ==
    /\ ~ ended
    /\ ended' = TRUE /\ state' = "disabled" /\ connected' = FALSE
    /\ timers' = {} /\ sent' = {} /\ steady' = {}
    /\ UNCHANGED <<vars, client, last, edits>>

AgentNext ==
    \/ FollowEngine \/ ConfigChange
    \/ Connect \/ Close \/ ClientError \/ Stop
    \/ \E i \in Intervals : IntervalFires(i)

AgentSpec == AgentInit /\ [][AgentNext]_<<vars, agentVars>>

-----------------------------------------------------------------------------
(* Properties. *)

AgentTypeOK ==
    /\ TypeOK
    /\ state \in {"disabled", "connecting", "connected", "error"}
    /\ client \in BOOLEAN /\ connected \in BOOLEAN /\ ended \in BOOLEAN
    /\ last \in [Tags -> {Absent} \cup [value : Values, quality : Qualities]]
    /\ timers \subseteq Intervals
    /\ sent \subseteq Tags /\ steady \subseteq Tags
    /\ edits \in 0 .. MaxEdits

\* A subscriber of the broker sees the true quality of every on-change tag the
\* agent has published in this connection, and a value no further off than
\* the two deadbands in a row allow, through reconnections, deadband edits
\* and tags moved in and out (agent-runtime.ts:357-403).  Unless the value is
\* NaN or was when it was published: nothing exceeds a deadband from there.
SubscribersInStep ==
    \A t \in steady :
        /\ tags[t] # Absent /\ last[t] # Absent
        /\ last[t].quality = tags[t].current.quality
        /\ \/ NaN \in {last[t].value, tags[t].current.value}
           \/ Near(last[t].value, tags[t].current.value,
                   AtLeast(MaxAgentDeadband, MaxDeadband) + MaxDeadband)

\* While connected, a timer runs for exactly the effective intervals of the
\* configured tags, whatever edits, losses and reconnections went before, and
\* none is left after stop() (agent-runtime.ts:320-328, 408-443).
TimersMatchTags ==
    /\ state = "connected" => timers = TimersFor("connected", tags)
    /\ ended => timers = {}

\* The agent says it is connected exactly while its client is, and after stop()
\* neither is (agent-runtime.ts:260-293, 320-322).
StatusIsClients ==
    /\ state = "connected" <=> connected
    /\ connected => client /\ ~ ended

\* What the filter of the agent compares with is what the engine reported last:
\* a subscriber is one deadband of the agent from it, and the engine's value is
\* one deadband of the engine from it (agent-runtime.ts:357-376).
PublishedNearReported ==
    \A t \in steady :
        /\ connected
        /\ tags[t] # Absent /\ InMode(tags[t].config, "on-change")
        /\ last[t] # Absent /\ last[t].quality = tags[t].current.quality
        /\ \/ NaN \in {last[t].value, tags[t].reportedValue}
           \/ Near(last[t].value, tags[t].reportedValue,
                   AtLeast(MaxAgentDeadband, MaxDeadband))

\* The inductive invariant.
AgentInv ==
    /\ EngineInv
    /\ AgentTypeOK
    /\ StatusIsClients
    /\ TimersMatchTags
    /\ PublishedNearReported

\* "Extra agent-side absolute deadband on the scaled value; 0 = every engine
\* change" (config.ts:75): a change of the value that a connected agent hears
\* of is published.
EveryChangePublished ==
    [][\A t \in steady, e \in events' :
         (/\ tags' # tags /\ e.type = "change" /\ e.tag = t
          /\ Resolve(tags'[t].config).deadband = 0
          /\ e.data.value # last[t].value)
         => t \in sent']_<<vars, agentVars>>
=============================================================================
