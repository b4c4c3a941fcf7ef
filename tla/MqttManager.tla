---------------------------- MODULE MqttManager ----------------------------
(***************************************************************************)
(* The MQTT agent manager (packages/server/src/mqtt/manager.ts): the set   *)
(* of running agents is reconciled with the store, at boot and, debounced, *)
(* after every configuration change.                                       *)
(*                                                                         *)
(* reconcile() is synchronous and is one step.  Of a runtime only its      *)
(* client is kept: MqttAgent models the rest.  Clients are numbered so     *)
(* that one that was never ended can be told from its successor.           *)
(***************************************************************************)
EXTENDS Integers, FiniteSets

CONSTANTS
    Agents,         \* agent ids
    AgentConfigs,   \* what an agent may be configured as: [enabled, rest]
    NoAgent,        \* no such agent
    Debounce,       \* bound: ticks of the reconcile debounce
    MaxChanges,     \* bound: configuration changes
    MaxFailures     \* bound: reconciliations that cannot read the store

ASSUME ManagerAssumption ==
    /\ \A c \in AgentConfigs : c.enabled \in BOOLEAN
    /\ NoAgent \notin AgentConfigs
    /\ NoAgent \notin [config : AgentConfigs, client : Nat]
    /\ Debounce \in Nat \ {0} /\ MaxChanges \in Nat /\ MaxFailures \in Nat

VARIABLES
    saved,      \* agent id -> its row in the store, or Absent
    runtimes,   \* agent id -> [config, client], or Absent; client 0 is none
    live,       \* the clients opened and not ended: [agent, client]
    opened,     \* agent id -> the number of clients opened for it
    timer,      \* ticks left before a reconciliation; 0 when none is armed
    status,     \* "new", "running", "stopped"
    failed,     \* the last reconciliation could not read the store
    changes, failures

managerVars == <<saved, runtimes, live, opened, timer, status, failed, changes, failures>>

Rows == AgentConfigs \cup {NoAgent}
Client(a, n) == [agent |-> a, client |-> n]

ManagerInit ==
    /\ saved \in [Agents -> Rows]
    /\ runtimes = [a \in Agents |-> NoAgent]
    /\ live = {}
    /\ opened = [a \in Agents |-> 0]
    /\ timer = 0
    /\ status = "new"
    /\ failed = FALSE
    /\ changes = 0 /\ failures = 0

-----------------------------------------------------------------------------
(* reconcile() *)

\* Fault: the fingerprint is not compared.
EveryAgent == {a \in Agents : saved[a] # NoAgent}

\* The saved agents whose runtime is missing or has another fingerprint.
Changed ==
    {a \in Agents : /\ saved[a] # NoAgent
                    /\ runtimes[a] = NoAgent \/ runtimes[a].config # saved[a]}

\* Fault: agents that are no longer saved are not looked for.
NoneRemoved == {}

Removed == {a \in Agents : saved[a] = NoAgent /\ runtimes[a] # NoAgent}

\* Fault: a runtime is replaced without being stopped.
StoppedIfRemoved == Removed

\* The agents whose runtime, if any, is stopped.
Stopped == Changed \cup Removed

\* An agent that is enabled opens a client unless the URL is refused or a TLS
\* file cannot be read: then the runtime stays in its error state.
Reconcile ==
    \E opens \in SUBSET {a \in Changed : saved[a].enabled} :
        /\ runtimes' = [a \in Agents |->
                          IF a \in Changed
                            THEN [config |-> saved[a],
                                  client |-> IF a \in opens THEN opened[a] + 1 ELSE 0]
                          ELSE IF a \in Removed THEN NoAgent
                          ELSE runtimes[a]]
        /\ live' = {c \in live : ~ (/\ c.agent \in Stopped
                                    /\ c.client = runtimes[c.agent].client)}
                     \cup {Client(a, opened[a] + 1) : a \in opens}
        /\ opened' = [a \in Agents |-> IF a \in opens THEN opened[a] + 1 ELSE opened[a]]
        /\ failed' = FALSE
        /\ UNCHANGED failures

\* listMqttAgents throws: logged, and nothing is tried again.
CannotRead ==
    /\ failures < MaxFailures
    /\ failures' = failures + 1
    /\ failed' = TRUE
    /\ UNCHANGED <<runtimes, live, opened>>

\* startMqttAgents
Start ==
    /\ status = "new"
    /\ status' = "running"
    /\ Reconcile \/ CannotRead
    /\ UNCHANGED <<saved, timer, changes>>

-----------------------------------------------------------------------------
(* The debounce. *)

\* A change event of the store: heard until stop() removes the listener.
Notify ==
    /\ status # "new" /\ changes < MaxChanges
    /\ changes' = changes + 1
    /\ timer' = IF status = "running" THEN Debounce ELSE timer
    /\ UNCHANGED <<runtimes, live, opened, status, failed, failures>>

EditAgent(a, row) == saved' = [saved EXCEPT ![a] = row] /\ Notify

\* A channel, a device or a tag changes.
EditOther == Notify /\ UNCHANGED saved

Tick ==
    /\ timer > 1
    /\ timer' = timer - 1
    /\ UNCHANGED <<saved, runtimes, live, opened, status, failed, changes, failures>>

DebounceElapses ==
    /\ timer = 1
    /\ timer' = 0
    /\ Reconcile \/ CannotRead
    /\ UNCHANGED <<saved, status, changes>>

\* Fault: the debounce timer is left armed.
StopAgentsOnly ==
    /\ status = "running"
    /\ status' = "stopped"
    /\ live' = {c \in live : \A a \in Agents :
                  runtimes[a] # NoAgent => c # Client(a, runtimes[a].client)}
    /\ runtimes' = [a \in Agents |-> NoAgent]
    /\ UNCHANGED <<saved, opened, timer, failed, changes, failures>>

\* stop()
StopManager ==
    /\ status = "running"
    /\ status' = "stopped"
    /\ timer' = 0
    /\ live' = {c \in live : \A a \in Agents :
                  runtimes[a] # NoAgent => c # Client(a, runtimes[a].client)}
    /\ runtimes' = [a \in Agents |-> NoAgent]
    /\ UNCHANGED <<saved, opened, failed, changes, failures>>

ManagerNext ==
    \/ Start \/ Tick \/ DebounceElapses \/ StopManager
    \/ \E a \in Agents, row \in Rows : EditAgent(a, row)
    \/ EditOther

\* The boot goes on and timers fire.
ManagerFairness ==
    /\ WF_managerVars(Start)
    /\ WF_managerVars(Tick)
    /\ WF_managerVars(DebounceElapses)

ManagerSpec == ManagerInit /\ [][ManagerNext]_managerVars /\ ManagerFairness

-----------------------------------------------------------------------------
(* Properties. *)

ManagerTypeOK ==
    /\ saved \in [Agents -> Rows]
    /\ runtimes \in [Agents -> [config : AgentConfigs, client : Nat] \cup {NoAgent}]
    /\ live \subseteq [agent : Agents, client : Nat \ {0}]
    /\ opened \in [Agents -> Nat]
    /\ timer \in 0 .. Debounce
    /\ status \in {"new", "running", "stopped"}
    /\ failed \in BOOLEAN
    /\ changes \in 0 .. MaxChanges /\ failures \in 0 .. MaxFailures

\* Every client that was opened and not ended is the client of its agent's
\* current runtime: none is leaked by an edit, a removal or a stop, where
\* nothing could end it any more, and so no agent ever has two clients, which
\* would share a client id and push each other out (manager.ts:51-71, 93-98).
OneLiveClient ==
    live = {Client(a, runtimes[a].client) :
              a \in {b \in Agents : runtimes[b] # NoAgent /\ runtimes[b].client # 0}}

\* "agents are started/stopped/restarted only when their own configuration
\* changes" (manager.ts:13-14): a broker connection is never given up for the
\* same configuration, after tag edits or an edit that was taken back.
OnlyEditsReconnect ==
    [][\A a \in Agents :
         (runtimes[a] # NoAgent /\ runtimes'[a] # NoAgent /\ runtimes'[a] # runtimes[a])
         => runtimes'[a].config # runtimes[a].config]_managerVars

\* After stop() no client is left, and no reconciliation that was already
\* scheduled brings one back (manager.ts:93-98).
NothingRunsAfterStop == status = "stopped" => live = {} /\ timer = 0

\* When edits stop, the running agents are the saved ones with their saved
\* configurations, unless the store could not be read (manager.ts:42-81).
AgentsConverge ==
    <>[](status = "running" /\ ~ failed =>
           \A a \in Agents : saved[a] = IF runtimes[a] = NoAgent THEN NoAgent
                                        ELSE runtimes[a].config)
=============================================================================
