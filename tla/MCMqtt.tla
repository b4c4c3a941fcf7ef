------------------------------- MODULE MCMqtt -------------------------------
(* MQTT: the manager of the agents, one agent that follows the engine, and     *)
(* the console's page for them.  The three share no state: one is explored at  *)
(* a time, while the others are at rest.                                       *)
(*                                                                             *)
(* Manager: two agents and three configurations, one of them disabled.         *)
(* Agent: one tag whose configurations inherit, widen the deadband, publish on *)
(* an interval or opt out: an edit can move it between any two of them.        *)
(* Page: two ids, two URLs, one of them without a scheme, and one password.    *)
EXTENDS MqttManager, MqttAgent, AgentPage, TLC

CONSTANTS a1, a2, none, t1, d1, timeout, nan, noError, inherit

MCAgents == {a1, a2}
MCAgentConfigs ==
    {[enabled |-> TRUE, rest |-> 1], [enabled |-> TRUE, rest |-> 2],
     [enabled |-> FALSE, rest |-> 1]}

Unscaled == [enabled |-> FALSE, type |-> "linear", rawMin |-> 0, rawMax |-> 100,
             engMin |-> 0, engMax |-> 100,
             clampLow |-> FALSE, clampHigh |-> FALSE, negate |-> FALSE]
Row(ro, deadband) == [device |-> d1, ro |-> ro, deadband |-> deadband,
                      scaling |-> Unscaled, dataType |-> "float64"]
Short == [Row(FALSE, 0) EXCEPT !.dataType = "float32"]
Overridden(enabled, mode, interval, deadband) ==
    [enabled |-> enabled, mode |-> mode, interval |-> interval, deadband |-> deadband]

MCWords == {}
MCTags == {t1}
MCDevices == {d1}
MCConfigs == {Row(FALSE, 0), Row(TRUE, 0), Row(FALSE, 1), Row(TRUE, 1), Short}
MCRawValues == 0 .. 3 \cup {nan}
MCErrors == {timeout}
MCIntervals == {1, 2}
MCAgent == [enabled |-> TRUE, mode |-> "on-change", interval |-> 1, deadband |-> 0]
MCOverride ==
    Row(FALSE, 0) :> none
    @@ Row(TRUE, 0) :> Overridden(FALSE, inherit, inherit, inherit)
    @@ Row(FALSE, 1) :> Overridden(TRUE, inherit, inherit, 2)
    @@ Row(TRUE, 1) :> Overridden(TRUE, "interval", 2, inherit)
    @@ Short :> Overridden(TRUE, "interval", inherit, inherit)

MCUrls == {"mqtt://h", "h"}
MCWithScheme == [u \in MCUrls |-> "mqtt://h"]
MCPasswords == {"secret"}

VARIABLE part       \* what is explored

allVars == <<part, managerVars, vars, agentVars, pageVars>>

\* While another part is explored: a manager without agents, an agent whose
\* client waits for the broker, a page without agents.
MqttInit ==
    /\ part \in {"manager", "agent", "page"}
    /\ ManagerInit /\ (part # "manager" => saved = [a \in Agents |-> NoAgent])
    /\ AgentInit /\ (part # "agent" => state = "connecting")
    /\ PageInit /\ (part # "page" => stored = agents)

MqttNext ==
    \/ part = "manager" /\ ManagerNext /\ UNCHANGED <<part, vars, agentVars, pageVars>>
    \/ part = "agent" /\ AgentNext /\ UNCHANGED <<part, managerVars, pageVars>>
    \/ part = "page" /\ PageNext /\ UNCHANGED <<part, managerVars, vars, agentVars>>

MqttSpec ==
    /\ MqttInit /\ [][MqttNext]_allVars
    /\ part = "manager" => ManagerFairness
=============================================================================
