------------------------------ MODULE MCConsole ------------------------------
(* What the console is told by the running system: live values, the events of  *)
(* the log, how quality changes get into it, and the echo of a written value.  *)
(* The four share no state: one is explored at a time, while the others are at *)
(* rest.                                                                       *)
(*                                                                             *)
(* Live values: two tags, so that a batch and a snapshot overlap in part, and  *)
(* two values.  Event log: a list of two events over a buffer of three, both   *)
(* overflow.  Quality changes: two tags, two devices, one error text, bursts   *)
(* of at least two ticks.  Write dialog: a device that keeps what is written.  *)
EXTENDS LiveValues, EventStream, ServerLog, WriteDialog

CONSTANTS t1, t2, d1, d2, none

MCTags == {t1, t2}
MCValues == {0, 1}
MCDevices == {d1, d2}
MCQualities == {"good", "bad", "uncertain"}
MCErrors == {"timeout"}
MCNumbers == {0, 10}
MCTyped == {10}
MCSkews == {-1, 0}
MCStored == [v \in MCNumbers |-> v]

VARIABLE part       \* what is explored

allVars == <<part, vars, eventVars, burstVars, writeVars>>

ConsoleInit ==
    /\ part \in {"values", "events", "bursts", "write"}
    /\ Init /\ (part # "values" => source = [t \in Tags |-> 0])
    /\ LogInit
    /\ BurstInit /\ (part # "bursts" => saved = [t \in LoggedTags |-> d1])
    /\ WriteInit /\ (part # "write" => device = 0)

ConsoleNext ==
    \/ part = "values" /\ Next /\ UNCHANGED <<part, eventVars, burstVars, writeVars>>
    \/ part = "events" /\ LogNext /\ UNCHANGED <<part, vars, burstVars, writeVars>>
    \/ part = "bursts" /\ BurstNext /\ UNCHANGED <<part, vars, eventVars, writeVars>>
    \/ part = "write" /\ WriteNext /\ UNCHANGED <<part, vars, eventVars, burstVars>>

ConsoleSpec == ConsoleInit /\ [][ConsoleNext]_allVars
==============================================================================
