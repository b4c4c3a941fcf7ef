---------------------------- MODULE EventStream ----------------------------
(***************************************************************************)
(* The event log: the ring buffer of the server (core/src/event-log.ts)    *)
(* and the list the console keeps of it (web/src/lib/events.ts), from      *)
(* fetches whose answers arrive in any order and from the live stream.     *)
(*                                                                         *)
(* An event is its id and the run of the server it belongs to: ids start   *)
(* again from 1 when the server does.  What an event says is left out, and *)
(* so are the filters of a query, which the console does not use.          *)
(***************************************************************************)
EXTENDS Integers, Sequences, FiniteSets

CONSTANTS
    Capacity,       \* of the ring buffer
    Limit,          \* events the console fetches and keeps
    MaxId,          \* bound: events of one run of the server
    MaxRestarts,    \* bound
    MaxFetches,     \* bound: fetches of the console not settled
    MaxEventsInFlight   \* bound: events sent and not yet received

\* 2000 and 500 in the code.
ASSUME LogAssumption ==
    /\ Limit \in Nat \ {0} /\ Capacity \in Nat /\ Capacity >= Limit
    /\ MaxId \in Nat /\ MaxRestarts \in Nat /\ MaxFetches \in Nat \ {0}
    /\ MaxEventsInFlight \in Nat \ {0}

Events == [run : 0 .. MaxRestarts, id : 1 .. MaxId]

VARIABLES
    eventLink,      \* the console's connection
    eventStream,    \* the events in flight to it
    run,            \* how many times the server has restarted
    nextId,
    buffer,         \* the ring buffer, oldest first
    fetches,        \* fetches on their way: the answer, or Unserved
    shown,          \* the console's list
    gapKnown        \* ghost: a fetch has failed since the last connect

feedVars == <<eventLink, eventStream>>
logVars == <<run, nextId, buffer>>
listVars == <<fetches, shown, gapKnown>>
eventVars == <<feedVars, logVars, listVars>>

\* The connection as this list sees it.
Feed == INSTANCE Stream WITH
    link <- eventLink, stream <- eventStream, MaxInFlight <- MaxEventsInFlight

Unserved == <<[run |-> -1, id |-> 0]>>

\* list.slice(list.length - n) when the list is longer than that
Newest(list, n) == IF Len(list) > n THEN SubSeq(list, Len(list) - n + 1, Len(list)) ELSE list

TailId(list) == IF list = <<>> THEN 0 ELSE list[Len(list)].id

\* filter(): what is at the places `kept` of the list, in its order.
Filtered(list, kept) ==
    [j \in 1 .. Cardinality(kept) |->
        list[CHOOSE i \in kept : Cardinality(kept \intersect 1 .. i) = j]]

Without(list, i) == SubSeq(list, 1, i - 1) \o SubSeq(list, i + 1, Len(list))

LogInit ==
    /\ Feed!StreamInit
    /\ run = 0 /\ nextId = 1 /\ buffer = <<>>
    /\ fetches = <<Unserved>>
    /\ shown = <<>>
    /\ gapKnown = FALSE

-----------------------------------------------------------------------------
(* The server. *)

\* EventLog.add, broadcast inside it.
Add ==
    /\ nextId <= MaxId /\ Feed!HasRoom
    /\ LET event == [run |-> run, id |-> nextId]
       IN  /\ buffer' = Newest(Append(buffer, event), Capacity)
           /\ Feed!Broadcast(event)
    /\ nextId' = nextId + 1
    /\ UNCHANGED <<run, listVars>>

\* The log is in memory: a new process starts an empty one.  Fetches it had not
\* answered fail.
Restart ==
    /\ run < MaxRestarts
    /\ eventLink # "open"
    /\ run' = run + 1 /\ nextId' = 1 /\ buffer' = <<>>
    /\ fetches' = Filtered(fetches, {i \in DOMAIN fetches : fetches[i] # Unserved})
    /\ gapKnown' = (gapKnown \/ \E i \in DOMAIN fetches : fetches[i] = Unserved)
    /\ UNCHANGED <<feedVars, shown>>

\* GET /api/events?limit=...
ServeEvents ==
    /\ \E i \in DOMAIN fetches :
         /\ fetches[i] = Unserved
         /\ fetches' = [fetches EXCEPT ![i] = Newest(buffer, Limit)]
    /\ UNCHANGED <<feedVars, logVars, shown, gapKnown>>

-----------------------------------------------------------------------------
(* The console. *)

\* onStateChange(true) fetches again.  The greeting of the socket, a snapshot
\* of values, is not for this list.
ListConnect ==
    /\ Len(fetches) < MaxFetches
    /\ Feed!Open(<<>>)
    /\ fetches' = Append(fetches, Unserved)
    /\ gapKnown' = FALSE
    /\ UNCHANGED <<logVars, shown>>

ListDisconnect == Feed!LoseLink /\ UNCHANGED <<logVars, listVars>>

ListNoticeClose == Feed!SeeClose /\ UNCHANGED <<logVars, listVars>>

\* Fault: the answer replaces the list.
MergeReplacing(answer, prev) == answer

\* Fault: everything in the list is kept behind the answer.
MergeKeepingAll(answer, prev) == Newest(answer \o prev, Limit)

\* Streamed events newer than the answer stay.
Merged(answer, prev) ==
    Newest(answer \o Filtered(prev, {i \in DOMAIN prev : prev[i].id > TailId(answer)}), Limit)

FetchArrives ==
    \E i \in DOMAIN fetches :
        /\ fetches[i] # Unserved
        /\ shown' = Merged(fetches[i], shown)
        /\ fetches' = Without(fetches, i)
        /\ UNCHANGED <<feedVars, logVars, gapKnown>>

FetchFails ==
    \E i \in DOMAIN fetches :
        /\ fetches' = Without(fetches, i)
        /\ gapKnown' = TRUE
        /\ UNCHANGED <<feedVars, logVars, shown>>

\* An event no newer than the tail is taken for a duplicate.
OnEvent ==
    /\ Feed!Take
    /\ shown' = IF Head(eventStream).id <= TailId(shown) THEN shown
                ELSE Newest(Append(shown, Head(eventStream)), Limit)
    /\ UNCHANGED <<logVars, fetches, gapKnown>>

LogNext ==
    \/ Add \/ Restart \/ ServeEvents
    \/ ListConnect \/ ListDisconnect \/ ListNoticeClose
    \/ FetchArrives \/ FetchFails \/ OnEvent

LogSpec == LogInit /\ [][LogNext]_eventVars

-----------------------------------------------------------------------------
(* Properties. *)

LogTypeOK ==
    /\ eventLink \in {"closed", "open", "lost"}
    /\ eventStream \in Seq(Events)
    /\ run \in 0 .. MaxRestarts /\ nextId \in 1 .. MaxId + 1
    /\ buffer \in Seq(Events) /\ Len(buffer) <= Capacity
    /\ fetches \in Seq(Seq(Events) \cup {Unserved}) /\ Len(fetches) <= MaxFetches
    /\ shown \in Seq(Events) /\ Len(shown) <= Limit
    /\ gapKnown \in BOOLEAN

\* Every list the console can be shown holds the events of one run of the
\* server in order and none twice, in whatever order fetches were served and
\* answered and stream events came in between (events.ts:20-28, 41-48).
OrderedPerRun ==
    \A i, j \in DOMAIN shown :
        i < j /\ shown[i].run = shown[j].run => shown[i].id < shown[j].id

OneRun == \A i \in DOMAIN shown : shown[i].run = run

Has(list, id) == \E i \in DOMAIN list : list[i] = [run |-> run, id |-> id]

\* While connected, an event among the newest that the list does not have is
\* in flight, or a fetch is under way that will bring it, or the fetch has
\* failed: events lost with a connection are not forgotten, and no answer,
\* however old, takes a newer event off the list.  After a restart of the
\* server this holds from when the list has none of the old events left.
GapsArePending ==
    eventLink = "open" /\ OneRun /\ fetches = <<>> /\ ~ gapKnown =>
        \A id \in 1 .. nextId - 1 :
            id >= nextId - Limit => Has(shown, id) \/ Has(eventStream, id)

\* "Events are kept in chronological order" (events.ts:8).
Chronological ==
    \A i, j \in DOMAIN shown : i < j =>
        \/ shown[i].run < shown[j].run
        \/ shown[i].run = shown[j].run /\ shown[i].id < shown[j].id
=============================================================================
