------------------------------- MODULE Stream -------------------------------
(***************************************************************************)
(* The WebSocket /ws as one console client sees it: what the server sends  *)
(* (packages/api/src/ws.ts) and the reconnecting client of subscribeValues *)
(* (packages/web/src/lib/api-client.ts).                                   *)
(*                                                                         *)
(* Messages arrive in order.  When the connection is lost, a tail of what  *)
(* was in flight is lost with it, and the client learns of it after what   *)
(* still arrives.  Authentication of the upgrade is left out.              *)
(***************************************************************************)
EXTENDS Naturals, Sequences

CONSTANT
    MaxInFlight     \* bound: messages sent and not yet received

ASSUME StreamAssumption == MaxInFlight \in Nat \ {0}

VARIABLES
    link,           \* "closed"; "open"; "lost": gone, and the client does not know
    stream          \* messages in flight to the client

streamVars == <<link, stream>>

StreamInit == link = "closed" /\ stream = <<>>

HasRoom == link = "open" => Len(stream) < MaxInFlight

\* broadcast(): sent to every client whose socket is open.
Broadcast(message) ==
    /\ stream' = IF link = "open" THEN Append(stream, message) ELSE stream
    /\ UNCHANGED link

\* connect() succeeds; greeting is what the server sends on "connection".
Open(greeting) ==
    /\ link = "closed"
    /\ link' = "open"
    /\ stream' = greeting

LoseLink ==
    /\ link = "open"
    /\ link' = "lost"
    /\ \E n \in 0 .. Len(stream) : stream' = SubSeq(stream, 1, n)

\* onclose: the client will connect again after its backoff.
SeeClose ==
    /\ link = "lost" /\ stream = <<>>
    /\ link' = "closed"
    /\ UNCHANGED stream

\* onmessage takes the next message.
Take ==
    /\ stream # <<>>
    /\ stream' = Tail(stream)
    /\ UNCHANGED link
=============================================================================
