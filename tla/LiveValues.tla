----------------------------- MODULE LiveValues -----------------------------
(***************************************************************************)
(* The live values of the console (packages/web/src/lib/live-values.tsx):  *)
(* one REST snapshot, the snapshot of every connection and the changes     *)
(* streamed after it are merged into the values shown; changes wait for    *)
(* the next flush, and for the operator while the display is paused.       *)
(*                                                                         *)
(* A value stands for value, quality and error together.  The server side  *)
(* is the engine's values (source) and what ws.ts sends of them; what the  *)
(* deadband holds back is the business of TagEngine.  Trend arrows, which  *)
(* only decorate a value, are left out.                                    *)
(***************************************************************************)
EXTENDS Stream

CONSTANTS
    Tags,
    Values,         \* what the engine may hold for a tag
    Unknown         \* no entry in a map of values

ASSUME UnknownAssumption == Unknown \notin Values

Maps == [Tags -> Values \cup {Unknown}]
Empty == [t \in Tags |-> Unknown]
Messages == [type : {"snapshot"}, data : [Tags -> Values]] \cup [type : {"change"}, data : Maps]

\* { ...map, ...batch }
Merge(map, batch) == [t \in Tags |-> IF batch[t] = Unknown THEN map[t] ELSE batch[t]]

VARIABLES
    source,         \* the engine's values
    values,         \* what the console shows
    pending,        \* changes received and not yet shown
    timer,          \* a flush is scheduled
    paused,
    rest,           \* the initial GET /api/values: "asked", "answered", "done"
    reply,          \* its answer, on the way
    fresh           \* ghost: the tags whose newest state has reached the
                    \* console in this connection and was not overwritten

consoleVars == <<source, values, pending, timer, paused, rest, reply, fresh>>
vars == <<streamVars, consoleVars>>

Init ==
    /\ StreamInit
    /\ source \in [Tags -> Values]
    /\ values = Empty /\ pending = Empty
    /\ timer = FALSE /\ paused = FALSE
    /\ rest = "asked" /\ reply = Empty
    /\ fresh = {}

-----------------------------------------------------------------------------
(* The server. *)

EngineChange(t, v) ==
    /\ v # source[t] /\ HasRoom
    /\ source' = [source EXCEPT ![t] = v]
    /\ Broadcast([type |-> "change", data |-> [Empty EXCEPT ![t] = v]])
    /\ UNCHANGED <<values, pending, timer, paused, rest, reply, fresh>>

ServeRest ==
    /\ rest = "asked"
    /\ rest' = "answered"
    /\ reply' = source
    /\ UNCHANGED <<streamVars, source, values, pending, timer, paused, fresh>>

-----------------------------------------------------------------------------
(* The initial snapshot. *)

\* Whenever it arrives, it replaces everything that is shown.
RestArrives ==
    /\ rest = "answered"
    /\ rest' = "done"
    /\ values' = reply
    /\ reply' = Empty
    /\ fresh' = {t \in fresh : pending[t] # Unknown}
    /\ UNCHANGED <<streamVars, source, pending, timer, paused>>

RestFails ==
    /\ rest # "done"
    /\ rest' = "done"
    /\ reply' = Empty
    /\ UNCHANGED <<streamVars, source, values, pending, timer, paused, fresh>>

-----------------------------------------------------------------------------
(* The connection. *)

\* A flush is due after 200 ms and a reconnect waits for a second, so no flush
\* is outstanding by then.
Connect ==
    /\ ~ timer
    /\ Open(<<[type |-> "snapshot", data |-> source]>>)
    /\ UNCHANGED consoleVars

Disconnect ==
    /\ LoseLink
    /\ fresh' = {}
    /\ UNCHANGED <<source, values, pending, timer, paused, rest, reply>>

NoticeClose == SeeClose /\ UNCHANGED consoleVars

Refreshed(tags) == IF link = "open" THEN tags ELSE {}

OnSnapshot ==
    /\ Take
    /\ Head(stream).type = "snapshot"
    /\ values' = Head(stream).data
    /\ fresh' = Refreshed({t \in Tags : pending[t] = Unknown})
    /\ UNCHANGED <<source, pending, timer, paused, rest, reply>>

\* Fault: a change received while paused is dropped.
OnChangeUnlessPaused ==
    /\ Take
    /\ Head(stream).type = "change"
    /\ pending' = IF paused THEN pending ELSE Merge(pending, Head(stream).data)
    /\ timer' = (timer \/ ~ paused)
    /\ fresh' = Refreshed(fresh \cup {t \in Tags : Head(stream).data[t] # Unknown})
    /\ UNCHANGED <<source, values, paused, rest, reply>>

OnChange ==
    /\ Take
    /\ Head(stream).type = "change"
    /\ pending' = Merge(pending, Head(stream).data)
    /\ timer' = (timer \/ ~ paused)
    /\ fresh' = Refreshed(fresh \cup {t \in Tags : Head(stream).data[t] # Unknown})
    /\ UNCHANGED <<source, values, paused, rest, reply>>

-----------------------------------------------------------------------------
(* Showing what is pending. *)

Flush ==
    /\ values' = Merge(values, pending)
    /\ pending' = Empty

CommitPending ==
    /\ timer
    /\ timer' = FALSE
    /\ IF paused THEN UNCHANGED <<values, pending>> ELSE Flush
    /\ UNCHANGED <<streamVars, source, paused, rest, reply, fresh>>

Pause ==
    /\ ~ paused
    /\ paused' = TRUE
    /\ UNCHANGED <<streamVars, source, values, pending, timer, rest, reply, fresh>>

Resume ==
    /\ paused
    /\ paused' = FALSE
    /\ Flush
    /\ UNCHANGED <<streamVars, source, timer, rest, reply, fresh>>

Next ==
    \/ \E t \in Tags, v \in Values : EngineChange(t, v)
    \/ ServeRest \/ RestArrives \/ RestFails
    \/ Connect \/ Disconnect \/ NoticeClose
    \/ OnSnapshot \/ OnChange
    \/ CommitPending \/ Pause \/ Resume

Spec == Init /\ [][Next]_vars

-----------------------------------------------------------------------------
(* Properties. *)

LiveTypeOK ==
    /\ link \in {"closed", "open", "lost"}
    /\ stream \in Seq(Messages)
    /\ source \in [Tags -> Values]
    /\ values \in Maps /\ pending \in Maps /\ reply \in Maps
    /\ timer \in BOOLEAN /\ paused \in BOOLEAN
    /\ rest \in {"asked", "answered", "done"}
    /\ fresh \subseteq Tags

\* The message at i is the last one in flight that says something of t.
LastAbout(i, t) ==
    /\ stream[i].data[t] # Unknown
    /\ \A j \in DOMAIN stream : j > i => stream[j].data[t] = Unknown

NothingAbout(t) == \A i \in DOMAIN stream : stream[i].data[t] = Unknown

\* What the console shows of t once it has flushed.
Held(t) == IF pending[t] # Unknown THEN pending[t] ELSE values[t]

\* In an open connection the last message in flight about a tag is the engine's
\* state of it: the greeting and the changes leave no gap and do not overtake
\* each other, however they interleave (ws.ts:38-56).
StreamCurrent ==
    link = "open" =>
        \A i \in DOMAIN stream, t \in Tags : LastAbout(i, t) => stream[i].data[t] = source[t]

\* Once the newest state of a tag has reached the console, it is never lost to
\* a pause, a flush or a resume, whatever comes between: with nothing more in
\* flight the console holds the engine's value.  A tag leaves this guarantee
\* when the connection does, and when the answer to the initial request comes
\* in late; it does not enter it with a snapshot that finds an older change
\* still pending (live-values.tsx:51-111).
FreshInStep ==
    link = "open" => \A t \in fresh : NothingAbout(t) => Held(t) = source[t]

\* A change received is always about to be shown: a flush is scheduled or the
\* display is paused (live-values.tsx:58-77, 93-111).
PendingWillShow == pending # Empty => timer \/ paused

\* The inductive invariant.
LiveInv ==
    /\ LiveTypeOK
    /\ StreamCurrent
    /\ FreshInStep
    /\ PendingWillShow
    /\ link # "open" => fresh = {}

=============================================================================
