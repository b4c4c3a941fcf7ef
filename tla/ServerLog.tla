------------------------------ MODULE ServerLog ------------------------------
(***************************************************************************)
(* How quality changes of tags become lines of the event log                *)
(* (packages/server/src/index.ts): transitions are collected per device,    *)
(* quality and error, and written when none has come for half a second.     *)
(* The log itself is in EventStream, what the engine emits in TagEngine.    *)
(***************************************************************************)
EXTENDS Naturals, Sequences, SequencesExt

CONSTANTS
    LoggedTags, Devices,
    Qualities,  \* "good", "bad" and "uncertain"
    Errors,     \* error texts of bad tags
    NoEntry,     \* no tag, no quality, no error, no line
    Window,     \* bound: ticks of the timer
    MaxChanges, MaxEdits \* bounds: change events, edits of tags

ASSUME QualityAssumption == {"good", "bad"} \subseteq Qualities /\ NoEntry \notin Qualities
ASSUME WindowAssumption == Window \in Nat \ {0}

VARIABLES
    saved,             \* tag -> its device, or NoEntry: store and engine alike
    quality,           \* tag -> the quality of its last change event, or NoEntry
    lastLoggedQuality, \* tag -> quality, or NoEntry
    qualityBurst,      \* the entries of the map in insertion order
    window,             \* ticks left; 0 when not armed
    told,              \* ghost: tag -> the quality of the last line about it
    flapping,          \* ghost: tags with several transitions in one burst
    changes, edits

burstVars == <<saved, quality, lastLoggedQuality, qualityBurst, window, told, flapping, changes, edits>>

InBurst(t) == \E k \in DOMAIN qualityBurst : t \in ToSet(qualityBurst[k].tags)

BurstInit ==
    /\ saved \in [LoggedTags -> Devices \union {NoEntry}]
    /\ quality = [t \in LoggedTags |-> NoEntry]
    /\ lastLoggedQuality = quality /\ told = quality
    /\ qualityBurst = <<>> /\ window = 0
    /\ flapping = {}
    /\ changes = 0 /\ edits = 0

\* Whether the change to quality q is a transition to log: a first good value is not.
Transition(t, q) == lastLoggedQuality[t] # q /\ (q = "good" => lastLoggedQuality[t] # NoEntry)

\* The entry for the key is extended, or a new one is inserted last.
Collected(t, q, e) ==
    IF \E k \in DOMAIN qualityBurst : qualityBurst[k].key = <<saved[t], q, e>>
    THEN [k \in DOMAIN qualityBurst |->
            IF qualityBurst[k].key = <<saved[t], q, e>>
            THEN [qualityBurst[k] EXCEPT !.tags = Append(@, t)] ELSE qualityBurst[k]]
    ELSE Append(qualityBurst, [key |-> <<saved[t], q, e>>, quality |-> q, tags |-> <<t>>])

\* A change event of the engine: of quality, value or error.
Change(t, q, e) ==
    /\ saved[t] # NoEntry /\ changes < MaxChanges
    /\ changes' = changes + 1
    /\ quality' = [quality EXCEPT ![t] = q]
    /\ lastLoggedQuality' = [lastLoggedQuality EXCEPT ![t] = q]
    /\ IF Transition(t, q)
       THEN /\ qualityBurst' = Collected(t, q, e)
            /\ window' = Window
            /\ flapping' = IF InBurst(t) THEN flapping \union {t} ELSE flapping \ {t}
       ELSE UNCHANGED <<qualityBurst, window, flapping>>
    /\ UNCHANGED <<saved, told, edits>>

BurstTick ==
    /\ window > 1
    /\ window' = window - 1
    /\ UNCHANGED <<saved, quality, lastLoggedQuality, qualityBurst, told, flapping, changes, edits>>

\* flushQualityBurst: one line for each entry, in order.
FlushQualityBurst ==
    /\ window = 1
    /\ window' = 0
    /\ qualityBurst' = <<>>
    /\ told' = [t \in LoggedTags |->
          IF InBurst(t) THEN LET k == SelectLastInSeq(qualityBurst, LAMBDA b : t \in ToSet(b.tags))
                             IN  qualityBurst[k].quality
          ELSE told[t]]
    /\ UNCHANGED <<saved, quality, lastLoggedQuality, flapping, changes, edits>>

\* Fault: entries of tags that are gone stay.
FaultPruned(rows) == lastLoggedQuality

\* The entries of tags that no longer exist are dropped.
Pruned(rows) == [t \in LoggedTags |-> IF rows[t] = NoEntry THEN NoEntry ELSE lastLoggedQuality[t]]

\* The store's change listener.  A tag that is created has no line about it yet.
Edit(t, d) ==
    /\ saved[t] # d /\ edits < MaxEdits
    /\ edits' = edits + 1
    /\ saved' = [saved EXCEPT ![t] = d]
    /\ lastLoggedQuality' = Pruned(saved')
    /\ IF NoEntry \in {saved[t], d}
       THEN /\ quality' = [quality EXCEPT ![t] = NoEntry]
            /\ told' = [told EXCEPT ![t] = NoEntry]
            /\ flapping' = IF InBurst(t) THEN flapping \union {t} ELSE flapping \ {t}
       ELSE UNCHANGED <<quality, told, flapping>>
    /\ UNCHANGED <<qualityBurst, window, changes>>

BurstNext ==
    \/ \E t \in LoggedTags, q \in Qualities, e \in Errors \union {NoEntry} :
          (q = "good" => e = NoEntry) /\ Change(t, q, e)
    \/ \E t \in LoggedTags, d \in Devices \union {NoEntry} : Edit(t, d)
    \/ BurstTick \/ FlushQualityBurst

BurstSpec == BurstInit /\ [][BurstNext]_burstVars

-----------------------------------------------------------------------------
\* The types of the variables: one entry for each key, and a timer exactly while
\* there are entries.
LogWiringTypeOK ==
    /\ saved \in [LoggedTags -> Devices \union {NoEntry}]
    /\ quality \in [LoggedTags -> Qualities \union {NoEntry}]
    /\ window \in 0..Window
    /\ (window > 0) <=> (qualityBurst # <<>>)
    /\ \A j, k \in DOMAIN qualityBurst : qualityBurst[j].key = qualityBurst[k].key => j = k

\* Once everything is written, the last line about a tag tells its quality, and a tag
\* about which there is no line has had no value or only good ones: after outages and
\* recoveries of several devices, and with tags deleted, created again and moved.
\* Except for a tag that changed more than once within one burst.
LastLineTells ==
    qualityBurst = <<>> =>
        \A t \in LoggedTags :
            saved[t] # NoEntry /\ t \notin flapping =>
                told[t] = quality[t] \/ (told[t] = NoEntry /\ quality[t] = "good")
=============================================================================
