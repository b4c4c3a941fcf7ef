----------------------------- MODULE WriteDialog -----------------------------
(***************************************************************************)
(* Writing a value from the console (web/src/components/WriteValueDialog):  *)
(* the request goes through the server and the driver to the device, and    *)
(* the dialog waits until the value comes back by the next poll, the tag    *)
(* engine's change events and the live-value stream.  One tag; what is      *)
(* written to and read from registers is in Modbus, the engine in           *)
(* TagEngine, and the stream, its flushes and its pauses in LiveValues.     *)
(***************************************************************************)
EXTENDS Integers, Sequences

CONSTANTS
    Numbers,      \* numbers
    Typed,       \* those typed into the dialog
    Stored,      \* Stored[v]: what a device reads back after v was written to it
    Initial,     \* what it reads at first
    Deadband,
    Skews,       \* how far the console's clock may be ahead of the server's; below 0, behind it
    Timeout,     \* the echo timeout in ticks
    Absent,      \* nothing under way
    MaxTime, MaxWrites, MaxFeed, MaxOther \* bounds: ticks, dialogs and writes on their way, events on their way, changes from elsewhere

ASSUME ValueAssumption ==
    /\ Numbers \subseteq Nat /\ Typed \subseteq Numbers /\ Initial \subseteq Numbers
    /\ Stored \in [Numbers -> Numbers]
ASSUME TimeAssumption == Timeout \in Nat \ {0} /\ Skews \subseteq Int

VARIABLES
    now,      \* the server's clock
    device,   \* the value the device has
    writing,  \* the values on their way to it
    reading,  \* a value read and on its way to the engine, or Absent
    tag,      \* the engine's current value: [value, quality, timestamp]
    reported, \* reportedValue and reportedQuality
    feed,     \* change events the console does not show yet
    entry,    \* the tag's entry in the console's values
    dialog,   \* [number, phase, wrote, start, timer]; start by the console's clock
    requests, \* the write requests: [number, value, state]
    other,
    reads     \* ghost: the values the tag was given with good quality, and when

writeVars == <<now, device, writing, reading, tag, reported, feed, entry, dialog, requests, other, reads>>

Distance(v, w) == IF v > w THEN v - w ELSE w - v

WriteInit ==
    /\ now = 0
    /\ device \in Initial
    /\ writing = <<>> /\ reading = Absent
    /\ tag = [value |-> device, quality |-> "good", timestamp |-> 0]
    /\ reported = [value |-> device, quality |-> "good"]
    /\ feed = <<>> /\ entry = tag
    /\ dialog = [number |-> 0, phase |-> "closed", wrote |-> Absent, start |-> 0, timer |-> 0]
    /\ requests = {}
    /\ other = 0
    /\ reads = {[value |-> device, time |-> 0]}

-----------------------------------------------------------------------------
(* The dialog. *)

\* Fault: the time is not looked at.
FaultEchoed(d, v) == v.value = d.wrote /\ v.quality = "good"

\* Whether v, as shown, is the echo the dialog waits for.
Echoed(d, v) == v.timestamp >= d.start /\ v.value = d.wrote /\ v.quality = "good"

\* The effect, run when the phase or the values change, any tag's: the timer starts anew.
Watched(d, v) ==
    IF d.phase # "waiting" THEN d
    ELSE IF Echoed(d, v) THEN [d EXCEPT !.phase = "confirmed"]
    ELSE [d EXCEPT !.timer = Timeout]

OpenDialog ==
    /\ dialog.phase = "closed" /\ dialog.number < MaxWrites
    /\ dialog' = [dialog EXCEPT !.number = @ + 1, !.phase = "edit"]
    /\ UNCHANGED <<now, device, writing, reading, tag, reported, feed, entry, requests, other, reads>>

\* Allowed at any time; the request goes on.
CloseDialog ==
    /\ dialog.phase # "closed"
    /\ dialog' = [dialog EXCEPT !.phase = "closed", !.wrote = Absent, !.start = 0, !.timer = 0]
    /\ UNCHANGED <<now, device, writing, reading, tag, reported, feed, entry, requests, other, reads>>

\* onConfirm: a dialog has one request at a time, but that of one closed before may still
\* be under way.
Confirm(v) ==
    /\ dialog.phase = "edit"
    /\ \E skew \in Skews :
          dialog' = [dialog EXCEPT !.phase = "busy", !.wrote = v, !.start = now + skew]
    /\ requests' = requests \union {[number |-> dialog.number, value |-> v, state |-> "asked"]}
    /\ UNCHANGED <<now, device, writing, reading, tag, reported, feed, entry, other, reads>>

Answered(request) ==
    /\ request.state = "done"
    /\ requests' = requests \ {request}
    /\ dialog' = IF dialog.phase = "busy" /\ dialog.number = request.number
                 THEN Watched([dialog EXCEPT !.phase = "waiting"], entry) ELSE dialog
    /\ UNCHANGED <<now, device, writing, reading, tag, reported, feed, entry, other, reads>>

\* The request is refused, or it or its answer is lost.
Failed(request) ==
    /\ requests' = requests \ {request}
    /\ dialog' = IF dialog.phase = "busy" /\ dialog.number = request.number
                 THEN [dialog EXCEPT !.phase = "edit"] ELSE dialog
    /\ UNCHANGED <<now, device, writing, reading, tag, reported, feed, entry, other, reads>>

TimerFires ==
    /\ dialog.phase = "waiting" /\ dialog.timer = 0
    /\ dialog' = [dialog EXCEPT !.phase = "timeout"]
    /\ UNCHANGED <<now, device, writing, reading, tag, reported, feed, entry, requests, other, reads>>

\* Time passes; a timer that is due fires first.
WriteTick ==
    /\ now < MaxTime
    /\ dialog.phase = "waiting" => dialog.timer > 0
    /\ now' = now + 1
    /\ dialog' = IF dialog.phase = "waiting" THEN [dialog EXCEPT !.timer = @ - 1] ELSE dialog
    /\ UNCHANGED <<device, writing, reading, tag, reported, feed, entry, requests, other, reads>>

-----------------------------------------------------------------------------
(* Server, driver and device. *)

\* The write event reaches the driver's bridge, which sends one write after the other.
ServeWrite(request) ==
    /\ request.state = "asked" /\ Len(writing) < MaxWrites
    /\ writing' = Append(writing, request.value)
    /\ requests' = (requests \ {request}) \union {[request EXCEPT !.state = "done"]}
    /\ UNCHANGED <<now, device, reading, tag, reported, feed, entry, dialog, other, reads>>

DeviceWritten ==
    /\ writing # <<>>
    /\ device' = Stored[Head(writing)] /\ writing' = Tail(writing)
    /\ UNCHANGED <<now, reading, tag, reported, feed, entry, dialog, requests, other, reads>>

WriteLost ==
    /\ writing # <<>>
    /\ writing' = Tail(writing)
    /\ UNCHANGED <<now, device, reading, tag, reported, feed, entry, dialog, requests, other, reads>>

\* The device's value changes by itself.
DeviceChanges(v) ==
    /\ v # device /\ other < MaxOther
    /\ other' = other + 1
    /\ device' = v
    /\ UNCHANGED <<now, writing, reading, tag, reported, feed, entry, dialog, requests, reads>>

Poll ==
    /\ reading = Absent
    /\ reading' = device
    /\ UNCHANGED <<now, device, writing, tag, reported, feed, entry, dialog, requests, other, reads>>

\* The engine has the new value v and tells about it if `news`.
Updated(v, news) ==
    /\ tag' = v
    /\ IF news
       THEN /\ Len(feed) < MaxFeed
            /\ feed' = Append(feed, v)
            /\ reported' = [value |-> v.value, quality |-> v.quality]
       ELSE UNCHANGED <<feed, reported>>
    /\ reads' = IF v.quality = "good" THEN reads \union {[value |-> v.value, time |-> now]} ELSE reads
    /\ UNCHANGED <<now, device, writing, entry, dialog, requests, other>>

\* updateRaw.
ReadDone ==
    /\ reading # Absent
    /\ reading' = Absent
    /\ Updated([value |-> reading, quality |-> "good", timestamp |-> now],
               reported.quality # "good" \/ Distance(reading, reported.value) > Deadband)

\* setQuality: the value stays; nothing happens to a tag that is bad already.
ReadFails ==
    /\ reading # Absent
    /\ reading' = Absent
    /\ IF tag.quality = "bad"
       THEN UNCHANGED <<now, device, writing, tag, reported, feed, entry, dialog, requests, other, reads>>
       ELSE Updated([tag EXCEPT !.quality = "bad", !.timestamp = now], TRUE)

-----------------------------------------------------------------------------
(* The stream. *)

\* Some of the events are shown, at a flush, by the last of them.
ShowFeed(k) ==
    /\ entry' = feed[k]
    /\ feed' = SubSeq(feed, k + 1, Len(feed))
    /\ dialog' = Watched(dialog, entry')
    /\ UNCHANGED <<now, device, writing, reading, tag, reported, requests, other, reads>>

\* The snapshot after a lost connection; the first k events had been received.
Snapshot(k) ==
    /\ other < MaxOther /\ other' = other + 1
    /\ entry' = tag /\ feed' = SubSeq(feed, 1, k)
    /\ dialog' = Watched(dialog, entry')
    /\ UNCHANGED <<now, device, writing, reading, tag, reported, requests, reads>>

\* Another tag's change is shown.
OtherTag ==
    /\ other < MaxOther /\ other' = other + 1
    /\ dialog' = Watched(dialog, entry)
    /\ UNCHANGED <<now, device, writing, reading, tag, reported, feed, entry, requests, reads>>

WriteNext ==
    \/ OpenDialog \/ CloseDialog \/ \E v \in Typed : Confirm(v)
    \/ \E request \in requests : ServeWrite(request) \/ Answered(request) \/ Failed(request)
    \/ TimerFires \/ WriteTick
    \/ DeviceWritten \/ WriteLost \/ \E v \in Numbers : DeviceChanges(v)
    \/ Poll \/ ReadDone \/ ReadFails
    \/ \E k \in DOMAIN feed : ShowFeed(k)
    \/ \E k \in 0..Len(feed) : Snapshot(k)
    \/ OtherTag

WriteSpec == WriteInit /\ [][WriteNext]_writeVars

-----------------------------------------------------------------------------
\* The types of the variables; a dialog that waits, or has waited, has no request.
WriteTypeOK ==
    /\ {device, tag.value, entry.value} \subseteq Numbers
    /\ writing \in Seq(Numbers)
    /\ {reading, dialog.wrote} \subseteq Numbers \union {Absent}
    /\ dialog.timer \in 0..Timeout
    /\ dialog.phase \in {"waiting", "confirmed", "timeout"} =>
          \A request \in requests : request.number # dialog.number

\* The tag was given the written value, with good quality, at a time or later.
LandedSince(time) == \E r \in reads : r.value = dialog.wrote /\ r.time >= time

\* "the value actually landing on the tag - before reporting success": success is
\* reported only if the tag was given the written value, with good quality, since the
\* time the console's clock showed when the write began, to its precision.  Where that
\* clock is behind the server's, this may be before the write, and a value the tag had
\* already is taken for the echo.
SuccessIsEcho == dialog.phase = "confirmed" => LandedSince(dialog.start)

=============================================================================
