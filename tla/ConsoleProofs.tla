--------------------------- MODULE ConsoleProofs ---------------------------
(***************************************************************************)
(* What the console shows, proved for any tags, values and bounds: live    *)
(* values that pauses and flushes do not lose, a write dialog that takes   *)
(* no stale value for its echo, the lines the server logs about the        *)
(* quality of a tag, and the list of events merged from fetches and the    *)
(* live stream.                                                            *)
(***************************************************************************)
EXTENDS LiveValues, EventStream, ServerLog, WriteDialog, SequenceTheorems, FiniteSetTheorems,
        WellFoundedInduction, TLAPS

(* LiveValues: the live values of the console. *)

\* Merging two maps of values gives one.
LEMMA MergeType ==
    ASSUME NEW map \in Maps, NEW batch \in Maps
    PROVE  Merge(map, batch) \in Maps
BY DEF Maps, Merge

LEMMA EmptyType == Empty \in Maps
BY DEF Empty, Maps

\* Nothing has been received before the first connection.
LEMMA LiveInitInv == Init => LiveInv
<1> SUFFICES ASSUME Init PROVE LiveInv
  OBVIOUS
<1>1. stream \in Seq(Messages)
  BY EmptySeq DEF Init, StreamInit
<1>2. LiveTypeOK
  BY <1>1, EmptyType DEF Init, StreamInit, LiveTypeOK
<1> QED
  BY <1>2 DEF Init, StreamInit, LiveInv, StreamCurrent, FreshInStep, PendingWillShow

-----------------------------------------------------------------------------
(* Types. *)

\* Taking a message leaves a stream of messages.
LEMMA TakeType ==
    ASSUME stream \in Seq(Messages), Take
    PROVE  /\ stream' \in Seq(Messages)
           /\ Head(stream) \in Messages
           /\ 1 \in DOMAIN stream /\ stream[1] = Head(stream)
           /\ \A i \in DOMAIN stream' : i + 1 \in DOMAIN stream /\ stream'[i] = stream[i + 1]
           /\ \A i \in DOMAIN stream : i > 1 => i - 1 \in DOMAIN stream'
<1>1. stream # <<>> /\ stream' = Tail(stream)
  BY DEF Take
<1>2. /\ Len(stream) \in Nat \ {0}
      /\ DOMAIN stream = 1 .. Len(stream)
  BY <1>1, EmptySeq, LenProperties
<1>3. /\ stream' \in Seq(Messages)
      /\ Head(stream) \in Messages
      /\ Len(stream') = Len(stream) - 1
      /\ \A i \in 1 .. Len(stream') : stream'[i] = stream[i + 1]
  BY <1>1, HeadTailProperties
<1>4. DOMAIN stream' = 1 .. Len(stream) - 1
  BY <1>3, LenProperties
<1>5. stream[1] = Head(stream)
  BY <1>1
<1> QED
  BY <1>2, <1>3, <1>4, <1>5

\* A change of the engine appends one message, or none when nobody listens.
LEMMA ChangeAppended ==
    ASSUME LiveTypeOK, NEW t \in Tags, NEW v \in Values, EngineChange(t, v)
    PROVE  /\ stream' \in Seq(Messages)
           /\ source' \in [Tags -> Values]
           /\ source' = [source EXCEPT ![t] = v]
           /\ link = "open" =>
                /\ DOMAIN stream = 1 .. Len(stream) /\ Len(stream) \in Nat
                /\ DOMAIN stream' = 1 .. Len(stream) + 1
                /\ \A i \in DOMAIN stream : stream'[i] = stream[i]
                /\ stream'[Len(stream) + 1].data = [Empty EXCEPT ![t] = v]
<1> DEFINE m == [type |-> "change", data |-> [Empty EXCEPT ![t] = v]]
<1>1. m \in Messages
  BY DEF Messages, Maps, Empty
<1>2. /\ source' = [source EXCEPT ![t] = v]
      /\ stream' = IF link = "open" THEN Append(stream, m) ELSE stream
  BY DEF EngineChange, Broadcast
<1>3. stream \in Seq(Messages) /\ source \in [Tags -> Values]
  BY DEF LiveTypeOK
<1>4. source' \in [Tags -> Values]
  BY <1>2, <1>3
<1>5. CASE link # "open"
  BY <1>2, <1>3, <1>4, <1>5
<1>6. CASE link = "open"
  <2>1. stream' = Append(stream, m)
    BY <1>2, <1>6
  <2>2. /\ stream' \in Seq(Messages)
        /\ Len(stream') = Len(stream) + 1
        /\ \A i \in 1 .. Len(stream) : stream'[i] = stream[i]
        /\ stream'[Len(stream) + 1] = m
    BY <2>1, <1>1, <1>3, AppendProperties
  <2>3. Len(stream) \in Nat /\ DOMAIN stream = 1 .. Len(stream)
    BY <1>3, LenProperties
  <2>4. DOMAIN stream' = 1 .. Len(stream) + 1
    BY <2>2, LenProperties
  <2>5. stream'[Len(stream) + 1].data = [Empty EXCEPT ![t] = v]
    BY <2>2
  <2> QED
    BY <2>2, <2>3, <2>4, <2>5, <1>2, <1>4
<1> QED
  BY <1>5, <1>6

LEMMA LiveTypeStep ==
    ASSUME LiveInv, [Next]_vars
    PROVE  LiveTypeOK'
<1> USE DEF LiveTypeOK
<1>1. LiveTypeOK
  BY DEF LiveInv
<1>2. CASE UNCHANGED vars
  BY <1>1, <1>2 DEF vars, streamVars, consoleVars
<1>3. CASE \E t \in Tags, v \in Values : EngineChange(t, v)
  <2>1. stream' \in Seq(Messages) /\ source' \in [Tags -> Values]
    BY <1>1, <1>3, ChangeAppended
  <2> QED
    BY <1>1, <1>3, <2>1 DEF EngineChange, Broadcast
<1>4. CASE ServeRest
  <2>1. reply' \in Maps
    BY <1>1, <1>4 DEF ServeRest, Maps
  <2> QED
    BY <1>1, <1>4, <2>1 DEF ServeRest, streamVars
<1>5. CASE RestArrives
  BY <1>1, <1>5, EmptyType DEF RestArrives, streamVars
<1>6. CASE RestFails
  BY <1>1, <1>6, EmptyType DEF RestFails, streamVars
<1>7. CASE Connect
  <2> DEFINE m == [type |-> "snapshot", data |-> source]
  <2>1. m \in Messages
    BY <1>1 DEF Messages
  <2>2. <<m>> \in Seq(Messages)
    BY <2>1
  <2>3. stream' \in Seq(Messages)
    BY <1>7, <2>2 DEF Connect, Open
  <2> QED
    BY <1>1, <1>7, <2>3 DEF Connect, Open, consoleVars
<1>8. CASE Disconnect
  <2>1. PICK n \in 0 .. Len(stream) : stream' = SubSeq(stream, 1, n)
    BY <1>8 DEF Disconnect, LoseLink
  <2>2. \A i \in 1 .. n : stream[i] \in Messages
    BY <1>1, <2>1, LenProperties
  <2>3. stream' \in Seq(Messages)
    BY <1>1, <2>1, <2>2, SubSeqProperties, LenProperties
  <2> QED
    BY <1>1, <1>8, <2>3 DEF Disconnect, LoseLink
<1>9. CASE NoticeClose
  BY <1>1, <1>9 DEF NoticeClose, SeeClose, consoleVars
<1>10. CASE OnSnapshot
  <2>1. stream' \in Seq(Messages) /\ Head(stream) \in Messages
    BY <1>1, <1>10, TakeType DEF OnSnapshot
  <2>2. Head(stream).data \in Maps
    BY <2>1 DEF Messages, Maps
  <2> QED
    BY <1>1, <1>10, <2>1, <2>2 DEF OnSnapshot, Take, Refreshed
<1>11. CASE OnChange
  <2>1. stream' \in Seq(Messages) /\ Head(stream) \in Messages
    BY <1>1, <1>11, TakeType DEF OnChange
  <2>2. Head(stream).data \in Maps
    BY <2>1 DEF Messages, Maps
  <2>3. pending' \in Maps
    BY <1>1, <1>11, <2>2, MergeType DEF OnChange
  <2> QED
    BY <1>1, <1>11, <2>1, <2>3 DEF OnChange, Take, Refreshed
<1>12. CASE CommitPending
  BY <1>1, <1>12, MergeType, EmptyType DEF CommitPending, Flush, streamVars
<1>13. CASE Pause
  BY <1>1, <1>13 DEF Pause, streamVars
<1>14. CASE Resume
  BY <1>1, <1>14, MergeType, EmptyType DEF Resume, Flush, streamVars
<1> QED
  BY <1>2, <1>3, <1>4, <1>5, <1>6, <1>7, <1>8, <1>9, <1>10, <1>11, <1>12, <1>13, <1>14 DEF Next

-----------------------------------------------------------------------------
(* The stream. *)

\* The last message about each tag stays the engine's state of it: a change
\* becomes the last one about its tag, and taking the first message leaves the
\* last ones where they are.
LEMMA StreamStep ==
    ASSUME LiveInv, [Next]_vars
    PROVE  StreamCurrent'
<1>0. LiveTypeOK /\ StreamCurrent
  BY DEF LiveInv
<1>1. CASE UNCHANGED <<streamVars, source>>
  BY <1>0, <1>1 DEF StreamCurrent, LastAbout, streamVars
<1>2. CASE \E t \in Tags, v \in Values : EngineChange(t, v)
  <2> PICK t \in Tags, v \in Values : EngineChange(t, v)
    BY <1>2
  <2> SUFFICES ASSUME link' = "open", NEW i \in DOMAIN stream', NEW u \in Tags,
                      LastAbout(i, u)'
               PROVE  stream'[i].data[u] = source'[u]
    BY DEF StreamCurrent
  <2>1. link = "open"
    BY DEF EngineChange, Broadcast
  <2>2. /\ source' = [source EXCEPT ![t] = v] /\ source \in [Tags -> Values]
        /\ DOMAIN stream = 1 .. Len(stream) /\ Len(stream) \in Nat
        /\ DOMAIN stream' = 1 .. Len(stream) + 1
        /\ \A k \in DOMAIN stream : stream'[k] = stream[k]
        /\ stream'[Len(stream) + 1].data = [Empty EXCEPT ![t] = v]
    BY <1>0, <2>1, ChangeAppended DEF LiveTypeOK
  <2>3. v # Unknown
    BY UnknownAssumption
  <2>4. stream'[Len(stream) + 1].data[u] = IF u = t THEN v ELSE Unknown
    BY <2>2 DEF Empty
  <2>0. /\ i \in 1 .. Len(stream) + 1
        /\ stream'[i].data[u] # Unknown
        /\ Len(stream) + 1 > i => stream'[Len(stream) + 1].data[u] = Unknown
    <3>1. Len(stream) + 1 \in DOMAIN stream'
      BY <2>2
    <3> QED
      BY <2>2, <3>1 DEF LastAbout
  <2>5. CASE u = t
    <3>1. i = Len(stream) + 1
      BY <2>0, <2>2, <2>3, <2>4, <2>5
    <3> QED
      BY <2>2, <2>4, <2>5, <3>1
  <2>6. CASE u # t
    <3>1. i \in DOMAIN stream
      <4>1. i # Len(stream) + 1
        BY <2>0, <2>4, <2>6
      <4> QED
        BY <2>0, <2>2, <4>1
    <3>2. LastAbout(i, u)
      BY <2>2, <3>1 DEF LastAbout
    <3> QED
      BY <1>0, <2>1, <2>2, <2>6, <3>1, <3>2 DEF StreamCurrent
  <2> QED
    BY <2>5, <2>6
<1>3. CASE Connect
  <2>1. stream' = <<[type |-> "snapshot", data |-> source]>> /\ source' = source
    BY <1>3 DEF Connect, Open, consoleVars
  <2>2. DOMAIN stream' = {1} /\ stream'[1].data = source'
    BY <2>1
  <2> QED
    BY <2>2 DEF StreamCurrent, LastAbout
<1>4. CASE Disconnect \/ NoticeClose
  BY <1>4 DEF Disconnect, LoseLink, NoticeClose, SeeClose, StreamCurrent
<1>5. CASE OnSnapshot \/ OnChange
  <2>1. Take /\ UNCHANGED source
    BY <1>5 DEF OnSnapshot, OnChange
  <2>2. link' = link
    BY <2>1 DEF Take
  <2>3. /\ \A i \in DOMAIN stream' : i + 1 \in DOMAIN stream /\ stream'[i] = stream[i + 1]
        /\ \A i \in DOMAIN stream : i > 1 => i - 1 \in DOMAIN stream'
        /\ stream' \in Seq(Messages)
    BY <1>0, <2>1, TakeType DEF LiveTypeOK
  <2>4. DOMAIN stream' \subseteq Nat /\ DOMAIN stream \subseteq Nat
    BY <1>0, <2>3, LenProperties DEF LiveTypeOK
  <2> SUFFICES ASSUME link' = "open", NEW i \in DOMAIN stream', NEW u \in Tags,
                      LastAbout(i, u)'
               PROVE  stream'[i].data[u] = source'[u]
    BY DEF StreamCurrent
  <2>5. LastAbout(i + 1, u)
    <3>1. stream[i + 1].data[u] # Unknown
      BY <2>3 DEF LastAbout
    <3>2. ASSUME NEW j \in DOMAIN stream, j > i + 1
          PROVE  stream[j].data[u] = Unknown
      <4>1. j - 1 \in DOMAIN stream' /\ j - 1 > i /\ (j - 1) + 1 = j
        BY <2>3, <2>4, <3>2
      <4> QED
        BY <2>3, <4>1 DEF LastAbout
    <3> QED
      BY <3>1, <3>2 DEF LastAbout
  <2> QED
    BY <1>0, <2>1, <2>2, <2>3, <2>5 DEF StreamCurrent
<1>6. CASE ServeRest \/ RestArrives \/ RestFails \/ CommitPending \/ Pause \/ Resume
  BY <1>1, <1>6 DEF ServeRest, RestArrives, RestFails, CommitPending, Pause, Resume
<1> QED
  BY <1>1, <1>2, <1>3, <1>4, <1>5, <1>6 DEF Next, vars, consoleVars

-----------------------------------------------------------------------------
(* The console. *)

\* With the first message gone, a tag nothing is in flight about had that
\* message as the last about it, or nothing in flight before.
LEMMA LastTaken ==
    ASSUME LiveTypeOK, Take, NEW u \in Tags, NothingAbout(u)'
    PROVE  IF Head(stream).data[u] # Unknown THEN LastAbout(1, u) ELSE NothingAbout(u)
<1>1. /\ 1 \in DOMAIN stream /\ stream[1] = Head(stream)
      /\ \A i \in DOMAIN stream' : i + 1 \in DOMAIN stream /\ stream'[i] = stream[i + 1]
      /\ \A i \in DOMAIN stream : i > 1 => i - 1 \in DOMAIN stream'
  BY TakeType DEF LiveTypeOK
<1>2. DOMAIN stream = 1 .. Len(stream) /\ Len(stream) \in Nat
  BY LenProperties DEF LiveTypeOK
<1>3. ASSUME NEW j \in DOMAIN stream, j > 1
      PROVE  stream[j].data[u] = Unknown
  <2>1. j - 1 \in DOMAIN stream' /\ (j - 1) + 1 = j
    BY <1>1, <1>2, <1>3
  <2> QED
    BY <1>1, <2>1 DEF NothingAbout
<1> QED
  BY <1>1, <1>2, <1>3 DEF LastAbout, NothingAbout

\* What the console holds of a tag is not changed by showing it.
LEMMA FlushHolds ==
    ASSUME LiveTypeOK, Flush, NEW u \in Tags
    PROVE  Held(u)' = Held(u)
<1>1. values' = Merge(values, pending) /\ pending'[u] = Unknown
  BY DEF Flush, Empty
<1>2. values'[u] = IF pending[u] = Unknown THEN values[u] ELSE pending[u]
  BY <1>1 DEF Merge
<1> QED
  BY <1>1, <1>2 DEF Held

LEMMA FreshStep ==
    ASSUME LiveInv, [Next]_vars
    PROVE  FreshInStep' /\ (link # "open" => fresh = {})'
<1>0. LiveTypeOK /\ StreamCurrent /\ FreshInStep /\ (link # "open" => fresh = {})
  BY DEF LiveInv
<1>1. ASSUME UNCHANGED <<streamVars, source>>, fresh' \subseteq fresh,
             \A u \in fresh' : Held(u)' = Held(u)
      PROVE  FreshInStep' /\ (link # "open" => fresh = {})'
  BY <1>0, <1>1 DEF FreshInStep, NothingAbout, streamVars
<1>2. CASE UNCHANGED vars
  BY <1>1, <1>2 DEF vars, consoleVars, Held
<1>3. CASE \E t \in Tags, v \in Values : EngineChange(t, v)
  <2> PICK t \in Tags, v \in Values : EngineChange(t, v)
    BY <1>3
  <2>1. UNCHANGED <<link, values, pending, fresh>>
    BY DEF EngineChange, Broadcast
  <2> SUFFICES ASSUME link = "open", NEW u \in fresh, NothingAbout(u)'
               PROVE  Held(u)' = source'[u]
    BY <1>0, <2>1 DEF FreshInStep
  <2>2. /\ source' = [source EXCEPT ![t] = v] /\ source \in [Tags -> Values]
        /\ DOMAIN stream = 1 .. Len(stream) /\ Len(stream) \in Nat
        /\ DOMAIN stream' = 1 .. Len(stream) + 1
        /\ \A k \in DOMAIN stream : stream'[k] = stream[k]
        /\ stream'[Len(stream) + 1].data = [Empty EXCEPT ![t] = v]
    BY <1>0, ChangeAppended DEF LiveTypeOK
  <2>3. u \in Tags
    BY <1>0 DEF LiveTypeOK
  <2>4. u # t
    BY <2>2, UnknownAssumption DEF NothingAbout, Empty
  <2>5. NothingAbout(u)
    BY <2>2 DEF NothingAbout
  <2> QED
    BY <1>0, <2>1, <2>2, <2>3, <2>4, <2>5 DEF FreshInStep, Held
<1>4. CASE ServeRest \/ RestFails \/ Pause
  BY <1>1, <1>4 DEF ServeRest, RestFails, Pause, Held
<1>5. CASE RestArrives
  BY <1>1, <1>5 DEF RestArrives, Held
<1>6. CASE Connect
  BY <1>0, <1>6 DEF Connect, Open, consoleVars, FreshInStep
<1>7. CASE Disconnect
  BY <1>7 DEF Disconnect, LoseLink, FreshInStep
<1>8. CASE NoticeClose
  BY <1>0, <1>8 DEF NoticeClose, SeeClose, consoleVars, FreshInStep
<1>9. CASE OnSnapshot
  <2>1. Take /\ Head(stream).type = "snapshot" /\ link' = link /\ UNCHANGED <<source, pending>>
    BY <1>9 DEF OnSnapshot, Take
  <2>2. Head(stream).data \in [Tags -> Values]
    BY <1>0, <2>1, TakeType DEF LiveTypeOK, Messages
  <2>3. 1 \in DOMAIN stream /\ stream[1] = Head(stream)
    BY <1>0, <2>1, TakeType DEF LiveTypeOK
  <2>4. ASSUME link = "open", NEW u \in fresh', NothingAbout(u)'
        PROVE  Held(u)' = source'[u]
    <3>1. u \in Tags /\ pending[u] = Unknown /\ values'[u] = Head(stream).data[u]
      BY <1>9, <2>4 DEF OnSnapshot, Refreshed
    <3>2. Head(stream).data[u] # Unknown
      BY <2>2, <3>1, UnknownAssumption
    <3>3. LastAbout(1, u)
      BY <1>0, <2>1, <2>4, <3>1, <3>2, LastTaken
    <3>4. Head(stream).data[u] = source[u]
      BY <1>0, <2>3, <2>4, <3>1, <3>3 DEF StreamCurrent
    <3> QED
      BY <2>1, <3>1, <3>4 DEF Held
  <2> QED
    BY <1>9, <2>1, <2>4 DEF FreshInStep, OnSnapshot, Refreshed
<1>10. CASE OnChange
  <2>1. Take /\ link' = link /\ UNCHANGED <<source, values>>
    BY <1>10 DEF OnChange, Take
  <2>2. 1 \in DOMAIN stream /\ stream[1] = Head(stream)
    BY <1>0, <2>1, TakeType DEF LiveTypeOK
  <2>3. ASSUME link = "open", NEW u \in fresh', NothingAbout(u)'
        PROVE  Held(u)' = source'[u]
    <3>1. u \in Tags /\ (u \in fresh \/ Head(stream).data[u] # Unknown)
      BY <1>0, <1>10, <2>3 DEF OnChange, Refreshed, LiveTypeOK
    <3>2. pending'[u] = IF Head(stream).data[u] = Unknown THEN pending[u] ELSE Head(stream).data[u]
      BY <1>10, <3>1 DEF OnChange, Merge
    <3>3. IF Head(stream).data[u] # Unknown THEN LastAbout(1, u) ELSE NothingAbout(u)
      BY <1>0, <2>1, <2>3, <3>1, LastTaken
    <3>4. CASE Head(stream).data[u] # Unknown
      <4>1. Head(stream).data[u] = source[u]
        BY <1>0, <2>2, <2>3, <3>1, <3>3, <3>4 DEF StreamCurrent
      <4> QED
        BY <2>1, <3>2, <3>4, <4>1 DEF Held
    <3>5. CASE Head(stream).data[u] = Unknown
      <4>1. Held(u) = source[u]
        BY <1>0, <2>3, <3>1, <3>3, <3>5 DEF FreshInStep
      <4> QED
        BY <2>1, <3>2, <3>5, <4>1 DEF Held
    <3> QED
      BY <3>4, <3>5
  <2> QED
    BY <1>10, <2>1, <2>3 DEF FreshInStep, OnChange, Refreshed
<1>11. CASE CommitPending
  <2>1. UNCHANGED <<streamVars, source, fresh>>
    BY <1>11 DEF CommitPending
  <2>2. \A u \in fresh' : Held(u)' = Held(u)
    <3>1. CASE paused
      BY <1>11, <3>1 DEF CommitPending, Held
    <3>2. CASE ~ paused
      BY <1>0, <1>11, <2>1, <3>2, FlushHolds DEF CommitPending, LiveTypeOK
    <3> QED
      BY <3>1, <3>2
  <2> QED
    BY <1>1, <2>1, <2>2
<1>12. CASE Resume
  <2>1. UNCHANGED <<streamVars, source, fresh>> /\ Flush
    BY <1>12 DEF Resume
  <2>2. \A u \in fresh' : Held(u)' = Held(u)
    BY <1>0, <2>1, FlushHolds DEF LiveTypeOK
  <2> QED
    BY <1>1, <2>1, <2>2
<1> QED
  BY <1>2, <1>3, <1>4, <1>5, <1>6, <1>7, <1>8, <1>9, <1>10, <1>11, <1>12 DEF Next

\* Whoever leaves changes pending leaves a flush scheduled or the display paused.
LEMMA PendingStep ==
    ASSUME LiveInv, [Next]_vars
    PROVE  PendingWillShow'
<1>1. PendingWillShow
  BY DEF LiveInv
<1>2. CASE UNCHANGED vars
  BY <1>1, <1>2 DEF PendingWillShow, vars, consoleVars, Empty
<1>3. CASE \E t \in Tags, v \in Values : EngineChange(t, v)
  BY <1>1, <1>3 DEF PendingWillShow, EngineChange, Empty
<1>4. CASE ServeRest \/ RestArrives \/ RestFails
  BY <1>1, <1>4 DEF PendingWillShow, ServeRest, RestArrives, RestFails, Empty
<1>5. CASE Connect \/ Disconnect \/ NoticeClose
  BY <1>1, <1>5 DEF PendingWillShow, Connect, Disconnect, NoticeClose, consoleVars, Empty
<1>6. CASE OnSnapshot
  BY <1>1, <1>6 DEF PendingWillShow, OnSnapshot, Empty
<1>7. CASE OnChange
  BY <1>7 DEF PendingWillShow, OnChange
<1>8. CASE CommitPending
  BY <1>8 DEF PendingWillShow, CommitPending, Flush, Empty
<1>9. CASE Pause
  BY <1>9 DEF PendingWillShow, Pause
<1>10. CASE Resume
  BY <1>10 DEF PendingWillShow, Resume, Flush, Empty
<1> QED
  BY <1>2, <1>3, <1>4, <1>5, <1>6, <1>7, <1>8, <1>9, <1>10 DEF Next

-----------------------------------------------------------------------------
(* The theorems. *)

LEMMA LiveInvariance == Spec => []LiveInv
<1>1. LiveInv /\ [Next]_vars => LiveInv'
  <2> SUFFICES ASSUME LiveInv, [Next]_vars PROVE LiveInv'
    OBVIOUS
  <2>1. LiveTypeOK' /\ StreamCurrent' /\ PendingWillShow'
    BY LiveTypeStep, StreamStep, PendingStep
  <2>2. FreshInStep' /\ (link # "open" => fresh = {})'
    BY FreshStep
  <2> QED
    BY <2>1, <2>2 DEF LiveInv
<1> QED
  BY LiveInitInv, <1>1, PTL DEF Spec

\* The greeting of a connection and the changes after it reach the console
\* without a gap and in order (ws.ts:38-56).
THEOREM StreamAlwaysCurrent == Spec => []StreamCurrent
<1>1. LiveInv => StreamCurrent
  BY DEF LiveInv
<1> QED
  BY LiveInvariance, <1>1, PTL

\* What has reached the console in a connection is never lost to a pause, a
\* flush or a resume (live-values.tsx:51-111).
THEOREM FreshAlwaysInStep == Spec => []FreshInStep
<1>1. LiveInv => FreshInStep
  BY DEF LiveInv
<1> QED
  BY LiveInvariance, <1>1, PTL

\* No change is left behind with nothing to show it (live-values.tsx:58-77).
THEOREM PendingAlwaysShown == Spec => []PendingWillShow
<1>1. LiveInv => PendingWillShow
  BY DEF LiveInv
<1> QED
  BY LiveInvariance, <1>1, PTL

-----------------------------------------------------------------------------
(* WriteDialog: the write dialog. *)

\* What a tag can show, and the fields of a dialog.
TagValues == [value : Numbers, quality : {"good", "bad"}, timestamp : Int]
DialogFields == {"number", "phase", "wrote", "start", "timer"}

\* Types, as far as the proof needs them, without the bounds of the model.
DialogTypeOK ==
    /\ now \in Nat
    /\ device \in Numbers /\ writing \in Seq(Numbers) /\ reading \in Numbers \union {Absent}
    /\ \A r \in requests : DOMAIN r = {"number", "value", "state"} /\ r.value \in Numbers
    /\ tag \in TagValues /\ entry \in TagValues /\ feed \in Seq(TagValues)
    /\ DOMAIN dialog = DialogFields

\* A value that is shown as good was given to the tag at the time it says.
Recorded(v) == v.quality = "good" => [value |-> v.value, time |-> v.timestamp] \in reads

\* What a dialog wrote has landed since its start.
Landed(d) == \E r \in reads : r.value = d.wrote /\ r.time >= d.start

\* All values the console can still see are recorded, and success is an echo.
EchoInv ==
    /\ DialogTypeOK
    /\ Recorded(tag) /\ Recorded(entry)
    /\ \A k \in DOMAIN feed : Recorded(feed[k])
    /\ SuccessIsEcho

\* Before the first dialog nothing has been written.
LEMMA WriteInitInv == ASSUME ValueAssumption, WriteInit PROVE EchoInv
<1>1. DialogTypeOK
  BY EmptySeq DEF WriteInit, ValueAssumption, DialogTypeOK, TagValues, DialogFields
<1>2. DOMAIN feed = {}
  BY EmptySeq, LenProperties DEF WriteInit
<1> QED
  BY <1>1, <1>2 DEF WriteInit, EchoInv, Recorded, SuccessIsEcho

\* The dialog after a look at the value v that it shows: it reports success only of a
\* value that has landed.
LEMMA WatchedLanded ==
    ASSUME NEW d, DOMAIN d = DialogFields, NEW v, Recorded(v),
           d.phase = "confirmed" => Landed(d)
    PROVE  /\ DOMAIN Watched(d, v) = DialogFields
           /\ Watched(d, v).phase = "confirmed" => Landed(Watched(d, v))
<1>1. CASE d.phase # "waiting"
  BY <1>1 DEF Watched
<1>2. CASE d.phase = "waiting" /\ Echoed(d, v)
  <2>1. Watched(d, v) = [d EXCEPT !.phase = "confirmed"]
    BY <1>2 DEF Watched
  <2>2. /\ DOMAIN Watched(d, v) = DialogFields
        /\ Watched(d, v).wrote = d.wrote /\ Watched(d, v).start = d.start
    BY <2>1 DEF DialogFields
  <2>3. [value |-> v.value, time |-> v.timestamp] \in reads /\ v.timestamp >= d.start /\ v.value = d.wrote
    BY <1>2 DEF Echoed, Recorded
  <2>4. \E r \in reads : r.value = d.wrote /\ r.time >= d.start
    BY <2>3
  <2> QED
    BY <2>2, <2>4 DEF Landed
<1>3. CASE d.phase = "waiting" /\ ~ Echoed(d, v)
  <2>1. Watched(d, v) = [d EXCEPT !.timer = Timeout]
    BY <1>3 DEF Watched
  <2> QED
    BY <1>3, <2>1 DEF DialogFields
<1> QED
  BY <1>1, <1>2, <1>3

\* What is recorded stays so.
LEMMA StillRecorded ==
    ASSUME EchoInv, UNCHANGED <<tag, entry, feed>>, reads \subseteq reads'
    PROVE  /\ Recorded(tag)' /\ Recorded(entry)'
           /\ \A k \in DOMAIN feed' : Recorded(feed[k])'
BY DEF EchoInv, Recorded

\* A step that touches neither what is shown nor the clock, and confirms nothing.
LEMMA DialogStep ==
    ASSUME EchoInv, UNCHANGED <<now, device, writing, reading, tag, feed, entry, reads>>,
           DOMAIN dialog' = DialogFields, dialog'.phase = "confirmed" => dialog' = dialog,
           \A r \in requests' : DOMAIN r = {"number", "value", "state"} /\ r.value \in Numbers
    PROVE  EchoInv'
<1>1. DialogTypeOK'
  BY DEF EchoInv, DialogTypeOK
<1>2. SuccessIsEcho'
  BY DEF EchoInv, SuccessIsEcho, LandedSince
<1> QED
  BY <1>1, <1>2, StillRecorded DEF EchoInv

\* The console shows the value v.
LEMMA ShowStep ==
    ASSUME EchoInv, NEW v \in TagValues, Recorded(v), entry' = v, NEW d, DOMAIN d = DialogFields,
           d.phase = "confirmed" => Landed(d), dialog' = Watched(d, v),
           feed' \in Seq(TagValues), \A k \in DOMAIN feed' : \E j \in DOMAIN feed : feed'[k] = feed[j],
           requests' \subseteq requests,
           UNCHANGED <<now, device, writing, reading, tag, reads>>
    PROVE  EchoInv'
<1>1. /\ DOMAIN dialog' = DialogFields
      /\ dialog'.phase = "confirmed" => Landed(dialog')
  BY WatchedLanded
<1>2. DialogTypeOK'
  BY <1>1 DEF EchoInv, DialogTypeOK
<1>3. SuccessIsEcho'
  BY <1>1 DEF SuccessIsEcho, LandedSince, Landed
<1>4. \A w : Recorded(w) => Recorded(w)'
  BY DEF Recorded
<1>5. Recorded(tag)' /\ Recorded(entry)'
  BY DEF EchoInv, Recorded
<1>6. ASSUME NEW k \in DOMAIN feed' PROVE Recorded(feed[k])'
  <2>1. PICK j \in DOMAIN feed : feed'[k] = feed[j]
    OBVIOUS
  <2>2. Recorded(feed[j])
    BY DEF EchoInv
  <2> QED
    BY <2>1, <2>2 DEF Recorded
<1> QED
  BY <1>2, <1>3, <1>5, <1>6 DEF EchoInv

\* Every step of server, connection, dialog and clock keeps what is seen recorded.
LEMMA WriteNextInv ==
    ASSUME ValueAssumption, EchoInv, [WriteNext]_writeVars
    PROVE  EchoInv'
<1>0. /\ now \in Nat /\ DOMAIN dialog = DialogFields /\ DialogTypeOK
      /\ \A r \in requests : DOMAIN r = {"number", "value", "state"} /\ r.value \in Numbers
      /\ dialog.phase = "confirmed" => Landed(dialog)
  BY DEF EchoInv, DialogTypeOK, SuccessIsEcho, LandedSince, Landed
<1>1. CASE OpenDialog
  <2>1. DOMAIN dialog' = DialogFields /\ dialog'.phase = "edit"
    BY <1>0, <1>1 DEF OpenDialog, DialogFields
  <2> QED
    BY <1>0, <1>1, <2>1, DialogStep DEF OpenDialog
<1>2. CASE CloseDialog
  <2>1. DOMAIN dialog' = DialogFields /\ dialog'.phase = "closed"
    BY <1>0, <1>2 DEF CloseDialog, DialogFields
  <2> QED
    BY <1>0, <1>2, <2>1, DialogStep DEF CloseDialog
<1>3. ASSUME NEW v \in Typed, Confirm(v) PROVE EchoInv'
  <2>1. DOMAIN dialog' = DialogFields /\ dialog'.phase = "busy"
    <3>1. PICK skew \in Skews :
            dialog' = [dialog EXCEPT !.phase = "busy", !.wrote = v, !.start = now + skew]
      BY <1>3 DEF Confirm
    <3> QED
      BY <1>0, <3>1 DEF DialogFields
  <2>2. v \in Numbers
    BY DEF ValueAssumption
  <2>3. \A r \in requests' : DOMAIN r = {"number", "value", "state"} /\ r.value \in Numbers
    BY <1>0, <1>3, <2>2 DEF Confirm
  <2> QED
    BY <1>3, <2>1, <2>3, DialogStep DEF Confirm
<1>4. ASSUME NEW request \in requests, Answered(request) PROVE EchoInv'
  <2>1. requests' \subseteq requests
    BY <1>4 DEF Answered
  <2>2. CASE dialog' = dialog
    BY <1>0, <1>4, <2>1, <2>2, DialogStep DEF Answered
  <2>3. CASE dialog' # dialog
    <3> DEFINE d == [dialog EXCEPT !.phase = "waiting"]
    <3>1. dialog' = Watched(d, entry)
      BY <1>4, <2>3 DEF Answered
    <3>2. DOMAIN d = DialogFields /\ d.phase = "waiting"
      BY <1>0 DEF DialogFields
    <3>3. /\ entry \in TagValues /\ Recorded(entry)
          /\ feed' \in Seq(TagValues) /\ \A k \in DOMAIN feed' : \E j \in DOMAIN feed : feed'[k] = feed[j]
      BY <1>4 DEF Answered, EchoInv, DialogTypeOK
    <3> HIDE DEF d
    <3> QED
      BY <1>4, <2>1, <3>1, <3>2, <3>3, ShowStep DEF Answered
  <2> QED
    BY <2>2, <2>3
<1>5. ASSUME NEW request \in requests, Failed(request) PROVE EchoInv'
  <2>1. DOMAIN dialog' = DialogFields /\ (dialog'.phase = "confirmed" => dialog' = dialog)
    BY <1>0, <1>5 DEF Failed, DialogFields
  <2> QED
    BY <1>0, <1>5, <2>1, DialogStep DEF Failed
<1>6. CASE TimerFires
  <2>1. DOMAIN dialog' = DialogFields /\ dialog'.phase = "timeout"
    BY <1>0, <1>6 DEF TimerFires, DialogFields
  <2> QED
    BY <1>0, <1>6, <2>1, DialogStep DEF TimerFires
<1>7. CASE WriteTick
  <2>1. /\ now' \in Nat /\ DOMAIN dialog' = DialogFields /\ dialog'.phase = dialog.phase
        /\ dialog'.phase = "confirmed" => dialog' = dialog
        /\ UNCHANGED <<device, writing, reading, tag, reported, feed, entry, requests, other, reads>>
    BY <1>0, <1>7 DEF WriteTick, DialogFields
  <2>2. DialogTypeOK'
    BY <1>0, <2>1 DEF DialogTypeOK
  <2>3. SuccessIsEcho'
    BY <2>1 DEF EchoInv, SuccessIsEcho, LandedSince
  <2> QED
    BY <2>1, <2>2, <2>3, StillRecorded DEF EchoInv
<1>8. ASSUME UNCHANGED <<now, tag, feed, entry, dialog, reads>>,
             device' \in Numbers, writing' \in Seq(Numbers), reading' \in Numbers \union {Absent},
             \A r \in requests' : DOMAIN r = {"number", "value", "state"} /\ r.value \in Numbers
      PROVE  EchoInv'
  <2>1. DialogTypeOK' /\ SuccessIsEcho'
    BY <1>0, <1>8 DEF EchoInv, DialogTypeOK, SuccessIsEcho, LandedSince
  <2> QED
    BY <1>8, <2>1, StillRecorded DEF EchoInv
<1>9. ASSUME NEW request \in requests, ServeWrite(request) PROVE EchoInv'
  <2>1. request.value \in Numbers /\ writing' \in Seq(Numbers)
    BY <1>0, <1>9, AppendProperties DEF ServeWrite, DialogTypeOK
  <2>2. \A r \in requests' : DOMAIN r = {"number", "value", "state"} /\ r.value \in Numbers
    BY <1>0, <1>9 DEF ServeWrite
  <2> QED
    BY <1>0, <1>8, <1>9, <2>1, <2>2 DEF ServeWrite, DialogTypeOK
<1>10. CASE DeviceWritten \/ WriteLost
  <2>1. Head(writing) \in Numbers /\ writing' \in Seq(Numbers)
    <3>1. writing \in Seq(Numbers) /\ writing # <<>> /\ writing' = Tail(writing)
      BY <1>0, <1>10 DEF DeviceWritten, WriteLost, DialogTypeOK
    <3> QED
      BY <3>1, HeadTailProperties
  <2>2. device' \in Numbers
    BY <1>0, <1>10, <2>1 DEF DeviceWritten, WriteLost, DialogTypeOK, ValueAssumption
  <2> QED
    BY <1>0, <1>8, <1>10, <2>1, <2>2 DEF DeviceWritten, WriteLost, DialogTypeOK
<1>11. CASE Poll \/ \E v \in Numbers : DeviceChanges(v)
  BY <1>0, <1>8, <1>11 DEF Poll, DeviceChanges, DialogTypeOK
<1>12. ASSUME NEW v \in TagValues, NEW news \in BOOLEAN, Updated(v, news),
              v.timestamp = now, reading' = Absent
       PROVE  EchoInv'
  <2>1. /\ tag' = v /\ UNCHANGED <<now, device, writing, entry, dialog, requests, other>>
        /\ reads \subseteq reads' /\ (v.quality = "good" => [value |-> v.value, time |-> now] \in reads')
        /\ feed' = feed \/ feed' = Append(feed, v)
    BY <1>12 DEF Updated
  <2>2. /\ feed' \in Seq(TagValues)
        /\ \A k \in DOMAIN feed' : feed'[k] = v \/ (k \in DOMAIN feed /\ feed'[k] = feed[k])
    <3>1. feed \in Seq(TagValues) /\ DOMAIN feed = 1 .. Len(feed) /\ Len(feed) \in Nat
      BY <1>0, LenProperties DEF DialogTypeOK
    <3>2. CASE feed' = feed
      BY <3>1, <3>2
    <3>3. CASE feed' = Append(feed, v)
      <4>1. /\ feed' \in Seq(TagValues) /\ Len(feed') = Len(feed) + 1
            /\ \A k \in 1 .. Len(feed) : feed'[k] = feed[k]
            /\ feed'[Len(feed) + 1] = v
        BY <3>1, <3>3, AppendProperties
      <4>2. DOMAIN feed' = 1 .. Len(feed) + 1
        BY <4>1, LenProperties
      <4> QED
        BY <3>1, <4>1, <4>2
    <3> QED
      BY <2>1, <3>2, <3>3
  <2>3. DialogTypeOK'
    BY <1>0, <1>12, <2>1, <2>2 DEF DialogTypeOK
  <2>4. SuccessIsEcho'
    BY <2>1 DEF EchoInv, SuccessIsEcho, LandedSince
  <2>5. Recorded(tag)' /\ Recorded(entry)' /\ \A w : w = v => Recorded(w)'
    BY <1>12, <2>1 DEF EchoInv, Recorded
  <2>6. ASSUME NEW k \in DOMAIN feed' PROVE Recorded(feed[k])'
    <3>1. CASE feed'[k] = v
      BY <2>5, <3>1
    <3>2. CASE k \in DOMAIN feed /\ feed'[k] = feed[k]
      BY <2>1, <3>2 DEF EchoInv, Recorded
    <3> QED
      BY <2>2, <3>1, <3>2
  <2> QED
    BY <2>3, <2>4, <2>5, <2>6 DEF EchoInv
<1>13. CASE ReadDone
  <2>1. reading \in Numbers
    BY <1>0, <1>13 DEF ReadDone, DialogTypeOK
  <2> DEFINE v == [value |-> reading, quality |-> "good", timestamp |-> now]
             news == reported.quality # "good" \/ Distance(reading, reported.value) > Deadband
  <2>2. v \in TagValues /\ v.timestamp = now /\ news \in BOOLEAN
    BY <1>0, <2>1 DEF TagValues
  <2>3. Updated(v, news) /\ reading' = Absent
    BY <1>13 DEF ReadDone
  <2> QED
    BY <1>12, <2>2, <2>3
<1>14. CASE ReadFails
  <2>1. CASE tag.quality = "bad"
    <3>1. UNCHANGED <<now, device, writing, tag, feed, entry, dialog, requests, reads>> /\ reading' = Absent
      BY <1>14, <2>1 DEF ReadFails
    <3> QED
      BY <1>0, <1>8, <3>1 DEF DialogTypeOK
  <2>2. CASE tag.quality # "bad"
    <3> DEFINE v == [tag EXCEPT !.quality = "bad", !.timestamp = now]
               w == [tag EXCEPT !.quality = "bad"]
    <3>0. w \in TagValues
      BY <1>0 DEF TagValues, DialogTypeOK
    <3>1. v \in TagValues /\ v.timestamp = now
      <4>1. v = [w EXCEPT !.timestamp = now] /\ now \in Int
        BY <1>0
      <4> HIDE DEF v, w
      <4> QED
        BY <3>0, <4>1 DEF TagValues
    <3>2. Updated(v, TRUE) /\ reading' = Absent
      BY <1>14, <2>2 DEF ReadFails
    <3> QED
      BY <1>12, <3>1, <3>2
  <2> QED
    BY <2>1, <2>2
<1>15. ASSUME NEW i \in Nat, NEW n \in Nat, n <= Len(feed), i <= n
       PROVE  /\ SubSeq(feed, i + 1, n) \in Seq(TagValues)
              /\ \A k \in DOMAIN SubSeq(feed, i + 1, n) :
                    \E j \in DOMAIN feed : SubSeq(feed, i + 1, n)[k] = feed[j]
  <2>1. feed \in Seq(TagValues) /\ DOMAIN feed = 1 .. Len(feed) /\ Len(feed) \in Nat
    BY <1>0, LenProperties DEF DialogTypeOK
  <2>2. \A j \in i + 1 .. n : feed[j] \in TagValues
    BY <1>15, <2>1, ElementOfSeq
  <2>3. /\ SubSeq(feed, i + 1, n) \in Seq(TagValues)
        /\ Len(SubSeq(feed, i + 1, n)) = n - i
        /\ \A k \in 1 .. n - i : SubSeq(feed, i + 1, n)[k] = feed[k + i]
    BY <1>15, <2>2, SubSeqProperties
  <2>4. DOMAIN SubSeq(feed, i + 1, n) = 1 .. n - i
    BY <2>3, LenProperties
  <2>5. \A k \in 1 .. n - i : k + i \in DOMAIN feed
    BY <1>15, <2>1
  <2> QED
    BY <2>3, <2>4, <2>5
<1>16. Len(feed) \in Nat /\ DOMAIN feed = 1 .. Len(feed) /\ \A k \in DOMAIN feed : feed[k] \in TagValues
  BY <1>0, LenProperties, ElementOfSeq DEF DialogTypeOK
<1>17. ASSUME NEW k \in DOMAIN feed, ShowFeed(k) PROVE EchoInv'
  <2>1. feed[k] \in TagValues /\ Recorded(feed[k]) /\ k \in Nat /\ k <= Len(feed)
    BY <1>16 DEF EchoInv
  <2>2. /\ entry' = feed[k] /\ dialog' = Watched(dialog, feed[k])
        /\ feed' = SubSeq(feed, k + 1, Len(feed)) /\ requests' \subseteq requests
        /\ UNCHANGED <<now, device, writing, reading, tag, reads>>
    BY <1>17 DEF ShowFeed
  <2>3. /\ feed' \in Seq(TagValues)
        /\ \A i \in DOMAIN feed' : \E j \in DOMAIN feed : feed'[i] = feed[j]
    <3>1. Len(feed) \in Nat /\ Len(feed) <= Len(feed)
      BY <1>16
    <3>2. /\ SubSeq(feed, k + 1, Len(feed)) \in Seq(TagValues)
          /\ \A i \in DOMAIN SubSeq(feed, k + 1, Len(feed)) :
                \E j \in DOMAIN feed : SubSeq(feed, k + 1, Len(feed))[i] = feed[j]
      BY <1>15, <2>1, <3>1
    <3> QED
      BY <2>2, <3>2
  <2> QED
    BY <1>0, <2>1, <2>2, <2>3, ShowStep
<1>18. ASSUME NEW k \in 0 .. Len(feed), Snapshot(k) PROVE EchoInv'
  <2>1. /\ entry' = tag /\ dialog' = Watched(dialog, tag)
        /\ feed' = SubSeq(feed, 0 + 1, k) /\ requests' \subseteq requests
        /\ UNCHANGED <<now, device, writing, reading, tag, reads>>
    BY <1>18 DEF Snapshot
  <2>2. /\ feed' \in Seq(TagValues)
        /\ \A i \in DOMAIN feed' : \E j \in DOMAIN feed : feed'[i] = feed[j]
    <3>1. 0 \in Nat /\ k \in Nat /\ k <= Len(feed) /\ 0 <= k
      BY <1>16
    <3>2. /\ SubSeq(feed, 0 + 1, k) \in Seq(TagValues)
          /\ \A i \in DOMAIN SubSeq(feed, 0 + 1, k) :
                \E j \in DOMAIN feed : SubSeq(feed, 0 + 1, k)[i] = feed[j]
      BY <1>15, <3>1
    <3> QED
      BY <2>1, <3>2
  <2>3. tag \in TagValues /\ Recorded(tag)
    BY DEF EchoInv, DialogTypeOK
  <2> QED
    BY <1>0, <2>1, <2>2, <2>3, ShowStep
<1>19. CASE OtherTag
  <2>1. /\ entry' = entry /\ dialog' = Watched(dialog, entry) /\ feed' = feed /\ requests' \subseteq requests
        /\ UNCHANGED <<now, device, writing, reading, tag, reads>>
    BY <1>19 DEF OtherTag
  <2>2. /\ entry \in TagValues /\ Recorded(entry) /\ feed' \in Seq(TagValues)
        /\ \A i \in DOMAIN feed' : \E j \in DOMAIN feed : feed'[i] = feed[j]
    BY <2>1 DEF EchoInv, DialogTypeOK
  <2> QED
    BY <1>0, <2>1, <2>2, ShowStep
<1>20. CASE UNCHANGED writeVars
  BY <1>0, <1>20, DialogStep DEF writeVars
<1> QED
  BY <1>1, <1>2, <1>3, <1>4, <1>5, <1>6, <1>7, <1>9, <1>10, <1>11, <1>13, <1>14, <1>17, <1>18, <1>19, <1>20
     DEF WriteNext

\* The dialog reports success only of a value that was given to the tag, with good quality,
\* since the time the console's clock showed at the write's start: a delayed event, a
\* snapshot or another tag's change of an earlier time is never taken for it.  The clocks
\* may differ by any amount and in either direction; where the console's is behind, that
\* time is before the write, and what the tag was given in between counts.
THEOREM SuccessNeverStale == WriteSpec => []SuccessIsEcho
<1>1. EchoInv /\ [WriteNext]_writeVars => EchoInv'
  BY WriteNextInv, ValueAssumption
<1>2. WriteInit => EchoInv
  BY WriteInitInv, ValueAssumption
<1>3. EchoInv => SuccessIsEcho
  BY DEF EchoInv
<1> QED
  BY <1>1, <1>2, <1>3, PTL DEF WriteSpec

-----------------------------------------------------------------------------
(* Least and greatest elements of sets of natural numbers. *)

\* The order of the natural numbers, as a set of pairs.
Below == {p \in Nat \X Nat : p[1] < p[2]}

\* There is no infinite descent in it.
LEMMA BelowIsWellFounded == IsWellFoundedOn(Below, Nat)
BY NatLessThanWellFounded, Zenon DEF OpToRel, Below

\* A set of natural numbers has a least element.
LEMMA LeastNatural ==
    ASSUME NEW T \in SUBSET Nat, T # {}
    PROVE  \E n \in T : \A m \in T : n <= m
<1>1. PICK n \in T : \A m \in T : ~ (<<m, n>> \in Below)
  BY BelowIsWellFounded, WFMin
<1>2. \A m \in T : n <= m
  <2> TAKE m \in T
  <2>1. ~ (<<m, n>> \in Below)
    BY <1>1
  <2>2. m \in Nat /\ n \in Nat
    OBVIOUS
  <2>3. m < n => <<m, n>> \in Below
    BY <2>2 DEF Below
  <2> QED
    BY <2>1, <2>2, <2>3
<1> QED
  BY <1>2

\* One that is bounded has a greatest.
LEMMA GreatestNatural ==
    ASSUME NEW n \in Nat, NEW T \in SUBSET (1 .. n), T # {}
    PROVE  Max(T) \in T /\ \A m \in T : m <= Max(T)
<1> DEFINE D == {n - m : m \in T}
<1>1. D \in SUBSET Nat /\ D # {}
  <2>1. \A m \in T : n - m \in Nat
    OBVIOUS
  <2> QED
    BY <2>1
<1>2. PICK d \in D : \A e \in D : d <= e
  BY <1>1, LeastNatural
<1>3. PICK g \in T : d = n - g
  OBVIOUS
<1>4. \A m \in T : g >= m
  <2> TAKE m \in T
  <2>1. n - m \in D
    OBVIOUS
  <2>2. n - g <= n - m
    BY <1>2, <1>3, <2>1
  <2> QED
    BY <2>2
<1>5. Max(T) \in T /\ \A m \in T : Max(T) >= m
  BY <1>4 DEF Max
<1> QED
  BY <1>5

-----------------------------------------------------------------------------
(* ServerLog: the lines about the quality of tags. *)

\* What the lines of a burst are collected by.
Keys == Devices \X Qualities \X (Errors \union {NoEntry})

\* One line in the making.
Entries == [key : Keys, quality : Qualities, tags : Seq(LoggedTags)]

\* Entry k is about tag t.
Listed(k, t) == t \in ToSet(qualityBurst[k].tags)

\* Types of the collected lines and of what they are about.
BurstTypeOK ==
    /\ saved \in [LoggedTags -> Devices \union {NoEntry}]
    /\ quality \in [LoggedTags -> Qualities \union {NoEntry}]
    /\ told \in [LoggedTags -> Qualities \union {NoEntry}]
    /\ qualityBurst \in Seq(Entries)

\* What a tag's entries, or the lines about it, tell.
ToldOf(t) ==
    IF InBurst(t) THEN \A k \in DOMAIN qualityBurst : Listed(k, t) => qualityBurst[k].quality = quality[t]
    ELSE told[t] = quality[t] \/ (told[t] = NoEntry /\ quality[t] = "good")

\* What is logged last is what was last told or will be: the entry a tag is listed in has the
\* quality the tag has.
BurstInv ==
    /\ BurstTypeOK
    /\ lastLoggedQuality = quality
    /\ \A t \in LoggedTags : saved[t] = NoEntry => quality[t] = NoEntry
    /\ \A k \in DOMAIN qualityBurst : qualityBurst[k].key[2] = qualityBurst[k].quality
    /\ \A t \in LoggedTags : t \notin flapping => ToldOf(t)

\* Nothing is collected at first.
LEMMA BurstInitInv == ASSUME BurstInit PROVE BurstInv
<1>1. qualityBurst \in Seq(Entries) /\ DOMAIN qualityBurst = {}
  BY EmptySeq, LenProperties DEF BurstInit
<1> QED
  BY <1>1 DEF BurstInit, BurstInv, BurstTypeOK, ToldOf, InBurst

\* A tag that is collected is listed in an entry of its new quality, and the others are
\* listed where they were.
LEMMA CollectedLists ==
    ASSUME BurstInv, NEW t \in LoggedTags, NEW q \in Qualities, NEW e \in Errors \union {NoEntry},
           saved[t] # NoEntry, qualityBurst' = Collected(t, q, e)
    PROVE  /\ qualityBurst' \in Seq(Entries)
           /\ \A k \in DOMAIN qualityBurst' : qualityBurst'[k].key[2] = qualityBurst'[k].quality
           /\ \E k \in DOMAIN qualityBurst' : Listed(k, t)'
           /\ DOMAIN qualityBurst \subseteq DOMAIN qualityBurst'
           /\ \A u \in LoggedTags \ {t}, k \in DOMAIN qualityBurst' :
                 Listed(k, u)' <=> (k \in DOMAIN qualityBurst /\ Listed(k, u))
           /\ \A k \in DOMAIN qualityBurst : qualityBurst'[k].quality = qualityBurst[k].quality
           /\ \A k \in DOMAIN qualityBurst' :
                 Listed(k, t)' => \/ k \in DOMAIN qualityBurst /\ Listed(k, t)
                                  \/ qualityBurst'[k].quality = q
<1> DEFINE key == <<saved[t], q, e>>
<1>1. key \in Keys /\ key[2] = q
  BY DEF BurstInv, BurstTypeOK, Keys
<1>2. /\ Len(qualityBurst) \in Nat /\ DOMAIN qualityBurst = 1 .. Len(qualityBurst)
      /\ \A k \in DOMAIN qualityBurst : qualityBurst[k] \in Entries
  BY LenProperties, ElementOfSeq DEF BurstInv, BurstTypeOK
<1>3. \A s \in Seq(LoggedTags) : /\ Append(s, t) \in Seq(LoggedTags)
                                 /\ ToSet(Append(s, t)) = ToSet(s) \union {t}
  <2> TAKE s \in Seq(LoggedTags)
  <2>1. /\ Append(s, t) \in Seq(LoggedTags) /\ Len(s) \in Nat
        /\ DOMAIN s = 1 .. Len(s) /\ DOMAIN Append(s, t) = 1 .. Len(s) + 1
        /\ \A i \in 1 .. Len(s) : Append(s, t)[i] = s[i]
        /\ Append(s, t)[Len(s) + 1] = t
    BY AppendProperties, LenProperties
  <2> QED
    BY <2>1 DEF ToSet
<1>4. CASE \E k \in DOMAIN qualityBurst : qualityBurst[k].key = key
  <2>1. qualityBurst' = [k \in DOMAIN qualityBurst |->
            IF qualityBurst[k].key = key
            THEN [qualityBurst[k] EXCEPT !.tags = Append(@, t)] ELSE qualityBurst[k]]
    BY <1>4 DEF Collected
  <2>2. DOMAIN qualityBurst' = DOMAIN qualityBurst
    BY <2>1
  <2>3. ASSUME NEW k \in DOMAIN qualityBurst
        PROVE  /\ qualityBurst'[k] \in Entries
               /\ qualityBurst'[k].key = qualityBurst[k].key
               /\ qualityBurst'[k].quality = qualityBurst[k].quality
               /\ ToSet(qualityBurst'[k].tags) =
                    IF qualityBurst[k].key = key THEN ToSet(qualityBurst[k].tags) \union {t}
                    ELSE ToSet(qualityBurst[k].tags)
    BY <1>2, <1>3, <2>1 DEF Entries
  <2>4. qualityBurst' \in Seq(Entries)
    <3>1. qualityBurst' \in [1 .. Len(qualityBurst) -> Entries]
      BY <1>2, <2>1, <2>3
    <3> QED
      BY <1>2, <3>1, SeqDef
  <2>5. \A k \in DOMAIN qualityBurst : qualityBurst'[k].key[2] = qualityBurst'[k].quality
    BY <2>3 DEF BurstInv
  <2>6. PICK k \in DOMAIN qualityBurst : qualityBurst[k].key = key
    BY <1>4
  <2>7. Listed(k, t)'
    BY <2>3, <2>6 DEF Listed
  <2>8. \A j \in DOMAIN qualityBurst : qualityBurst[j].key = key => qualityBurst'[j].quality = q
    BY <1>1, <2>3 DEF BurstInv
  <2> QED
    BY <2>2, <2>3, <2>4, <2>5, <2>7, <2>8 DEF Listed
<1>5. CASE ~ \E k \in DOMAIN qualityBurst : qualityBurst[k].key = key
  <2> DEFINE new == [key |-> key, quality |-> q, tags |-> <<t>>]
  <2>1. qualityBurst' = Append(qualityBurst, new)
    BY <1>5 DEF Collected
  <2>2. <<t>> \in Seq(LoggedTags) /\ ToSet(<<t>>) = {t}
    BY DEF ToSet
  <2>3. new \in Entries
    BY <1>1, <2>2 DEF Entries
  <2>4. /\ qualityBurst' \in Seq(Entries)
        /\ DOMAIN qualityBurst' = 1 .. Len(qualityBurst) + 1
        /\ \A k \in 1 .. Len(qualityBurst) : qualityBurst'[k] = qualityBurst[k]
        /\ qualityBurst'[Len(qualityBurst) + 1] = new
    <3> HIDE DEF new
    <3> QED
      BY <2>1, <2>3, AppendProperties, LenProperties DEF BurstInv, BurstTypeOK
  <2>5. \A k \in DOMAIN qualityBurst' : qualityBurst'[k].key[2] = qualityBurst'[k].quality
    BY <1>1, <1>2, <2>4 DEF BurstInv
  <2>6. ToSet(qualityBurst'[Len(qualityBurst) + 1].tags) = {t}
        /\ qualityBurst'[Len(qualityBurst) + 1].quality = q
    BY <2>2, <2>4
  <2> QED
    BY <1>2, <2>4, <2>5, <2>6 DEF Listed
<1> QED
  BY <1>4, <1>5

\* What tags are told of stays right when the entries and what is known of them do.
LEMMA StillTold ==
    ASSUME BurstInv, UNCHANGED <<qualityBurst, told>>, NEW t \in LoggedTags,
           t \notin flapping, quality'[t] = quality[t]
    PROVE  ToldOf(t)'
BY DEF BurstInv, ToldOf, InBurst, Listed

LEMMA ChangeInv ==
    ASSUME QualityAssumption, BurstInv, NEW t \in LoggedTags, NEW q \in Qualities,
           NEW e \in Errors \union {NoEntry}, Change(t, q, e)
    PROVE  BurstInv'
<1>1. /\ saved[t] # NoEntry /\ saved' = saved /\ told' = told
      /\ quality' = [quality EXCEPT ![t] = q]
      /\ lastLoggedQuality' = [lastLoggedQuality EXCEPT ![t] = q]
  BY DEF Change
<1>2. /\ lastLoggedQuality' = quality' /\ quality' \in [LoggedTags -> Qualities \union {NoEntry}]
      /\ \A u \in LoggedTags : saved'[u] = NoEntry => quality'[u] = NoEntry
  BY <1>1 DEF BurstInv, BurstTypeOK
<1>3. CASE Transition(t, q)
  <2>1. /\ qualityBurst' = Collected(t, q, e)
        /\ flapping' = IF InBurst(t) THEN flapping \union {t} ELSE flapping \ {t}
    BY <1>3 DEF Change
  <2>2. /\ qualityBurst' \in Seq(Entries)
        /\ \A k \in DOMAIN qualityBurst' : qualityBurst'[k].key[2] = qualityBurst'[k].quality
        /\ \E k \in DOMAIN qualityBurst' : Listed(k, t)'
        /\ DOMAIN qualityBurst \subseteq DOMAIN qualityBurst'
        /\ \A u \in LoggedTags \ {t}, k \in DOMAIN qualityBurst' :
              Listed(k, u)' <=> (k \in DOMAIN qualityBurst /\ Listed(k, u))
        /\ \A k \in DOMAIN qualityBurst : qualityBurst'[k].quality = qualityBurst[k].quality
        /\ \A k \in DOMAIN qualityBurst' :
              Listed(k, t)' => \/ k \in DOMAIN qualityBurst /\ Listed(k, t)
                               \/ qualityBurst'[k].quality = q
    BY <1>1, <2>1, CollectedLists
  <2>3. ASSUME NEW u \in LoggedTags \ {t}, u \notin flapping' PROVE ToldOf(u)'
    <3>1. u \notin flapping /\ ToldOf(u) /\ quality'[u] = quality[u]
      BY <1>1, <2>1, <2>3 DEF BurstInv, BurstTypeOK
    <3>2. InBurst(u)' <=> InBurst(u)
      BY <2>2 DEF InBurst, Listed
    <3> QED
      BY <1>1, <2>2, <3>1, <3>2 DEF ToldOf
  <2>4. t \notin flapping' => ToldOf(t)'
    <3>1. SUFFICES ASSUME t \notin flapping' PROVE ToldOf(t)'
      OBVIOUS
    <3>2. ~ InBurst(t)
      BY <2>1, <3>1
    <3>3. \A k \in DOMAIN qualityBurst' : Listed(k, t)' => qualityBurst'[k].quality = q
      BY <2>2, <3>2 DEF InBurst, Listed
    <3>4. InBurst(t)' /\ quality'[t] = q
      BY <1>1, <2>2 DEF InBurst, Listed, BurstInv, BurstTypeOK
    <3> QED
      BY <3>3, <3>4 DEF ToldOf
  <2> QED
    BY <1>1, <1>2, <2>2, <2>3, <2>4 DEF BurstInv, BurstTypeOK
<1>4. CASE ~ Transition(t, q)
  <2>1. UNCHANGED <<qualityBurst, flapping>>
    BY <1>4 DEF Change
  <2>2. ASSUME NEW u \in LoggedTags, u \notin flapping PROVE ToldOf(u)'
    <3>1. CASE quality'[u] = quality[u]
      BY <1>1, <2>1, <2>2, <3>1, StillTold
    <3>2. CASE quality'[u] # quality[u]
      <4>1. u = t /\ q = "good" /\ quality[t] = NoEntry /\ quality'[t] = "good"
        BY <1>1, <1>4, <3>2 DEF Transition, BurstInv, BurstTypeOK
      <4>2. ToldOf(t)
        BY <2>2, <4>1 DEF BurstInv
      <4>3. ~ InBurst(t)
        <5>1. SUFFICES ASSUME InBurst(t) PROVE FALSE
          OBVIOUS
        <5>2. PICK k \in DOMAIN qualityBurst : Listed(k, t)
          BY <5>1 DEF InBurst, Listed
        <5>3. qualityBurst[k].quality = NoEntry /\ qualityBurst[k] \in Entries
          BY <4>1, <4>2, <5>1, <5>2, ElementOfSeq, LenProperties DEF ToldOf, BurstInv, BurstTypeOK
        <5> QED
          BY <5>3 DEF Entries, QualityAssumption
      <4>4. told'[t] = NoEntry /\ ~ InBurst(t)'
        BY <1>1, <2>1, <4>1, <4>2, <4>3 DEF ToldOf, InBurst, QualityAssumption
      <4> QED
        BY <4>1, <4>4 DEF ToldOf
    <3> QED
      BY <3>1, <3>2
  <2> QED
    BY <1>1, <1>2, <2>1, <2>2 DEF BurstInv, BurstTypeOK
<1> QED
  BY <1>3, <1>4

LEMMA EditInv ==
    ASSUME BurstInv, NEW t \in LoggedTags, NEW d \in Devices \union {NoEntry}, Edit(t, d)
    PROVE  BurstInv'
<1>1. /\ saved' = [saved EXCEPT ![t] = d] /\ saved[t] # d
      /\ lastLoggedQuality' = [u \in LoggedTags |-> IF saved'[u] = NoEntry THEN NoEntry ELSE lastLoggedQuality[u]]
      /\ UNCHANGED <<qualityBurst, window>>
  BY DEF Edit, Pruned
<1>2. CASE NoEntry \in {saved[t], d}
  <2>1. /\ quality' = [quality EXCEPT ![t] = NoEntry] /\ told' = [told EXCEPT ![t] = NoEntry]
        /\ flapping' = IF InBurst(t) THEN flapping \union {t} ELSE flapping \ {t}
    BY <1>2 DEF Edit
  <2>2. quality' \in [LoggedTags -> Qualities \union {NoEntry}] /\ told' \in [LoggedTags -> Qualities \union {NoEntry}]
    BY <2>1 DEF BurstInv, BurstTypeOK
  <2>3. lastLoggedQuality' = quality'
    BY <1>1, <1>2, <2>1, <2>2 DEF BurstInv, BurstTypeOK
  <2>4. \A u \in LoggedTags : saved'[u] = NoEntry => quality'[u] = NoEntry
    BY <1>1, <1>2, <2>1 DEF BurstInv, BurstTypeOK
  <2>5. ASSUME NEW u \in LoggedTags, u \notin flapping' PROVE ToldOf(u)'
    <3>1. CASE u = t
      BY <1>1, <2>1, <2>5, <3>1 DEF ToldOf, InBurst, BurstInv, BurstTypeOK
    <3>2. CASE u # t
      <4>1. u \notin flapping /\ quality'[u] = quality[u] /\ told'[u] = told[u] /\ ToldOf(u)
        BY <2>1, <2>5, <3>2 DEF BurstInv, BurstTypeOK
      <4> QED
        BY <1>1, <4>1 DEF ToldOf, InBurst, Listed
    <3> QED
      BY <3>1, <3>2
  <2> QED
    BY <1>1, <2>2, <2>3, <2>4, <2>5 DEF BurstInv, BurstTypeOK
<1>3. CASE NoEntry \notin {saved[t], d}
  <2>1. UNCHANGED <<quality, told, flapping>>
    BY <1>3 DEF Edit
  <2>2. \A u \in LoggedTags : saved'[u] = NoEntry <=> saved[u] = NoEntry
    BY <1>1, <1>3 DEF BurstInv, BurstTypeOK
  <2>3. lastLoggedQuality' = quality'
    BY <1>1, <2>1, <2>2 DEF BurstInv, BurstTypeOK
  <2>4. \A u \in LoggedTags : u \notin flapping' => ToldOf(u)'
    BY <1>1, <2>1, StillTold
  <2> QED
    BY <1>1, <2>1, <2>2, <2>3, <2>4 DEF BurstInv, BurstTypeOK
<1> QED
  BY <1>2, <1>3

LEMMA FlushInv ==
    ASSUME BurstInv, FlushQualityBurst
    PROVE  BurstInv'
<1>1. /\ qualityBurst' = <<>>
      /\ told' = [t \in LoggedTags |->
            IF InBurst(t) THEN qualityBurst[SelectLastInSeq(qualityBurst, LAMBDA b : t \in ToSet(b.tags))].quality
            ELSE told[t]]
      /\ UNCHANGED <<saved, quality, lastLoggedQuality, flapping>>
  BY DEF FlushQualityBurst
<1>2. /\ Len(qualityBurst) \in Nat /\ DOMAIN qualityBurst = 1 .. Len(qualityBurst)
      /\ \A k \in DOMAIN qualityBurst : qualityBurst[k] \in Entries
  BY LenProperties, ElementOfSeq DEF BurstInv, BurstTypeOK
<1>3. ASSUME NEW t \in LoggedTags, InBurst(t)
      PROVE  \E k \in DOMAIN qualityBurst : Listed(k, t) /\ told'[t] = qualityBurst[k].quality
  <2> DEFINE I == {i \in 1 .. Len(qualityBurst) : t \in ToSet(qualityBurst[i].tags)}
  <2>1. I \in SUBSET (1 .. Len(qualityBurst)) /\ I # {}
    BY <1>2, <1>3 DEF InBurst
  <2>2. Max(I) \in I
    BY <1>2, <2>1, GreatestNatural
  <2>3. SelectLastInSeq(qualityBurst, LAMBDA b : t \in ToSet(b.tags)) = Max(I)
    BY <2>1 DEF SelectLastInSeq
  <2>4. told'[t] = qualityBurst[Max(I)].quality
    BY <1>1, <1>3, <2>3
  <2> QED
    BY <1>2, <2>2, <2>4 DEF Listed
<1>4. \A t \in LoggedTags : ~ InBurst(t) => told'[t] = told[t]
  BY <1>1
<1>5. told' \in [LoggedTags -> Qualities \union {NoEntry}]
  <2>1. \A t \in LoggedTags : told'[t] \in Qualities \union {NoEntry}
    BY <1>2, <1>3, <1>4 DEF Entries, BurstInv, BurstTypeOK
  <2> QED
    BY <1>1, <2>1
<1>6. qualityBurst' \in Seq(Entries) /\ DOMAIN qualityBurst' = {}
  BY <1>1, EmptySeq, LenProperties
<1>7. \A t \in LoggedTags : t \notin flapping' => ToldOf(t)'
  BY <1>1, <1>3, <1>4, <1>6 DEF BurstInv, ToldOf, InBurst
<1> QED
  BY <1>1, <1>5, <1>6, <1>7 DEF BurstInv, BurstTypeOK

\* Once a burst is written, the last line about a tag tells its quality, for any number of
\* tags, devices and errors and however changes, moves, deletions and flushes interleave.
THEOREM LogTellsQuality == BurstSpec => []LastLineTells
<1>1. BurstInit => BurstInv
  BY BurstInitInv
<1>2. BurstInv /\ [BurstNext]_burstVars => BurstInv'
  <2> SUFFICES ASSUME BurstInv, [BurstNext]_burstVars PROVE BurstInv'
    OBVIOUS
  <2>1. CASE BurstTick \/ UNCHANGED burstVars
    <3>1. UNCHANGED <<saved, quality, lastLoggedQuality, qualityBurst, told, flapping>>
      BY <2>1 DEF BurstTick, burstVars
    <3>2. \A t \in LoggedTags : t \notin flapping' => ToldOf(t)'
      BY <3>1, StillTold
    <3> QED
      BY <3>1, <3>2 DEF BurstInv, BurstTypeOK
  <2> QED
    BY <2>1, ChangeInv, EditInv, FlushInv, QualityAssumption DEF BurstNext
<1>3. BurstInv => LastLineTells
  <2> SUFFICES ASSUME BurstInv, qualityBurst = <<>> PROVE LastLineTells
    BY DEF LastLineTells
  <2>1. \A t \in LoggedTags : ~ InBurst(t)
    BY EmptySeq, LenProperties DEF InBurst, BurstInv, BurstTypeOK
  <2> QED
    BY <2>1 DEF BurstInv, ToldOf, LastLineTells
<1> QED
  BY <1>1, <1>2, <1>3, PTL DEF BurstSpec

-----------------------------------------------------------------------------
(* EventStream: what the operators on lists of events do. *)

\* How many of the places of a list up to i are kept, and that it grows by at most one
\* from place to place.
LEMMA KeptCounts ==
    ASSUME NEW n \in Nat, NEW kept \in SUBSET (1 .. n)
    PROVE  /\ Cardinality(kept) \in Nat
           /\ kept \intersect 1 .. n = kept
           /\ \A i \in 0 .. n : Cardinality(kept \intersect 1 .. i) \in 0 .. Cardinality(kept)
           /\ Cardinality(kept \intersect 1 .. 0) = 0
           /\ \A i, j \in 0 .. n : i <= j =>
                 /\ Cardinality(kept \intersect 1 .. i) <= Cardinality(kept \intersect 1 .. j)
                 /\ Cardinality(kept \intersect 1 .. j) - Cardinality(kept \intersect 1 .. i) <= j - i
           /\ \A i \in 1 .. n : Cardinality(kept \intersect 1 .. i) =
                 Cardinality(kept \intersect 1 .. i - 1) + IF i \in kept THEN 1 ELSE 0
<1> DEFINE C(i) == kept \intersect 1 .. i
<1>1. IsFiniteSet(1 .. n)
  BY FS_Interval
<1>2. IsFiniteSet(kept) /\ Cardinality(kept) \in Nat
  BY <1>1, FS_Subset, FS_CardinalityType
<1>3. \A i \in 0 .. n : /\ IsFiniteSet(C(i)) /\ Cardinality(C(i)) \in Nat
                        /\ Cardinality(C(i)) <= Cardinality(kept)
  BY <1>2, FS_Subset, FS_CardinalityType
<1>4. C(0) = {} /\ C(n) = kept
  <2>1. 1 .. 0 = {}
    OBVIOUS
  <2> QED
    BY <2>1
<1>5. Cardinality(C(0)) = 0
  BY <1>4, FS_EmptySet
<1>6. ASSUME NEW i \in 0 .. n, NEW j \in 0 .. n, i <= j
      PROVE  /\ Cardinality(C(i)) <= Cardinality(C(j))
             /\ Cardinality(C(j)) - Cardinality(C(i)) <= j - i
  <2>1. C(i) \subseteq C(j) /\ C(j) \subseteq C(i) \union (i + 1 .. j)
    BY <1>6
  <2>2. Cardinality(C(i)) <= Cardinality(C(j))
    BY <1>3, <2>1, FS_Subset
  <2>3. IsFiniteSet(i + 1 .. j) /\ Cardinality(i + 1 .. j) = j - i
    <3>1. i + 1 \in Int /\ j \in Int /\ j - (i + 1) + 1 = j - i /\ (i + 1 > j => j - i = 0)
      BY <1>6
    <3> QED
      BY <3>1, FS_Interval
  <2>4. /\ IsFiniteSet(C(i) \union (i + 1 .. j))
        /\ Cardinality(C(i) \union (i + 1 .. j)) <= Cardinality(C(i)) + (j - i)
    <3>1. C(i) \intersect (i + 1 .. j) = {}
      OBVIOUS
    <3>2. IsFiniteSet(C(i)) /\ Cardinality(C(i)) \in Nat
      BY <1>3
    <3> HIDE DEF C
    <3>3. /\ IsFiniteSet(C(i) \union (i + 1 .. j))
          /\ Cardinality(C(i) \union (i + 1 .. j)) = Cardinality(C(i)) + (j - i) - 0
      <4> DEFINE A == C(i)
                 B == i + 1 .. j
      <4>1. IsFiniteSet(A) /\ IsFiniteSet(B) /\ A \intersect B = {} /\ Cardinality(B) = j - i
        BY <2>3, <3>1, <3>2
      <4> HIDE DEF A, B
      <4>2. IsFiniteSet(A \union B)
            /\ Cardinality(A \union B) = Cardinality(A) + Cardinality(B) - Cardinality({})
        BY <4>1, FS_Union
      <4>3. Cardinality({}) = 0
        BY FS_EmptySet
      <4> QED
        BY <4>1, <4>2, <4>3 DEF A, B
    <3> QED
      BY <3>2, <3>3
  <2>5. Cardinality(C(j)) <= Cardinality(C(i) \union (i + 1 .. j))
    BY <2>1, <2>4, FS_Subset
  <2> HIDE DEF C
  <2> QED
    BY <1>3, <1>6, <2>2, <2>4, <2>5, FS_CardinalityType
<1>7. ASSUME NEW i \in 1 .. n
      PROVE  Cardinality(C(i)) = Cardinality(C(i - 1)) + IF i \in kept THEN 1 ELSE 0
  <2>1. C(i) = IF i \in kept THEN C(i - 1) \union {i} ELSE C(i - 1)
    OBVIOUS
  <2>2. i \notin C(i - 1) /\ i - 1 \in 0 .. n
    OBVIOUS
  <2>3. IsFiniteSet(C(i - 1)) /\ Cardinality(C(i - 1)) \in Nat
    BY <1>3, <2>2
  <2> HIDE DEF C
  <2> QED
    BY <2>1, <2>2, <2>3, FS_AddElement
<1>8. \A i \in 0 .. n : Cardinality(C(i)) \in 0 .. Cardinality(kept)
  BY <1>2, <1>3
<1>9. \A i, j \in 0 .. n : i <= j =>
         /\ Cardinality(C(i)) <= Cardinality(C(j))
         /\ Cardinality(C(j)) - Cardinality(C(i)) <= j - i
  BY <1>6
<1>10. \A i \in 1 .. n : Cardinality(C(i)) = Cardinality(C(i - 1)) + IF i \in kept THEN 1 ELSE 0
  BY <1>7
<1> QED
  BY <1>2, <1>4, <1>5, <1>8, <1>9, <1>10

\* What is kept comes from places in the same order, no nearer to each other, and all of them.
KeepsOrder(list, kept) ==
    \E place \in [DOMAIN Filtered(list, kept) -> kept] :
       /\ \A j \in DOMAIN Filtered(list, kept) : Filtered(list, kept)[j] = list[place[j]]
       /\ \A i, j \in DOMAIN Filtered(list, kept) : i < j => place[j] - place[i] >= j - i
       /\ \A i \in kept : \E j \in DOMAIN Filtered(list, kept) : place[j] = i

\* filter() keeps the order, and what it keeps is what was at the places kept.
LEMMA FilteredProperties ==
    ASSUME NEW S, NEW list \in Seq(S), NEW kept \in SUBSET DOMAIN list
    PROVE  /\ Filtered(list, kept) \in Seq(S)
           /\ KeepsOrder(list, kept)
<1> DEFINE n == Len(list)
           C(i) == Cardinality(kept \intersect 1 .. i)
           total == Cardinality(kept)
           place == [j \in 1 .. total |-> CHOOSE i \in kept : C(i) = j]
<1>1. n \in Nat /\ DOMAIN list = 1 .. n /\ \A i \in 1 .. n : list[i] \in S
  BY LenProperties, ElementOfSeq
<1>2. /\ total \in Nat
      /\ C(n) = total
      /\ \A i \in 0 .. n : C(i) \in 0 .. total
      /\ C(0) = 0
      /\ \A i, j \in 0 .. n : i <= j => C(i) <= C(j) /\ C(j) - C(i) <= j - i
      /\ \A i \in 1 .. n : C(i) = C(i - 1) + IF i \in kept THEN 1 ELSE 0
  BY <1>1, KeptCounts
<1> HIDE DEF C, total
<1>3. ASSUME NEW j \in 1 .. total PROVE place[j] \in kept /\ C(place[j]) = j
  <2> DEFINE T == {i \in 0 .. n : C(i) >= j}
  <2>1. T \in SUBSET Nat /\ n \in T
    BY <1>1, <1>2
  <2>2. PICK i \in T : \A m \in T : i <= m
    BY <2>1, LeastNatural
  <2>3. i \in 1 .. n
    BY <1>1, <1>2, <2>2
  <2>4. C(i - 1) < j
    <3>1. i - 1 \in 0 .. n /\ i - 1 < i
      BY <1>1, <2>3
    <3> QED
      BY <1>2, <2>2, <3>1
  <2>5. i \in kept /\ C(i) = j
    BY <1>2, <2>2, <2>3, <2>4
  <2> QED
    BY <2>5
<1>4. place \in [1 .. total -> kept]
  BY <1>3
<1>5. Filtered(list, kept) = [j \in 1 .. total |-> list[place[j]]]
  BY DEF Filtered, C, total
<1>6. DOMAIN Filtered(list, kept) = 1 .. total
  BY <1>5
<1> HIDE DEF place
<1>7. Filtered(list, kept) \in Seq(S)
  <2>1. \A j \in 1 .. total : list[place[j]] \in S
    BY <1>1, <1>4
  <2>2. Filtered(list, kept) \in [1 .. total -> S]
    BY <1>5, <2>1
  <2> QED
    BY <1>2, <2>2, SeqDef
<1>8. ASSUME NEW i \in 1 .. total, NEW j \in 1 .. total, i < j PROVE place[j] - place[i] >= j - i
  <2>1. place[i] \in 1 .. n /\ place[j] \in 1 .. n /\ C(place[i]) = i /\ C(place[j]) = j
    BY <1>1, <1>3
  <2>2. place[i] <= place[j]
    BY <1>1, <1>2, <1>8, <2>1
  <2> QED
    BY <1>1, <1>2, <1>8, <2>1, <2>2
<1>9. ASSUME NEW i \in kept PROVE \E j \in 1 .. total : place[j] = i
  <2>1. i \in 1 .. n
    BY <1>1
  <2>2. C(i) \in 1 .. total /\ C(i - 1) < C(i)
    <3>1. i \in 0 .. n /\ i - 1 \in 0 .. n
      BY <1>1, <2>1
    <3>2. C(i) \in 0 .. total /\ C(i - 1) \in 0 .. total /\ C(i) = C(i - 1) + 1
      BY <1>2, <2>1, <3>1
    <3> QED
      BY <1>2, <3>2
  <2>3. place[C(i)] \in kept /\ C(place[C(i)]) = C(i)
    BY <1>3, <2>2
  <2>4. ASSUME NEW a \in kept, NEW b \in kept, C(a) = C(b), a < b PROVE FALSE
    <3>1. a \in 0 .. n /\ b \in 1 .. n /\ b - 1 \in 0 .. n /\ a <= b - 1
      BY <1>1, <2>4
    <3>2. C(a) <= C(b - 1) /\ C(b) = C(b - 1) + 1 /\ C(b - 1) \in 0 .. total
      BY <1>2, <3>1
    <3> QED
      BY <2>4, <3>2
  <2>5. place[C(i)] = i
    BY <1>1, <2>1, <2>3, <2>4
  <2> QED
    BY <2>2, <2>5
<1> QED
  BY <1>4, <1>5, <1>6, <1>7, <1>8, <1>9 DEF KeepsOrder

\* The lesser of two numbers.
Lesser(a, b) == IF a <= b THEN a ELSE b

\* The newest events of run r when it has had n, as many as there is room for.
IsTail(list, r, n, room) ==
    /\ Len(list) = Lesser(n, room)
    /\ \A i \in DOMAIN list : list[i] = [run |-> r, id |-> n - Len(list) + i]

\* Ids grow along the list, by one at least from place to place.
Climbing(list) == \A i, j \in DOMAIN list : i < j => list[j].id - list[i].id >= j - i

\* The event is one that has happened.
Emitted(e) == e.run <= run /\ (e.run = run => e.id < nextId)

\* An answer is the newest there were at some time, in this run of the server or a former one.
Served(answer) == \E r \in 0 .. run, n \in Nat : IsTail(answer, r, n, Limit) /\ (r = run => n < nextId)

\* An event of a former run in the list is at least as high as id.
OldAbove(list, id) == \E i \in DOMAIN list : list[i].run # run /\ list[i].id >= id

\* The event is in flight and nothing of this run in the list will make it look like a duplicate.
Coming(id) ==
    /\ Has(eventStream, id)
    /\ \A i \in DOMAIN shown : shown[i].run = run => shown[i].id < id

\* A fetch is under way that brings the event.
Pending(id) == \E i \in DOMAIN fetches : fetches[i] = Unserved \/ Has(fetches[i], id)

\* What becomes of an event: it is listed, will be, or is behind an old one.
Accounted(id) == Has(shown, id) \/ Coming(id) \/ Pending(id) \/ OldAbove(shown, id)

\* The event is among the newest that the list has room for.
Recent(id) == id \in 1 .. nextId - 1 /\ id >= nextId - Limit

\* Types, without the bounds of the model.
ListTypeOK ==
    /\ eventStream \in Seq(Events)
    /\ run \in 0 .. MaxRestarts /\ nextId \in 1 .. MaxId + 1
    /\ buffer \in Seq(Events)
    /\ fetches \in Seq(Seq(Events) \cup {Unserved})
    /\ shown \in Seq(Events)
    /\ gapKnown \in BOOLEAN

\* The inductive invariant of the list: ids climb along it even over a restart of the server,
\* and every recent event is accounted for.
ListInv ==
    /\ ListTypeOK
    /\ IsTail(buffer, run, nextId - 1, Capacity)
    /\ \A i \in DOMAIN fetches : fetches[i] # Unserved => Served(fetches[i])
    /\ \A i \in DOMAIN eventStream : Emitted(eventStream[i])
    /\ eventLink = "open" =>
          \A i \in DOMAIN eventStream :
             eventStream[i] = [run |-> run, id |-> nextId - 1 - Len(eventStream) + i]
    /\ Climbing(shown)
    /\ \A i \in DOMAIN shown : Emitted(shown[i])
    /\ eventLink = "open" /\ ~ gapKnown => \A id \in Nat : Recent(id) => Accounted(id)

\* Events have a run and an id.
LEMMA EventFields ==
    ASSUME LogAssumption, NEW list \in Seq(Events)
    PROVE  /\ Len(list) \in Nat /\ DOMAIN list = 1 .. Len(list)
           /\ \A i \in DOMAIN list : /\ list[i] \in Events
                                     /\ list[i].id \in Nat \ {0} /\ list[i].run \in Nat
                                     /\ list[i] = [run |-> list[i].run, id |-> list[i].id]
<1>1. Len(list) \in Nat /\ DOMAIN list = 1 .. Len(list)
  BY LenProperties
<1>2. \A i \in DOMAIN list : list[i] \in Events
  BY <1>1, ElementOfSeq
<1> QED
  BY <1>1, <1>2 DEF Events, LogAssumption

\* What the list keeps of a longer one: its end, and when it drops an event the last one
\* is higher by more than the list is long.
LEMMA NewestProperties ==
    ASSUME NEW S, NEW list \in Seq(S), NEW n \in Nat, n > 0
    PROVE  /\ Newest(list, n) \in Seq(S)
           /\ Len(Newest(list, n)) = Lesser(Len(list), n)
           /\ \A i \in DOMAIN Newest(list, n) :
                 /\ Len(list) - Len(Newest(list, n)) + i \in DOMAIN list
                 /\ Newest(list, n)[i] = list[Len(list) - Len(Newest(list, n)) + i]
<1>1. PICK k \in Nat : k = Len(list) /\ DOMAIN list = 1 .. k
  BY LenProperties
<1>2. CASE k > n
  <2>1. PICK m \in Int : m = k - n + 1
    BY <1>2
  <2>2. /\ k \in Int /\ k - m + 1 = n /\ 1 <= m /\ m <= k
        /\ \A i \in 1 .. n : k - n + i \in 1 .. k /\ m + i - 1 = k - n + i
    BY <1>2, <2>1
  <2>3. Newest(list, n) = SubSeq(list, m, k)
    BY <1>1, <1>2, <2>1 DEF Newest
  <2>4. \A i \in m .. k : list[i] \in S
    <3>1. \A i \in m .. k : i \in 1 .. k
      BY <2>2
    <3> QED
      BY <1>1, <3>1, ElementOfSeq
  <2>5. /\ SubSeq(list, m, k) \in Seq(S)
        /\ Len(SubSeq(list, m, k)) = IF m <= k THEN k - m + 1 ELSE 0
        /\ \A i \in 1 .. k - m + 1 : SubSeq(list, m, k)[i] = list[m + i - 1]
    BY <2>1, <2>2, <2>4, SubSeqProperties
  <2>6. Newest(list, n) \in Seq(S) /\ Len(Newest(list, n)) = n
    BY <2>2, <2>3, <2>5
  <2>7. DOMAIN Newest(list, n) = 1 .. n
    BY <2>6, LenProperties
  <2>8. \A i \in 1 .. n : Newest(list, n)[i] = list[k - n + i]
    BY <2>2, <2>3, <2>5
  <2>9. Lesser(k, n) = n
    BY <1>2 DEF Lesser
  <2> QED
    BY <1>1, <2>2, <2>6, <2>7, <2>8, <2>9
<1>3. CASE k <= n
  <2>1. Newest(list, n) = list
    BY <1>1, <1>3 DEF Newest
  <2>2. Lesser(k, n) = k /\ \A i \in 1 .. k : k - k + i = i
    BY <1>3 DEF Lesser
  <2> QED
    BY <1>1, <2>1, <2>2
<1> QED
  BY <1>2, <1>3

\* The list keeps ids in order, and when it drops an event the last it keeps is higher by
\* more events than there can be of the present run.
LEMMA NewestKeeps ==
    ASSUME LogAssumption, NEW list \in Seq(Events), Climbing(list), run \in Nat, nextId \in Nat,
           \A i \in DOMAIN list : Emitted(list[i])
    PROVE  /\ Newest(list, Limit) \in Seq(Events)
           /\ Climbing(Newest(list, Limit))
           /\ \A i \in DOMAIN Newest(list, Limit) : Emitted(Newest(list, Limit)[i])
           /\ \A i \in DOMAIN Newest(list, Limit) : \E j \in DOMAIN list : Newest(list, Limit)[i] = list[j]
           /\ \A id \in Nat : id >= nextId - Limit /\ (Has(list, id) \/ OldAbove(list, id))
                 => Has(Newest(list, Limit), id) \/ OldAbove(Newest(list, Limit), id)
<1> DEFINE new == Newest(list, Limit)
           d == Len(list) - Len(new)
<1>1. /\ Len(list) \in Nat /\ DOMAIN list = 1 .. Len(list)
      /\ \A i \in DOMAIN list : list[i].id \in Nat /\ list[i].run \in Nat
  BY EventFields
<1>2. /\ new \in Seq(Events) /\ Len(new) = Lesser(Len(list), Limit)
      /\ \A i \in DOMAIN new : d + i \in DOMAIN list /\ new[i] = list[d + i]
  BY NewestProperties, LogAssumption DEF LogAssumption
<1>3. DOMAIN new = 1 .. Len(new) /\ Len(new) \in Nat /\ Limit \in Nat \ {0}
  BY <1>2, LenProperties, LogAssumption DEF LogAssumption
<1> HIDE DEF new
<1>4. Climbing(new)
  <2> SUFFICES ASSUME NEW i \in DOMAIN new, NEW j \in DOMAIN new, i < j
               PROVE  new[j].id - new[i].id >= j - i
    BY DEF Climbing
  <2>1. d + i \in DOMAIN list /\ d + j \in DOMAIN list /\ d + i < d + j
    BY <1>1, <1>2, <1>3
  <2>2. list[d + j].id - list[d + i].id >= (d + j) - (d + i)
    BY <2>1 DEF Climbing
  <2> QED
    BY <1>1, <1>2, <1>3, <2>2
<1>5. ASSUME NEW id \in Nat, id >= nextId - Limit, Has(list, id) \/ OldAbove(list, id)
      PROVE  Has(new, id) \/ OldAbove(new, id)
  <2>1. PICK i \in DOMAIN list : list[i] = [run |-> run, id |-> id] \/ (list[i].run # run /\ list[i].id >= id)
    BY <1>5 DEF Has, OldAbove
  <2>2. CASE i > d
    <3>1. i - d \in DOMAIN new /\ new[i - d] = list[i]
      BY <1>1, <1>2, <1>3, <2>2
    <3> QED
      BY <2>1, <3>1 DEF Has, OldAbove
  <2>3. CASE i <= d
    <3>1. Len(new) = Limit /\ Limit \in DOMAIN new /\ Len(list) \in DOMAIN list /\ i + Limit <= Len(list)
      <4>1. i >= 1 /\ Len(list) > Len(new) /\ i \in Nat
        BY <1>1, <1>3, <2>3
      <4>2. Len(new) = Limit
        BY <1>2, <4>1 DEF Lesser
      <4> QED
        BY <1>1, <1>3, <2>3, <4>1, <4>2
    <3>2. new[Limit] = list[Len(list)]
      BY <1>1, <1>2, <1>3, <3>1
    <3>3. list[Len(list)].id - list[i].id >= Len(list) - i
      BY <1>1, <1>3, <3>1 DEF Climbing
    <3>4. list[i].id >= id /\ list[i].id \in Nat /\ list[Len(list)].id \in Nat
      BY <1>1, <2>1, <3>1
    <3>5. list[Len(list)].id >= id + Limit
      BY <1>1, <1>3, <3>1, <3>3, <3>4
    <3>6. list[Len(list)].run # run
      BY <1>3, <1>5, <3>1, <3>4, <3>5 DEF Emitted
    <3>7. new[Limit].run # run /\ new[Limit].id >= id
      BY <1>3, <3>2, <3>4, <3>5, <3>6
    <3> QED
      BY <3>1, <3>7 DEF OldAbove
  <2> QED
    BY <1>1, <1>2, <1>3, <2>2, <2>3
<1>6. \A i \in DOMAIN new : Emitted(new[i]) /\ \E j \in DOMAIN list : new[i] = list[j]
  BY <1>2
<1> QED
  BY <1>2, <1>4, <1>5, <1>6 DEF new

\* Whole(answer, prev) before it is cut to the newest: the answer, then the later events
\* of the list, ids in order; nothing of the answer is dropped, nor a later event.
LEMMA MergedProperties ==
    ASSUME LogAssumption, NEW answer \in Seq(Events), NEW prev \in Seq(Events),
           Climbing(answer), Climbing(prev)
    PROVE  \E whole \in Seq(Events) :
              /\ Merged(answer, prev) = Newest(whole, Limit)
              /\ Climbing(whole)
              /\ \A i \in DOMAIN whole :
                    \/ \E j \in DOMAIN answer : whole[i] = answer[j]
                    \/ \E j \in DOMAIN prev : whole[i] = prev[j]
              /\ \A j \in DOMAIN answer : \E i \in DOMAIN whole : whole[i] = answer[j]
              /\ \A j \in DOMAIN prev : prev[j].id > TailId(answer) => \E i \in DOMAIN whole : whole[i] = prev[j]
<1> DEFINE kept == {i \in DOMAIN prev : prev[i].id > TailId(answer)}
           later == Filtered(prev, kept)
           whole == answer \o later
<1>1. PICK n \in Nat : n = Len(answer) /\ DOMAIN answer = 1 .. n
  BY LenProperties
<1>2. /\ later \in Seq(Events)
      /\ \E place \in [DOMAIN later -> kept] :
            /\ \A j \in DOMAIN later : later[j] = prev[place[j]]
            /\ \A i, j \in DOMAIN later : i < j => place[j] - place[i] >= j - i
            /\ \A i \in kept : \E j \in DOMAIN later : place[j] = i
  <2>1. kept \in SUBSET DOMAIN prev
    OBVIOUS
  <2> HIDE DEF kept
  <2>2. Filtered(prev, kept) \in Seq(Events) /\ KeepsOrder(prev, kept)
    BY <2>1, FilteredProperties
  <2> QED
    BY <2>2 DEF KeepsOrder
<1>3. PICK m \in Nat : m = Len(later) /\ DOMAIN later = 1 .. m
  BY <1>2, LenProperties
<1>4. Merged(answer, prev) = Newest(whole, Limit)
  BY DEF Merged
<1>5. /\ whole \in Seq(Events)
      /\ DOMAIN whole = 1 .. n + m
      /\ \A i \in 1 .. n + m : whole[i] = IF i <= n THEN answer[i] ELSE later[i - n]
  <2> HIDE DEF later
  <2>1. /\ whole \in Seq(Events) /\ Len(whole) = n + m
        /\ \A i \in 1 .. n + m : whole[i] = IF i <= n THEN answer[i] ELSE later[i - n]
    BY <1>1, <1>2, <1>3, ConcatProperties
  <2> HIDE DEF whole
  <2> QED
    BY <2>1, LenProperties
<1>6. PICK place \in [DOMAIN later -> kept] :
         /\ \A j \in DOMAIN later : later[j] = prev[place[j]]
         /\ \A i, j \in DOMAIN later : i < j => place[j] - place[i] >= j - i
         /\ \A i \in kept : \E j \in DOMAIN later : place[j] = i
  BY <1>2
<1>7. /\ \A i \in 1 .. n : answer[i].id \in Nat
      /\ \A i \in 1 .. m : later[i].id \in Nat /\ place[i] \in DOMAIN prev /\ prev[place[i]].id > TailId(answer)
      /\ \A i \in DOMAIN prev : prev[i].id \in Nat
      /\ DOMAIN prev \subseteq Nat
  <2>1. \A i \in 1 .. n : answer[i].id \in Nat
    BY <1>1, EventFields
  <2>2. DOMAIN prev \subseteq Nat /\ \A i \in DOMAIN prev : prev[i].id \in Nat
    BY EventFields
  <2>3. \A i \in 1 .. m : place[i] \in DOMAIN prev /\ prev[place[i]].id > TailId(answer)
    BY <1>3, <1>6
  <2> HIDE DEF later, kept
  <2>4. \A i \in 1 .. m : later[i].id \in Nat
    BY <1>3, <1>6, <2>2, <2>3
  <2> QED
    BY <2>1, <2>2, <2>3, <2>4
<1> HIDE DEF whole, later, kept
<1>8. TailId(answer) = IF n = 0 THEN 0 ELSE answer[n].id
  BY <1>1, EmptySeq DEF TailId
<1>9. \A i, j \in 1 .. m : i < j => later[j].id - later[i].id >= j - i
  <2> SUFFICES ASSUME NEW i \in 1 .. m, NEW j \in 1 .. m, i < j
               PROVE  later[j].id - later[i].id >= j - i
    OBVIOUS
  <2>1. place[i] \in Nat /\ place[j] \in Nat /\ place[j] - place[i] >= j - i
    BY <1>3, <1>6, <1>7
  <2>2. prev[place[j]].id - prev[place[i]].id >= place[j] - place[i]
    <3>1. place[i] \in DOMAIN prev /\ place[j] \in DOMAIN prev /\ place[i] < place[j]
      BY <1>3, <1>7, <2>1
    <3> QED
      BY <3>1 DEF Climbing
  <2>3. later[i] = prev[place[i]] /\ later[j] = prev[place[j]]
    BY <1>3, <1>6
  <2>4. later[i].id \in Nat /\ later[j].id \in Nat
    BY <1>7
  <2> QED
    BY <1>3, <2>1, <2>2, <2>3, <2>4
<1>10. \A i \in 1 .. m : later[i].id >= TailId(answer) + i
  <2> TAKE i \in 1 .. m
  <2>1. later[1].id >= TailId(answer) + 1 /\ TailId(answer) \in Nat
    <3>1. 1 \in 1 .. m
      BY <1>3
    <3>2. later[1] = prev[place[1]] /\ prev[place[1]].id > TailId(answer) /\ later[1].id \in Nat
      BY <1>3, <1>6, <1>7, <3>1
    <3>3. TailId(answer) \in Nat
      BY <1>1, <1>7, <1>8
    <3> QED
      BY <3>2, <3>3
  <2>2. i > 1 => later[i].id - later[1].id >= i - 1
    BY <1>9
  <2> QED
    BY <1>7, <2>1, <2>2
<1>11. \A i \in 1 .. n : TailId(answer) >= answer[i].id + (n - i)
  <2> TAKE i \in 1 .. n
  <2>1. TailId(answer) = answer[n].id /\ n \in 1 .. n /\ answer[i].id \in Nat /\ answer[n].id \in Nat
    BY <1>1, <1>7, <1>8
  <2>2. i < n => answer[n].id - answer[i].id >= n - i
    BY <1>1, <2>1 DEF Climbing
  <2> QED
    BY <1>1, <2>1, <2>2
<1>12. Climbing(whole)
  <2> SUFFICES ASSUME NEW i \in 1 .. n + m, NEW j \in 1 .. n + m, i < j
               PROVE  whole[j].id - whole[i].id >= j - i
    BY <1>5 DEF Climbing
  <2>1. CASE j <= n
    <3>1. i \in 1 .. n /\ j \in 1 .. n /\ whole[i] = answer[i] /\ whole[j] = answer[j]
      BY <1>5, <2>1
    <3> QED
      BY <1>1, <3>1 DEF Climbing
  <2>2. CASE i <= n /\ j > n
    <3>1. i \in 1 .. n /\ j - n \in 1 .. m /\ whole[i] = answer[i] /\ whole[j] = later[j - n]
      BY <1>5, <2>2
    <3>2. later[j - n].id >= TailId(answer) + (j - n) /\ TailId(answer) >= answer[i].id + (n - i)
      BY <1>10, <1>11, <3>1
    <3>3. later[j - n].id \in Nat /\ answer[i].id \in Nat /\ TailId(answer) \in Nat
      BY <1>7, <1>8, <3>1
    <3>4. ASSUME NEW a \in Nat, NEW t \in Nat, NEW b \in Nat, b >= t + (j - n), t >= a + (n - i)
          PROVE  b - a >= j - i
      BY <1>1, <3>4
    <3>5. later[j - n].id - answer[i].id >= j - i
      BY <3>2, <3>3, <3>4
    <3> QED
      BY <3>1, <3>5
  <2>3. CASE i > n
    <3>1. i - n \in 1 .. m /\ j - n \in 1 .. m /\ whole[i] = later[i - n] /\ whole[j] = later[j - n]
          /\ i - n < j - n
      BY <1>5, <2>3
    <3> QED
      BY <1>9, <3>1
  <2> QED
    BY <2>1, <2>2, <2>3
<1>13. \A i \in DOMAIN whole :
          \/ \E j \in DOMAIN answer : whole[i] = answer[j]
          \/ \E j \in DOMAIN prev : whole[i] = prev[j]
  <2> TAKE i \in DOMAIN whole
  <2>1. CASE i <= n
    BY <1>1, <1>5, <2>1
  <2>2. CASE i > n
    <3>1. i - n \in 1 .. m /\ whole[i] = later[i - n]
      BY <1>5, <2>2
    <3> QED
      BY <1>3, <1>6, <1>7, <3>1
  <2> QED
    BY <1>5, <2>1, <2>2
<1>14. \A j \in DOMAIN answer : \E i \in DOMAIN whole : whole[i] = answer[j]
  BY <1>1, <1>5
<1>15. ASSUME NEW j \in DOMAIN prev, prev[j].id > TailId(answer)
       PROVE  \E i \in DOMAIN whole : whole[i] = prev[j]
  <2>1. PICK i \in 1 .. m : place[i] = j
    BY <1>3, <1>6, <1>15 DEF kept
  <2>2. n + i \in 1 .. n + m /\ whole[n + i] = later[i]
    BY <1>5
  <2> QED
    BY <1>3, <1>5, <1>6, <2>1, <2>2
<1> QED
  BY <1>4, <1>5, <1>12, <1>13, <1>14, <1>15

\* Taking one element out of a list leaves the others.
LEMMA WithoutProperties ==
    ASSUME NEW S, NEW list \in Seq(S), NEW i \in DOMAIN list
    PROVE  /\ Without(list, i) \in Seq(S)
           /\ \A j \in DOMAIN Without(list, i) : \E k \in DOMAIN list : Without(list, i)[j] = list[k]
           /\ \A k \in DOMAIN list \ {i} : \E j \in DOMAIN Without(list, i) : Without(list, i)[j] = list[k]
<1>1. PICK n \in Nat : n = Len(list) /\ DOMAIN list = 1 .. n
  BY LenProperties
<1>2. i \in 1 .. n /\ i - 1 \in Int /\ i + 1 \in Int /\ 1 \in Int /\ n \in Int
  BY <1>1
<1>3. \A j \in 1 .. n : list[j] \in S
  BY <1>1, ElementOfSeq
<1> DEFINE s == SubSeq(list, 1, i - 1)
           t == SubSeq(list, i + 1, n)
<1>4. /\ s \in Seq(S) /\ Len(s) = i - 1
      /\ \A j \in 1 .. i - 1 : s[j] = list[j]
  <2>1. \A j \in 1 .. i - 1 : list[j] \in S
    BY <1>2, <1>3
  <2>2. /\ s \in Seq(S) /\ Len(s) = IF 1 <= i - 1 THEN i - 1 - 1 + 1 ELSE 0
        /\ \A j \in 1 .. i - 1 - 1 + 1 : s[j] = list[1 + j - 1]
    BY <1>2, <2>1, SubSeqProperties
  <2> HIDE DEF s
  <2> QED
    BY <1>2, <2>2
<1>5. /\ t \in Seq(S) /\ Len(t) = n - i
      /\ \A j \in 1 .. n - i : t[j] = list[i + j]
  <2>1. \A j \in i + 1 .. n : list[j] \in S
    BY <1>2, <1>3
  <2>2. /\ t \in Seq(S) /\ Len(t) = IF i + 1 <= n THEN n - (i + 1) + 1 ELSE 0
        /\ \A j \in 1 .. n - (i + 1) + 1 : t[j] = list[i + 1 + j - 1]
    BY <1>2, <2>1, SubSeqProperties
  <2> HIDE DEF t
  <2>3. n - (i + 1) + 1 = n - i /\ (~ (i + 1 <= n) => n - i = 0)
    BY <1>2
  <2>4. \A j \in 1 .. n - i : i + 1 + j - 1 = i + j
    BY <1>2
  <2> QED
    BY <2>2, <2>3, <2>4
<1>6. Without(list, i) = s \o t
  BY <1>1 DEF Without
<1> HIDE DEF s, t
<1>7. /\ s \o t \in Seq(S) /\ Len(s \o t) = (i - 1) + (n - i)
      /\ \A j \in 1 .. (i - 1) + (n - i) : (s \o t)[j] = IF j <= i - 1 THEN s[j] ELSE t[j - (i - 1)]
  <2>1. /\ s \o t \in Seq(S) /\ Len(s \o t) = Len(s) + Len(t)
        /\ \A j \in 1 .. Len(s) + Len(t) : (s \o t)[j] = IF j <= Len(s) THEN s[j] ELSE t[j - Len(s)]
    BY <1>4, <1>5, ConcatProperties
  <2> QED
    BY <1>4, <1>5, <2>1
<1>8. DOMAIN (s \o t) = 1 .. n - 1
  <2>1. DOMAIN (s \o t) = 1 .. Len(s \o t)
    BY <1>7, LenProperties
  <2> QED
    BY <1>2, <1>7, <2>1
<1>9. \A j \in 1 .. n - 1 : (s \o t)[j] = IF j < i THEN list[j] ELSE list[j + 1]
  <2> TAKE j \in 1 .. n - 1
  <2>1. CASE j < i
    <3>1. j \in 1 .. i - 1 /\ j \in 1 .. (i - 1) + (n - i)
      BY <1>2, <2>1
    <3> QED
      BY <1>4, <1>7, <2>1, <3>1
  <2>2. CASE ~ (j < i)
    <3>1. /\ j - (i - 1) \in 1 .. n - i /\ j \in 1 .. (i - 1) + (n - i) /\ ~ (j <= i - 1)
          /\ i + (j - (i - 1)) = j + 1
      BY <1>2, <2>2
    <3> QED
      BY <1>5, <1>7, <2>2, <3>1
  <2> QED
    BY <2>1, <2>2
<1>10. \A j \in 1 .. n - 1 : \E k \in 1 .. n : (s \o t)[j] = list[k]
  <2>1. \A j \in 1 .. n - 1 : j \in 1 .. n /\ j + 1 \in 1 .. n
    BY <1>1
  <2> QED
    BY <1>9, <2>1
<1>11. ASSUME NEW k \in 1 .. n, k # i PROVE \E j \in 1 .. n - 1 : (s \o t)[j] = list[k]
  <2>1. CASE k < i
    <3>1. k \in 1 .. n - 1
      BY <1>2, <2>1
    <3> QED
      BY <1>9, <2>1, <3>1
  <2>2. CASE k > i
    <3>1. PICK j \in Int : j = k - 1
      BY <2>2
    <3>2. j \in 1 .. n - 1 /\ ~ (j < i) /\ j + 1 = k
      BY <1>2, <2>2, <3>1
    <3>3. (s \o t)[j] = list[j + 1]
      BY <1>9, <3>2
    <3> QED
      BY <3>1, <3>2, <3>3
  <2>3. k < i \/ k > i
    BY <1>2, <1>11
  <2> QED
    BY <2>1, <2>2, <2>3
<1>12. \A k \in DOMAIN list \ {i} : \E j \in 1 .. n - 1 : (s \o t)[j] = list[k]
  BY <1>1, <1>11
<1> QED
  <2>1. DOMAIN Without(list, i) = 1 .. n - 1 /\ Without(list, i) \in Seq(S)
    BY <1>6, <1>7, <1>8
  <2>2. \A j \in DOMAIN Without(list, i) : \E k \in DOMAIN list : Without(list, i)[j] = list[k]
    BY <1>1, <1>6, <1>10, <2>1
  <2>3. \A k \in DOMAIN list \ {i} : \E j \in DOMAIN Without(list, i) : Without(list, i)[j] = list[k]
    BY <1>6, <1>12, <2>1
  <2> QED
    BY <2>1, <2>2, <2>3

\* The newest events of a run: ids in order up to the last, and none left out.
LEMMA TailProperties ==
    ASSUME NEW list \in Seq(Events), NEW r \in Nat, NEW n \in Nat, NEW room \in Nat, IsTail(list, r, n, room)
    PROVE  /\ Climbing(list)
           /\ room > 0 => TailId(list) = n
           /\ \A i \in DOMAIN list : list[i].run = r /\ list[i].id \in Nat /\ list[i].id <= n
           /\ \A id \in 1 .. n : id > n - room =>
                 \E i \in DOMAIN list : list[i] = [run |-> r, id |-> id]
<1>1. PICK k \in Nat : k = Len(list) /\ DOMAIN list = 1 .. k
  BY LenProperties
<1>2. k = Lesser(n, room) /\ \A i \in 1 .. k : list[i] = [run |-> r, id |-> n - k + i]
  BY <1>1 DEF IsTail
<1>3. \A i \in 1 .. k : list[i].id = n - k + i /\ list[i].run = r
  <2> TAKE i \in 1 .. k
  <2>1. list[i] = [run |-> r, id |-> n - k + i]
    BY <1>2
  <2> QED
    BY <2>1
<1>4. k <= n /\ k <= room /\ (k = n \/ k = room)
  BY <1>2 DEF Lesser
<1>5. Climbing(list)
  BY <1>1, <1>3 DEF Climbing
<1>6. room > 0 => TailId(list) = n
  <2>1. CASE k = 0
    BY <1>1, <1>4, <2>1, EmptySeq DEF TailId
  <2>2. CASE k > 0
    <3>1. list # <<>> /\ k \in 1 .. k /\ list[k].id = n - k + k
      BY <1>1, <1>3, <2>2, EmptySeq
    <3> QED
      BY <1>1, <3>1 DEF TailId
  <2> QED
    BY <2>1, <2>2
<1>7. \A i \in 1 .. k : list[i].run = r /\ list[i].id \in Nat /\ list[i].id <= n
  BY <1>3, <1>4
<1>8. ASSUME NEW id \in 1 .. n, id > n - room
      PROVE  \E i \in 1 .. k : list[i] = [run |-> r, id |-> id]
  <2>1. id - n + k \in 1 .. k /\ n - k + (id - n + k) = id
    BY <1>4, <1>8
  <2> QED
    BY <1>2, <2>1
<1> QED
  BY <1>1, <1>5, <1>6, <1>7, <1>8

\* A new event makes the buffer the newest of one more, and what is served are the newest.
LEMMA BufferProperties ==
    ASSUME LogAssumption, buffer \in Seq(Events), run \in 0 .. MaxRestarts, nextId \in Nat \ {0},
           IsTail(buffer, run, nextId - 1, Capacity)
    PROVE  /\ Newest(buffer, Limit) \in Seq(Events)
           /\ IsTail(Newest(buffer, Limit), run, nextId - 1, Limit)
           /\ nextId <= MaxId =>
                LET event == [run |-> run, id |-> nextId]
                IN  /\ Newest(Append(buffer, event), Capacity) \in Seq(Events)
                    /\ IsTail(Newest(Append(buffer, event), Capacity), run, nextId, Capacity)
<1>0. /\ Limit \in Nat /\ Limit > 0 /\ Capacity \in Nat /\ Capacity > 0 /\ Capacity >= Limit
      /\ MaxId \in Nat /\ run \in Nat /\ nextId \in Nat /\ nextId > 0
  BY LogAssumption DEF LogAssumption
<1>1. PICK k \in Nat : k = Len(buffer) /\ DOMAIN buffer = 1 .. k
  BY LenProperties
<1>2. k = Lesser(nextId - 1, Capacity) /\ \A i \in 1 .. k : buffer[i] = [run |-> run, id |-> nextId - 1 - k + i]
  BY <1>1 DEF IsTail
<1>3. k <= nextId - 1 /\ k <= Capacity /\ (k = nextId - 1 \/ k = Capacity)
  BY <1>0, <1>2 DEF Lesser
<1>4. Newest(buffer, Limit) \in Seq(Events) /\ IsTail(Newest(buffer, Limit), run, nextId - 1, Limit)
  <2> DEFINE new == Newest(buffer, Limit)
  <2>1. /\ new \in Seq(Events) /\ Len(new) = Lesser(k, Limit)
        /\ \A i \in DOMAIN new : k - Len(new) + i \in 1 .. k /\ new[i] = buffer[k - Len(new) + i]
    <3>1. /\ new \in Seq(Events)
          /\ Len(new) = Lesser(Len(buffer), Limit)
          /\ \A i \in DOMAIN new : Len(buffer) - Len(new) + i \in DOMAIN buffer
                                   /\ new[i] = buffer[Len(buffer) - Len(new) + i]
      BY <1>0, NewestProperties
    <3> HIDE DEF new
    <3> QED
      BY <1>1, <3>1
  <2> HIDE DEF new
  <2>2. PICK m \in Nat : m = Len(new) /\ DOMAIN new = 1 .. m
    BY <2>1, LenProperties
  <2>3. m = Lesser(nextId - 1, Limit)
    BY <1>0, <1>3, <2>1, <2>2 DEF Lesser
  <2>4. \A i \in 1 .. m : new[i] = [run |-> run, id |-> nextId - 1 - m + i]
    <3> TAKE i \in 1 .. m
    <3>1. k - m + i \in 1 .. k /\ new[i] = buffer[k - m + i]
      BY <2>1, <2>2
    <3>2. nextId - 1 - k + (k - m + i) = nextId - 1 - m + i
      BY <1>0, <2>2
    <3> QED
      BY <1>2, <3>1, <3>2
  <2> QED
    BY <2>1, <2>2, <2>3, <2>4 DEF IsTail, new
<1>5. ASSUME nextId <= MaxId
      PROVE  LET event == [run |-> run, id |-> nextId]
             IN  /\ Newest(Append(buffer, event), Capacity) \in Seq(Events)
                 /\ IsTail(Newest(Append(buffer, event), Capacity), run, nextId, Capacity)
  <2> DEFINE event == [run |-> run, id |-> nextId]
             all == Append(buffer, event)
             new == Newest(all, Capacity)
  <2>1. event \in Events
    BY <1>0, <1>5 DEF Events
  <2>2. /\ all \in Seq(Events) /\ Len(all) = k + 1
        /\ \A i \in 1 .. k : all[i] = buffer[i]
        /\ all[k + 1] = event
    <3> HIDE DEF event
    <3> QED
      BY <1>1, <2>1, AppendProperties
  <2>3. \A i \in 1 .. k + 1 : all[i] = [run |-> run, id |-> nextId - 1 - k + i]
    <3> TAKE i \in 1 .. k + 1
    <3>1. CASE i \in 1 .. k
      <4> HIDE DEF all
      <4> QED
        BY <1>2, <2>2, <3>1
    <3>2. CASE i = k + 1
      <4>1. nextId - 1 - k + i = nextId
        BY <1>0, <1>1, <3>2
      <4>2. all[i] = event
        <5> HIDE DEF all, event
        <5> QED
          BY <2>2, <3>2
      <4>3. [run |-> run, id |-> nextId - 1 - k + i] = event
        BY <4>1
      <4> HIDE DEF all, event
      <4> QED
        BY <4>2, <4>3
    <3> QED
      BY <1>1, <3>1, <3>2
  <2> HIDE DEF all
  <2>4. DOMAIN all = 1 .. k + 1
    BY <2>2, LenProperties
  <2>5. /\ new \in Seq(Events) /\ Len(new) = Lesser(k + 1, Capacity)
        /\ \A i \in DOMAIN new : k + 1 - Len(new) + i \in 1 .. k + 1 /\ new[i] = all[k + 1 - Len(new) + i]
    <3>1. /\ new \in Seq(Events) /\ Len(new) = Lesser(Len(all), Capacity)
          /\ \A i \in DOMAIN new : Len(all) - Len(new) + i \in DOMAIN all /\ new[i] = all[Len(all) - Len(new) + i]
      <4>1. all \in Seq(Events) /\ Capacity \in Nat /\ Capacity > 0
        BY <1>0, <2>2
      <4> QED
        BY <4>1, NewestProperties
    <3> HIDE DEF new
    <3> QED
      BY <2>2, <2>4, <3>1
  <2> HIDE DEF new
  <2>6. PICK m \in Nat : m = Len(new) /\ DOMAIN new = 1 .. m
    BY <2>5, LenProperties
  <2>7. m = Lesser(nextId, Capacity)
    BY <1>0, <1>3, <2>5, <2>6 DEF Lesser
  <2>8. \A i \in 1 .. m : new[i] = [run |-> run, id |-> nextId - m + i]
    <3> TAKE i \in 1 .. m
    <3>1. k + 1 - m + i \in 1 .. k + 1 /\ new[i] = all[k + 1 - m + i]
      BY <2>5, <2>6
    <3>2. nextId - 1 - k + (k + 1 - m + i) = nextId - m + i
      BY <1>0, <2>6
    <3> QED
      BY <2>3, <3>1, <3>2
  <2>9. new \in Seq(Events) /\ IsTail(new, run, nextId, Capacity)
    BY <2>5, <2>6, <2>7, <2>8 DEF IsTail
  <2> QED
    BY <2>9 DEF new, all
<1> QED
  BY <1>4, <1>5

-----------------------------------------------------------------------------
(* EventStream: the invariant of the list. *)

\* Nothing has happened at first.
LEMMA LogInitInv == ASSUME LogAssumption, LogInit PROVE ListInv
<1>1. /\ eventStream = <<>> /\ eventLink = "closed"
      /\ run = 0 /\ nextId = 1 /\ buffer = <<>> /\ fetches = <<Unserved>> /\ shown = <<>> /\ gapKnown = FALSE
  BY DEF LogInit, Feed!StreamInit
<1>2. <<>> \in Seq(Events) /\ Len(<<>>) = 0 /\ \A i \in DOMAIN <<>> : FALSE
  BY EmptySeq, LenProperties
<1>3. fetches \in Seq(Seq(Events) \cup {Unserved}) /\ \A i \in DOMAIN fetches : fetches[i] = Unserved
  BY <1>1
<1>4. ListTypeOK
  <2>1. 0 \in 0 .. MaxRestarts /\ 1 \in 1 .. MaxId + 1 /\ FALSE \in BOOLEAN
    BY LogAssumption DEF LogAssumption
  <2> QED
    BY <1>1, <1>2, <1>3, <2>1 DEF ListTypeOK
<1>5. IsTail(buffer, run, nextId - 1, Capacity)
  BY <1>1, <1>2, LogAssumption DEF IsTail, Lesser, LogAssumption
<1> QED
  BY <1>1, <1>2, <1>3, <1>4, <1>5 DEF ListInv, Climbing

\* The numbers in play.
LEMMA LogNumbers ==
    ASSUME LogAssumption, ListInv
    PROVE  /\ run \in Nat /\ nextId \in Nat /\ nextId > 0
           /\ Limit \in Nat /\ Limit > 0 /\ Capacity \in Nat /\ MaxId \in Nat /\ MaxRestarts \in Nat
BY DEF LogAssumption, ListInv, ListTypeOK

\* When the list is cut to its newest, nothing recent is lost that is not behind an event
\* of a former run.
LEMMA CutAccounts ==
    ASSUME LogAssumption, ListInv, NEW whole \in Seq(Events), Climbing(whole),
           \A i \in DOMAIN whole : Emitted(whole[i]),
           shown' = Newest(whole, Limit), UNCHANGED <<run, nextId>>
    PROVE  /\ shown' \in Seq(Events) /\ Climbing(shown)'
           /\ \A i \in DOMAIN shown' : Emitted(shown[i])'
           /\ \A i \in DOMAIN shown' : \E j \in DOMAIN whole : shown'[i] = whole[j]
           /\ \A id \in Nat : Recent(id) /\ (Has(whole, id) \/ OldAbove(whole, id))
                 => Has(shown, id)' \/ OldAbove(shown, id)'
<1>1. /\ Newest(whole, Limit) \in Seq(Events)
      /\ Climbing(Newest(whole, Limit))
      /\ \A i \in DOMAIN Newest(whole, Limit) : Emitted(Newest(whole, Limit)[i])
      /\ \A i \in DOMAIN Newest(whole, Limit) : \E j \in DOMAIN whole : Newest(whole, Limit)[i] = whole[j]
      /\ \A id \in Nat : id >= nextId - Limit /\ (Has(whole, id) \/ OldAbove(whole, id))
            => Has(Newest(whole, Limit), id) \/ OldAbove(Newest(whole, Limit), id)
  BY LogNumbers, NewestKeeps
<1>2. /\ shown' \in Seq(Events) /\ Climbing(shown')
      /\ \A i \in DOMAIN shown' : Emitted(shown'[i])
      /\ \A i \in DOMAIN shown' : \E j \in DOMAIN whole : shown'[i] = whole[j]
      /\ \A id \in Nat : id >= nextId - Limit /\ (Has(whole, id) \/ OldAbove(whole, id))
            => Has(shown', id) \/ OldAbove(shown', id)
  BY <1>1
<1>3. Climbing(shown)' /\ \A i \in DOMAIN shown' : Emitted(shown[i])'
  BY <1>2 DEF Climbing, Emitted
<1>4. \A id : (Has(shown', id) \/ OldAbove(shown', id)) => (Has(shown, id)' \/ OldAbove(shown, id)')
  BY DEF Has, OldAbove
<1> QED
  BY <1>2, <1>3, <1>4 DEF Recent

\* A new event is in flight to the console, and higher than all it has.
LEMMA AddInv == ASSUME LogAssumption, ListInv, Add PROVE ListInv'
<1> DEFINE event == [run |-> run, id |-> nextId]
<1>1. /\ nextId <= MaxId /\ nextId' = nextId + 1
      /\ buffer' = Newest(Append(buffer, event), Capacity)
      /\ eventStream' = IF eventLink = "open" THEN Append(eventStream, event) ELSE eventStream
      /\ UNCHANGED <<eventLink, run, fetches, shown, gapKnown>>
  BY DEF Add, Feed!Broadcast, listVars
<1>2. ListTypeOK
  BY DEF ListInv
<1>3. /\ run \in Nat /\ nextId \in Nat /\ nextId > 0 /\ MaxId \in Nat /\ nextId' - 1 = nextId
      /\ Limit \in Nat
  BY <1>1, LogNumbers
<1>4. buffer' \in Seq(Events) /\ IsTail(buffer, run, nextId - 1, Capacity)'
  <2>1. buffer' \in Seq(Events) /\ IsTail(buffer', run, nextId, Capacity)
    BY <1>1, <1>2, <1>3, BufferProperties DEF ListInv, ListTypeOK
  <2> QED
    BY <1>1, <1>3, <2>1 DEF IsTail
<1>5. event \in Events
  BY <1>1, <1>2, <1>3 DEF Events, ListTypeOK
<1>6. PICK k \in Nat : k = Len(eventStream) /\ DOMAIN eventStream = 1 .. k
  BY <1>2, LenProperties DEF ListTypeOK
<1>7. eventLink = "open" =>
         /\ eventStream' \in Seq(Events) /\ DOMAIN eventStream' = 1 .. k + 1 /\ Len(eventStream') = k + 1
         /\ \A i \in 1 .. k : eventStream'[i] = eventStream[i]
         /\ eventStream'[k + 1] = event
  <2> HIDE DEF event
  <2> QED
    BY <1>1, <1>2, <1>5, <1>6, AppendProperties, LenProperties DEF ListTypeOK
<1>8. ListTypeOK'
  BY <1>1, <1>2, <1>3, <1>4, <1>7 DEF ListTypeOK
<1>9. \A e \in Events : Emitted(e) => Emitted(e)'
  BY <1>1, <1>3 DEF Emitted, Events
<1>10. event.run <= run' /\ (event.run = run' => event.id < nextId')
  BY <1>1, <1>3
<1>11. \A i \in DOMAIN eventStream' : Emitted(eventStream[i])'
  <2>1. \A i \in DOMAIN eventStream : eventStream[i] \in Events /\ Emitted(eventStream[i])
    BY <1>2, <1>6, ElementOfSeq DEF ListInv, ListTypeOK
  <2>2. CASE eventLink = "open"
    <3> SUFFICES ASSUME NEW i \in 1 .. k + 1 PROVE Emitted(eventStream[i])'
      BY <1>7, <2>2
    <3>1. CASE i = k + 1
      BY <1>7, <1>10, <2>2, <3>1 DEF Emitted
    <3>2. CASE i \in 1 .. k
      BY <1>6, <1>7, <1>9, <2>1, <2>2, <3>2 DEF Emitted
    <3> QED
      BY <1>6, <3>1, <3>2
  <2>3. CASE eventLink # "open"
    BY <1>1, <1>9, <2>1, <2>3 DEF Emitted
  <2> QED
    BY <2>2, <2>3
<1>12. eventLink' = "open" =>
          \A i \in DOMAIN eventStream' :
             eventStream'[i] = [run |-> run', id |-> nextId' - 1 - Len(eventStream') + i]
  <2> SUFFICES ASSUME eventLink = "open", NEW i \in 1 .. k + 1
               PROVE  eventStream'[i] = [run |-> run, id |-> nextId - (k + 1) + i]
    BY <1>1, <1>3, <1>7
  <2>1. CASE i = k + 1
    <3>1. nextId - (k + 1) + i = nextId
      BY <1>3, <1>6, <2>1
    <3>2. eventStream'[i] = event
      <4> HIDE DEF event
      <4> QED
        BY <1>7, <2>1
    <3> QED
      BY <3>1, <3>2
  <2>2. CASE i \in 1 .. k
    <3>1. eventStream'[i] = [run |-> run, id |-> nextId - 1 - k + i]
      BY <1>6, <1>7, <2>2 DEF ListInv
    <3>2. nextId - 1 - k + i = nextId - (k + 1) + i
      BY <1>3, <1>6
    <3> QED
      BY <3>1, <3>2
  <2> QED
    BY <1>6, <2>1, <2>2
<1>13. \A i \in DOMAIN fetches' : fetches'[i] # Unserved => Served(fetches[i])'
  BY <1>1, <1>3 DEF ListInv, Served
<1>14. Climbing(shown)' /\ \A i \in DOMAIN shown' : Emitted(shown[i])'
  <2>1. \A i \in DOMAIN shown : shown[i] \in Events /\ Emitted(shown[i])
    BY <1>2, LenProperties, ElementOfSeq DEF ListInv, ListTypeOK
  <2> QED
    BY <1>1, <1>9, <2>1 DEF ListInv, Climbing, Emitted
<1>15. ASSUME eventLink' = "open", ~ gapKnown', NEW id \in Nat, Recent(id)'
       PROVE  Accounted(id)'
  <2>1. CASE id = nextId
    <3>1. Has(eventStream, id)'
      BY <1>1, <1>6, <1>7, <1>15, <2>1 DEF Has
    <3>2. \A i \in DOMAIN shown' : shown'[i].run = run' => shown'[i].id < id
      BY <1>1, <2>1 DEF ListInv, Emitted
    <3> QED
      BY <3>1, <3>2 DEF Accounted, Coming
  <2>2. CASE id # nextId
    <3>1. Recent(id)
      BY <1>1, <1>3, <1>15, <2>2 DEF Recent
    <3>2. Accounted(id)
      BY <1>1, <1>15, <3>1 DEF ListInv
    <3>3. Has(eventStream, id) => Has(eventStream, id)'
      BY <1>1, <1>6, <1>7, <1>15 DEF Has
    <3> QED
      BY <1>1, <3>2, <3>3 DEF Accounted, Has, Coming, Pending, OldAbove
  <2> QED
    BY <2>1, <2>2
<1> QED
  BY <1>4, <1>8, <1>11, <1>12, <1>13, <1>14, <1>15 DEF ListInv

\* The events of the run that has ended are no longer recent, and no link is open.
LEMMA RestartInv == ASSUME LogAssumption, ListInv, Restart PROVE ListInv'
<1>1. /\ run < MaxRestarts /\ eventLink # "open"
      /\ run' = run + 1 /\ nextId' = 1 /\ buffer' = <<>>
      /\ fetches' = Filtered(fetches, {i \in DOMAIN fetches : fetches[i] # Unserved})
      /\ gapKnown' = (gapKnown \/ \E i \in DOMAIN fetches : fetches[i] = Unserved)
      /\ UNCHANGED <<eventLink, eventStream, shown>>
  BY DEF Restart, feedVars
<1>2. ListTypeOK
  BY DEF ListInv
<1>3. run \in Nat /\ nextId \in Nat /\ MaxRestarts \in Nat /\ Capacity \in Nat /\ MaxId \in Nat
  BY LogNumbers
<1>4. /\ fetches' \in Seq(Seq(Events) \cup {Unserved})
      /\ \A i \in DOMAIN fetches' : fetches'[i] # Unserved /\ \E j \in DOMAIN fetches : fetches'[i] = fetches[j]
  <2> DEFINE kept == {i \in DOMAIN fetches : fetches[i] # Unserved}
  <2>1. kept \in SUBSET DOMAIN fetches /\ \A i \in kept : i \in DOMAIN fetches /\ fetches[i] # Unserved
    OBVIOUS
  <2>2. fetches' = Filtered(fetches, kept)
    BY <1>1
  <2> HIDE DEF kept
  <2>3. fetches' \in Seq(Seq(Events) \cup {Unserved}) /\ KeepsOrder(fetches, kept)
    BY <1>2, <2>1, <2>2, FilteredProperties DEF ListTypeOK
  <2>4. PICK place \in [DOMAIN fetches' -> kept] : \A j \in DOMAIN fetches' : fetches'[j] = fetches[place[j]]
    BY <2>2, <2>3 DEF KeepsOrder
  <2> QED
    BY <2>1, <2>3, <2>4
<1>5. <<>> \in Seq(Events) /\ Len(<<>>) = 0 /\ \A i \in DOMAIN <<>> : FALSE
  BY EmptySeq, LenProperties
<1>6. ListTypeOK'
  BY <1>1, <1>2, <1>3, <1>4, <1>5 DEF ListTypeOK
<1>7. IsTail(buffer, run, nextId - 1, Capacity)'
  BY <1>1, <1>3, <1>5 DEF IsTail, Lesser
<1>8. \A e \in Events : Emitted(e) => Emitted(e)'
  BY <1>1, <1>3 DEF Emitted, Events
<1>9. ASSUME NEW i \in DOMAIN fetches' PROVE Served(fetches[i])'
  <2>1. PICK j \in DOMAIN fetches : fetches'[i] = fetches[j] /\ fetches[j] # Unserved
    BY <1>4
  <2>2. PICK r \in 0 .. run, n \in Nat : IsTail(fetches[j], r, n, Limit)
    BY <2>1 DEF ListInv, Served
  <2>3. r \in 0 .. run' /\ r # run'
    BY <1>1, <1>3
  <2>4. IsTail(fetches'[i], r, n, Limit)
    BY <2>1, <2>2
  <2>5. \E q \in 0 .. run', m \in Nat : IsTail(fetches'[i], q, m, Limit) /\ (q = run' => m < nextId')
    BY <2>3, <2>4
  <2> QED
    BY <2>5 DEF Served, IsTail
<1>10. ASSUME NEW list \in Seq(Events), \A i \in DOMAIN list : Emitted(list[i]),
              NEW new, new = list
       PROVE  \A i \in DOMAIN new : new[i].run <= run' /\ (new[i].run = run' => new[i].id < nextId')
  <2>1. \A i \in DOMAIN list : list[i] \in Events
    BY LenProperties, ElementOfSeq
  <2> QED
    BY <1>8, <1>10, <2>1 DEF Emitted
<1>11. \A i \in DOMAIN eventStream' : Emitted(eventStream[i])'
  BY <1>1, <1>2, <1>10 DEF ListInv, ListTypeOK, Emitted
<1>12. Climbing(shown)' /\ \A i \in DOMAIN shown' : Emitted(shown[i])'
  BY <1>1, <1>2, <1>10 DEF ListInv, ListTypeOK, Emitted, Climbing
<1> QED
  BY <1>1, <1>6, <1>7, <1>9, <1>11, <1>12 DEF ListInv

\* What the events in play are when the log itself does not change.
LEMMA SameLog ==
    ASSUME LogAssumption, ListInv, UNCHANGED <<run, nextId, buffer>>,
           eventStream' \in Seq(Events),
           \A i \in DOMAIN eventStream' : Emitted(eventStream'[i]),
           eventLink' = "open" =>
              \A i \in DOMAIN eventStream' :
                 eventStream'[i] = [run |-> run, id |-> nextId - 1 - Len(eventStream') + i],
           fetches' \in Seq(Seq(Events) \cup {Unserved}),
           \A i \in DOMAIN fetches' : fetches'[i] # Unserved => Served(fetches'[i]),
           shown' \in Seq(Events), Climbing(shown)',
           \A i \in DOMAIN shown' : Emitted(shown'[i]),
           gapKnown' \in BOOLEAN,
           eventLink' = "open" /\ ~ gapKnown' => \A id \in Nat : Recent(id) => Accounted(id)'
    PROVE  ListInv'
<1>1. ListTypeOK'
  BY DEF ListInv, ListTypeOK
<1>2. IsTail(buffer, run, nextId - 1, Capacity)'
  BY DEF ListInv
<1>3. \A i \in DOMAIN fetches' : fetches'[i] # Unserved => Served(fetches[i])'
  BY DEF Served
<1>4. /\ \A i \in DOMAIN eventStream' : Emitted(eventStream[i])'
      /\ \A i \in DOMAIN shown' : Emitted(shown[i])'
  BY DEF Emitted
<1>5. eventLink' = "open" /\ ~ gapKnown' => \A id \in Nat : Recent(id)' => Accounted(id)'
  BY DEF Recent
<1> QED
  BY <1>1, <1>2, <1>3, <1>4, <1>5 DEF ListInv

\* The server answers with the newest events.
LEMMA ServeEventsInv == ASSUME LogAssumption, ListInv, ServeEvents PROVE ListInv'
<1> DEFINE answer == Newest(buffer, Limit)
<1>1. PICK i \in DOMAIN fetches : fetches[i] = Unserved /\ fetches' = [fetches EXCEPT ![i] = answer]
  BY DEF ServeEvents
<1>2. UNCHANGED <<eventLink, eventStream, run, nextId, buffer, shown, gapKnown>>
  BY DEF ServeEvents, feedVars, logVars
<1>3. ListTypeOK
  BY DEF ListInv
<1>4. /\ run \in Nat /\ nextId \in Nat /\ nextId > 0 /\ Limit \in Nat /\ Limit > 0 /\ nextId - 1 \in Nat
  BY LogNumbers
<1>5. answer \in Seq(Events) /\ IsTail(answer, run, nextId - 1, Limit)
  BY <1>3, <1>4, BufferProperties DEF ListInv, ListTypeOK
<1>6. \A id \in Nat : Recent(id) => Has(answer, id)
  <2>1. \A id \in 1 .. nextId - 1 : id > nextId - 1 - Limit =>
           \E j \in DOMAIN answer : answer[j] = [run |-> run, id |-> id]
    <3>1. PICK n \in Nat : n = nextId - 1
      BY <1>4
    <3> HIDE DEF answer
    <3>2. IsTail(answer, run, n, Limit)
      BY <1>5, <3>1
    <3>3. \A id \in 1 .. n : id > n - Limit =>
             \E j \in DOMAIN answer : answer[j] = [run |-> run, id |-> id]
      BY <1>4, <1>5, <3>2, TailProperties
    <3> QED
      BY <3>1, <3>3
  <2> HIDE DEF answer
  <2>2. \A id \in Nat : Recent(id) => id \in 1 .. nextId - 1 /\ id > nextId - 1 - Limit
    BY <1>4 DEF Recent
  <2> QED
    BY <2>1, <2>2 DEF Has
<1>7. Served(answer)
  <2> HIDE DEF answer
  <2>1. run \in 0 .. run /\ nextId - 1 < nextId
    BY <1>4
  <2> QED
    BY <1>4, <1>5, <2>1 DEF Served
<1> HIDE DEF answer
<1>8. /\ fetches' \in Seq(Seq(Events) \cup {Unserved}) /\ DOMAIN fetches' = DOMAIN fetches
      /\ \A j \in DOMAIN fetches : fetches'[j] = IF j = i THEN answer ELSE fetches[j]
  <2>1. answer \in Seq(Events) \cup {Unserved} /\ i \in 1 .. Len(fetches)
        /\ fetches \in Seq(Seq(Events) \cup {Unserved})
    BY <1>3, <1>5, LenProperties DEF ListTypeOK
  <2>2. fetches' \in Seq(Seq(Events) \cup {Unserved})
    BY <1>1, <2>1, ExceptSeq
  <2> QED
    BY <1>1, <2>2
<1>9. \A j \in DOMAIN fetches' : fetches'[j] # Unserved => Served(fetches'[j])
  BY <1>7, <1>8 DEF ListInv
<1>10. ASSUME eventLink = "open", ~ gapKnown, NEW id \in Nat, Recent(id) PROVE Accounted(id)'
  <2>1. Accounted(id)
    BY <1>10 DEF ListInv
  <2>2. Pending(id) => Pending(id)'
    <3>1. Has(answer, id)
      BY <1>6, <1>10
    <3>2. ASSUME NEW k \in DOMAIN fetches, fetches[k] = Unserved \/ Has(fetches[k], id)
          PROVE  Pending(id)'
      <4>1. k \in DOMAIN fetches' /\ (fetches'[k] = Unserved \/ Has(fetches'[k], id))
        BY <1>8, <3>1, <3>2
      <4>2. fetches'[k] = Unserved \/ Has(fetches[k], id)'
        BY <1>2, <4>1 DEF Has
      <4> QED
        BY <4>1, <4>2 DEF Pending
    <3> QED
      BY <3>2 DEF Pending
  <2>3. Accounted(id) /\ ~ Pending(id) => Accounted(id)'
    BY <1>2 DEF Accounted, Has, Coming, OldAbove
  <2> QED
    BY <2>1, <2>2, <2>3 DEF Accounted
<1> QED
  BY <1>2, <1>3, <1>8, <1>9, <1>10, SameLog DEF ListInv, ListTypeOK, Climbing

\* A fetch is sent with every connect, so all events are pending.
LEMMA ListConnectInv == ASSUME LogAssumption, ListInv, ListConnect PROVE ListInv'
<1>1. /\ eventLink' = "open" /\ eventStream' = <<>> /\ gapKnown' = FALSE
      /\ fetches' = Append(fetches, Unserved)
      /\ UNCHANGED <<run, nextId, buffer, shown>>
  BY DEF ListConnect, Feed!Open, logVars
<1>2. ListTypeOK
  BY DEF ListInv
<1>3. <<>> \in Seq(Events) /\ \A i \in DOMAIN <<>> : FALSE
  BY EmptySeq, LenProperties
<1>4. PICK n \in Nat : n = Len(fetches) /\ DOMAIN fetches = 1 .. n
  BY <1>2, LenProperties DEF ListTypeOK
<1>5. /\ fetches' \in Seq(Seq(Events) \cup {Unserved}) /\ DOMAIN fetches' = 1 .. n + 1
      /\ fetches'[n + 1] = Unserved
      /\ \A i \in 1 .. n : fetches'[i] = fetches[i]
  <2>1. fetches \in Seq(Seq(Events) \cup {Unserved}) /\ Unserved \in Seq(Events) \cup {Unserved}
    BY <1>2 DEF ListTypeOK
  <2>2. /\ fetches' \in Seq(Seq(Events) \cup {Unserved}) /\ Len(fetches') = n + 1
        /\ fetches'[n + 1] = Unserved
        /\ \A i \in 1 .. n : fetches'[i] = fetches[i]
    <3> HIDE DEF Unserved
    <3> QED
      BY <1>1, <1>4, <2>1, AppendProperties
  <2> QED
    BY <2>2, LenProperties
<1>6. \A i \in DOMAIN fetches' : fetches'[i] # Unserved => Served(fetches'[i])
  <2>1. \A i \in 1 .. n + 1 : i \in 1 .. n \/ i = n + 1
    OBVIOUS
  <2> QED
    BY <1>4, <1>5, <2>1 DEF ListInv
<1>7. \A id \in Nat : Accounted(id)'
  <2>1. n + 1 \in DOMAIN fetches'
    BY <1>5
  <2> QED
    BY <1>5, <2>1 DEF Accounted, Pending
<1>8. shown' \in Seq(Events) /\ Climbing(shown)' /\ \A i \in DOMAIN shown' : Emitted(shown'[i])
  BY <1>1, <1>2 DEF ListInv, ListTypeOK, Climbing
<1> QED
  BY <1>1, <1>3, <1>5, <1>6, <1>7, <1>8, SameLog

\* Nothing is claimed while the link is down.
LEMMA LinkDownInv == ASSUME LogAssumption, ListInv, ListDisconnect \/ ListNoticeClose PROVE ListInv'
<1>1. UNCHANGED <<run, nextId, buffer, fetches, shown, gapKnown>> /\ eventLink' # "open"
  BY DEF ListDisconnect, ListNoticeClose, Feed!LoseLink, Feed!SeeClose, logVars, listVars
<1>2. ListTypeOK
  BY DEF ListInv
<1>3. PICK k \in Nat : k = Len(eventStream) /\ DOMAIN eventStream = 1 .. k
  BY <1>2, LenProperties DEF ListTypeOK
<1>4. eventStream' \in Seq(Events) /\ \A i \in DOMAIN eventStream' : Emitted(eventStream'[i])
  <2>1. CASE ListDisconnect
    <3>1. PICK n \in 0 .. k : eventStream' = SubSeq(eventStream, 1, n)
      BY <1>3, <2>1 DEF ListDisconnect, Feed!LoseLink
    <3>2. \A i \in 1 .. n : eventStream[i] \in Events /\ i \in 1 .. k
      BY <1>2, <1>3, ElementOfSeq DEF ListTypeOK
    <3>3. /\ eventStream' \in Seq(Events) /\ Len(eventStream') = IF 1 <= n THEN n - 1 + 1 ELSE 0
          /\ \A i \in 1 .. n - 1 + 1 : eventStream'[i] = eventStream[1 + i - 1]
      BY <1>3, <3>1, <3>2, SubSeqProperties
    <3>4. Len(eventStream') = n
      BY <1>3, <3>3
    <3>5. DOMAIN eventStream' = 1 .. n
      BY <3>3, <3>4, LenProperties
    <3>6. \A i \in 1 .. n : eventStream'[i] = eventStream[i]
      BY <1>3, <3>3
    <3> QED
      BY <1>3, <3>2, <3>3, <3>5, <3>6 DEF ListInv
  <2>2. CASE ListNoticeClose
    BY <1>2, <2>2 DEF ListNoticeClose, Feed!SeeClose, ListInv, ListTypeOK
  <2> QED
    BY <2>1, <2>2
<1> QED
  BY <1>1, <1>2, <1>4, SameLog DEF ListInv, ListTypeOK, Climbing

\* Nor after a fetch has failed.
LEMMA FetchFailsInv == ASSUME LogAssumption, ListInv, FetchFails PROVE ListInv'
<1>1. PICK i \in DOMAIN fetches : fetches' = Without(fetches, i)
  BY DEF FetchFails
<1>2. UNCHANGED <<eventLink, eventStream, run, nextId, buffer, shown>> /\ gapKnown' = TRUE
  BY DEF FetchFails, feedVars, logVars
<1>3. ListTypeOK
  BY DEF ListInv
<1>4. /\ fetches' \in Seq(Seq(Events) \cup {Unserved})
      /\ \A j \in DOMAIN fetches' : \E k \in DOMAIN fetches : fetches'[j] = fetches[k]
  BY <1>1, <1>3, WithoutProperties DEF ListTypeOK
<1>5. \A j \in DOMAIN fetches' : fetches'[j] # Unserved => Served(fetches'[j])
  BY <1>4 DEF ListInv
<1> QED
  BY <1>2, <1>3, <1>4, <1>5, SameLog DEF ListInv, ListTypeOK, Climbing

\* An answer takes no newer event off the list: up to its last id it has the events itself,
\* and the later ones stay.
LEMMA FetchArrivesInv == ASSUME LogAssumption, ListInv, FetchArrives PROVE ListInv'
<1>1. PICK i \in DOMAIN fetches : /\ fetches[i] # Unserved
                                  /\ shown' = Merged(fetches[i], shown)
                                  /\ fetches' = Without(fetches, i)
  BY DEF FetchArrives
<1>2. UNCHANGED <<eventLink, eventStream, run, nextId, buffer, gapKnown>>
  BY DEF FetchArrives, feedVars, logVars
<1>3. ListTypeOK
  BY DEF ListInv
<1>4. /\ run \in Nat /\ nextId \in Nat /\ nextId > 0 /\ Limit \in Nat /\ Limit > 0
  BY LogNumbers
<1> DEFINE answer == fetches[i]
<1>5. answer \in Seq(Events)
  BY <1>1, <1>3, LenProperties, ElementOfSeq DEF ListTypeOK
<1>6. PICK r \in 0 .. run, n \in Nat : IsTail(answer, r, n, Limit) /\ (r = run => n < nextId)
  BY <1>1 DEF ListInv, Served
<1> HIDE DEF answer
<1>7. /\ Climbing(answer) /\ TailId(answer) = n
      /\ \A j \in DOMAIN answer : answer[j].run = r /\ answer[j].id \in Nat /\ answer[j].id <= n
      /\ \A id \in 1 .. n : id > n - Limit => \E j \in DOMAIN answer : answer[j] = [run |-> r, id |-> id]
  <2>1. r \in Nat /\ n \in Nat /\ Limit \in Nat /\ IsTail(answer, r, n, Limit)
    BY <1>4, <1>6
  <2>2. /\ Climbing(answer)
        /\ Limit > 0 => TailId(answer) = n
        /\ \A j \in DOMAIN answer : answer[j].run = r /\ answer[j].id \in Nat /\ answer[j].id <= n
        /\ \A id \in 1 .. n : id > n - Limit => \E j \in DOMAIN answer : answer[j] = [run |-> r, id |-> id]
    BY <1>5, <2>1, TailProperties
  <2> QED
    BY <1>4, <2>2
<1>8. shown \in Seq(Events) /\ Climbing(shown) /\ \A j \in DOMAIN shown : Emitted(shown[j])
  BY <1>3 DEF ListInv, ListTypeOK
<1>9. PICK whole \in Seq(Events) :
         /\ Merged(answer, shown) = Newest(whole, Limit)
         /\ Climbing(whole)
         /\ \A k \in DOMAIN whole :
               \/ \E j \in DOMAIN answer : whole[k] = answer[j]
               \/ \E j \in DOMAIN shown : whole[k] = shown[j]
         /\ \A j \in DOMAIN answer : \E k \in DOMAIN whole : whole[k] = answer[j]
         /\ \A j \in DOMAIN shown : shown[j].id > TailId(answer) => \E k \in DOMAIN whole : whole[k] = shown[j]
  BY <1>5, <1>7, <1>8, MergedProperties
<1>10. \A j \in DOMAIN answer : Emitted(answer[j])
  BY <1>4, <1>6, <1>7 DEF Emitted
<1>11. \A k \in DOMAIN whole : Emitted(whole[k])
  BY <1>8, <1>9, <1>10
<1>12. shown' = Newest(whole, Limit)
  BY <1>1, <1>9 DEF answer
<1>13. /\ shown' \in Seq(Events) /\ Climbing(shown)'
       /\ \A k \in DOMAIN shown' : Emitted(shown[k])'
       /\ \A k \in DOMAIN shown' : \E j \in DOMAIN whole : shown'[k] = whole[j]
       /\ \A id \in Nat : Recent(id) /\ (Has(whole, id) \/ OldAbove(whole, id))
             => Has(shown, id)' \/ OldAbove(shown, id)'
  BY <1>2, <1>9, <1>11, <1>12, CutAccounts
<1>14. /\ fetches' \in Seq(Seq(Events) \cup {Unserved})
       /\ \A j \in DOMAIN fetches' : \E k \in DOMAIN fetches : fetches'[j] = fetches[k]
       /\ \A k \in DOMAIN fetches \ {i} : \E j \in DOMAIN fetches' : fetches'[j] = fetches[k]
  BY <1>1, <1>3, WithoutProperties DEF ListTypeOK
<1>15. \A j \in DOMAIN fetches' : fetches'[j] # Unserved => Served(fetches'[j])
  BY <1>14 DEF ListInv
<1>16. \A k \in DOMAIN shown' : Emitted(shown'[k])
  BY <1>2, <1>13 DEF Emitted
<1>17. ASSUME eventLink = "open", ~ gapKnown, NEW id \in Nat, Recent(id) PROVE Accounted(id)'
  <2>1. id >= 1 /\ id < nextId /\ id >= nextId - Limit
    BY <1>4, <1>17 DEF Recent
  <2>2. CASE id <= n
    <3>1. CASE r = run
      <4>1. id \in 1 .. n /\ id > n - Limit
        BY <1>4, <1>6, <2>1, <2>2, <3>1
      <4>2. PICK j \in DOMAIN answer : answer[j] = [run |-> run, id |-> id]
        BY <1>7, <3>1, <4>1
      <4>3. Has(whole, id)
        BY <1>9, <4>2 DEF Has
      <4> QED
        BY <1>13, <1>17, <4>3 DEF Accounted
    <3>2. CASE r # run
      <4>1. n \in 1 .. n /\ n > n - Limit
        BY <1>4, <2>1, <2>2
      <4>2. PICK j \in DOMAIN answer : answer[j] = [run |-> r, id |-> n]
        BY <1>7, <4>1
      <4>3. PICK k \in DOMAIN whole : whole[k] = [run |-> r, id |-> n]
        BY <1>9, <4>2
      <4>4. OldAbove(whole, id)
        BY <2>2, <3>2, <4>3 DEF OldAbove
      <4> QED
        BY <1>13, <1>17, <4>4 DEF Accounted
    <3> QED
      BY <3>1, <3>2
  <2>3. CASE id > n
    <3>1. Accounted(id)
      BY <1>17 DEF ListInv
    <3>2. CASE Has(shown, id)
      <4>1. PICK j \in DOMAIN shown : shown[j] = [run |-> run, id |-> id]
        BY <3>2 DEF Has
      <4>2. Has(whole, id)
        BY <1>7, <1>9, <2>3, <4>1 DEF Has
      <4> QED
        BY <1>13, <1>17, <4>2 DEF Accounted
    <3>3. CASE OldAbove(shown, id)
      <4>1. PICK j \in DOMAIN shown : shown[j].run # run /\ shown[j].id >= id
        BY <3>3 DEF OldAbove
      <4>2. shown[j].id \in Nat
        BY <1>8, EventFields
      <4>3. shown[j].id > TailId(answer)
        BY <1>7, <2>3, <4>1, <4>2
      <4>4. OldAbove(whole, id)
        BY <1>9, <4>1, <4>3 DEF OldAbove
      <4> QED
        BY <1>13, <1>17, <4>4 DEF Accounted
    <3>4. CASE Coming(id)
      <4>1. \A j \in DOMAIN answer : answer[j].id < id
        BY <1>7, <2>3
      <4>2. \A k \in DOMAIN whole : whole[k].run = run => whole[k].id < id
        BY <1>9, <3>4, <4>1 DEF Coming
      <4>3. Coming(id)'
        BY <1>2, <1>13, <3>4, <4>2 DEF Coming, Has
      <4> QED
        BY <4>3 DEF Accounted
    <3>5. CASE Pending(id)
      <4>1. PICK k \in DOMAIN fetches : fetches[k] = Unserved \/ Has(fetches[k], id)
        BY <3>5 DEF Pending
      <4>2. k # i
        <5>1. ~ Has(answer, id)
          <6> SUFFICES ASSUME NEW j \in DOMAIN answer, answer[j] = [run |-> run, id |-> id] PROVE FALSE
            BY DEF Has
          <6>1. answer[j].id = id /\ answer[j].id <= n
            BY <1>7
          <6> QED
            BY <2>3, <6>1
        <5> QED
          BY <1>1, <4>1, <5>1 DEF answer
      <4>3. PICK j \in DOMAIN fetches' : fetches'[j] = fetches[k]
        BY <1>14, <4>2
      <4>4. fetches'[j] = Unserved \/ Has(fetches[j], id)'
        BY <1>2, <4>1, <4>3 DEF Has
      <4> QED
        BY <4>4 DEF Accounted, Pending
    <3> QED
      BY <3>1, <3>2, <3>3, <3>4, <3>5 DEF Accounted
  <2> QED
    BY <2>1, <2>2, <2>3
<1> QED
  BY <1>2, <1>3, <1>13, <1>14, <1>15, <1>16, <1>17, SameLog DEF ListInv, ListTypeOK

\* An event taken for a duplicate is one, or is behind an event of a former run.
LEMMA OnEventInv == ASSUME LogAssumption, ListInv, OnEvent PROVE ListInv'
<1> DEFINE e == Head(eventStream)
           whole == Append(shown, e)
<1>1. /\ eventStream # <<>> /\ eventStream' = Tail(eventStream)
      /\ shown' = IF e.id <= TailId(shown) THEN shown ELSE Newest(whole, Limit)
      /\ UNCHANGED <<eventLink, run, nextId, buffer, fetches, gapKnown>>
  BY DEF OnEvent, Feed!Take, logVars
<1>2. ListTypeOK
  BY DEF ListInv
<1>3. /\ run \in Nat /\ nextId \in Nat /\ nextId > 0 /\ Limit \in Nat /\ Limit > 0
  BY LogNumbers
<1>4. PICK k \in Nat : k = Len(eventStream) /\ DOMAIN eventStream = 1 .. k
  BY <1>2, LenProperties DEF ListTypeOK
<1>5. PICK m \in Nat : m = Len(shown) /\ DOMAIN shown = 1 .. m
  BY <1>2, LenProperties DEF ListTypeOK
<1>6. /\ k >= 1 /\ e = eventStream[1] /\ e \in Events
      /\ eventStream' \in Seq(Events) /\ Len(eventStream') = k - 1 /\ DOMAIN eventStream' = 1 .. k - 1
      /\ \A i \in 1 .. k - 1 : eventStream'[i] = eventStream[i + 1]
  <2>1. k >= 1 /\ e = eventStream[1] /\ e \in Events
    BY <1>1, <1>2, <1>4, EmptySeq, HeadTailProperties DEF ListTypeOK
  <2>2. eventStream' \in Seq(Events) /\ Len(eventStream') = k - 1
        /\ \A i \in 1 .. k - 1 : eventStream'[i] = eventStream[i + 1]
    BY <1>1, <1>2, <1>4, EmptySeq, HeadTailProperties DEF ListTypeOK
  <2> QED
    BY <2>1, <2>2, LenProperties
<1>7. /\ e.id \in Nat /\ e.run \in Nat /\ Emitted(e)
      /\ \A i \in 1 .. m : shown[i].id \in Nat /\ Emitted(shown[i])
  <2>1. e = eventStream[1] /\ 1 \in DOMAIN eventStream
    BY <1>4, <1>6
  <2>2. e.id \in Nat /\ e.run \in Nat
    BY <1>2, <2>1, EventFields DEF ListTypeOK
  <2>3. \A i \in 1 .. m : shown[i].id \in Nat
    BY <1>2, <1>5, EventFields DEF ListTypeOK
  <2> HIDE DEF e
  <2> QED
    BY <1>5, <2>1, <2>2, <2>3 DEF ListInv
<1> HIDE DEF e
<1>8. /\ whole \in Seq(Events) /\ DOMAIN whole = 1 .. m + 1
      /\ \A i \in 1 .. m : whole[i] = shown[i]
      /\ whole[m + 1] = e
  <2>1. /\ whole \in Seq(Events) /\ Len(whole) = m + 1
        /\ \A i \in 1 .. m : whole[i] = shown[i]
        /\ whole[m + 1] = e
    BY <1>2, <1>5, <1>6, AppendProperties DEF ListTypeOK
  <2> HIDE DEF whole
  <2> QED
    BY <2>1, LenProperties
<1>9. TailId(shown) = IF m = 0 THEN 0 ELSE shown[m].id
  BY <1>2, <1>5, EmptySeq DEF TailId, ListTypeOK
<1> HIDE DEF whole
<1>10. ASSUME e.id > TailId(shown)
       PROVE  /\ shown' \in Seq(Events) /\ Climbing(shown)'
              /\ \A i \in DOMAIN shown' : Emitted(shown[i])'
              /\ \A i \in DOMAIN shown' : \E j \in DOMAIN whole : shown'[i] = whole[j]
              /\ \A id \in Nat : Recent(id) /\ (Has(whole, id) \/ OldAbove(whole, id))
                    => Has(shown, id)' \/ OldAbove(shown, id)'
  <2>1. TailId(shown) \in Nat
    BY <1>5, <1>7, <1>9
  <2>2. shown' = Newest(whole, Limit)
    BY <1>1, <1>7, <1>10, <2>1
  <2>3. ASSUME NEW i \in 1 .. m PROVE TailId(shown) >= shown[i].id + (m - i)
    <3>1. TailId(shown) = shown[m].id /\ m \in 1 .. m /\ shown[i].id \in Nat /\ shown[m].id \in Nat
      BY <1>5, <1>7, <1>9
    <3>2. i < m => shown[m].id - shown[i].id >= m - i
      BY <1>5, <3>1 DEF ListInv, Climbing
    <3> QED
      BY <1>5, <3>1, <3>2
  <2>4. Climbing(whole)
    <3> SUFFICES ASSUME NEW i \in 1 .. m + 1, NEW j \in 1 .. m + 1, i < j
                 PROVE  whole[j].id - whole[i].id >= j - i
      BY <1>8 DEF Climbing
    <3>1. CASE j = m + 1
      <4>1. i \in 1 .. m /\ whole[i] = shown[i] /\ whole[j] = e
        BY <1>5, <1>8, <3>1
      <4>2. TailId(shown) >= shown[i].id + (m - i) /\ shown[i].id \in Nat
        BY <1>7, <2>3, <4>1
      <4> QED
        BY <1>5, <1>7, <1>10, <2>1, <3>1, <4>1, <4>2
    <3>2. CASE j \in 1 .. m
      <4>1. i \in 1 .. m /\ whole[i] = shown[i] /\ whole[j] = shown[j]
        BY <1>5, <1>8, <3>2
      <4> QED
        BY <1>5, <3>2, <4>1 DEF ListInv, Climbing
    <3> QED
      BY <1>5, <3>1, <3>2
  <2>5. \A i \in DOMAIN whole : Emitted(whole[i])
    <3>1. \A i \in DOMAIN whole : i \in 1 .. m \/ i = m + 1
      BY <1>5, <1>8
    <3> QED
      BY <1>7, <1>8, <3>1
  <2> QED
    BY <1>1, <1>8, <2>2, <2>4, <2>5, CutAccounts
<1>11. shown' \in Seq(Events) /\ Climbing(shown)' /\ \A i \in DOMAIN shown' : Emitted(shown'[i])
  <2>1. CASE e.id > TailId(shown)
    <3>1. \A i \in DOMAIN shown' : Emitted(shown[i])'
      BY <1>10, <2>1
    <3>2. \A i \in DOMAIN shown' : Emitted(shown'[i])
      BY <1>1, <3>1 DEF Emitted
    <3> QED
      BY <1>10, <2>1, <3>2
  <2>2. CASE e.id <= TailId(shown)
    BY <1>1, <1>2, <2>2 DEF ListInv, ListTypeOK, Climbing
  <2> QED
    BY <1>5, <1>7, <1>9, <2>1, <2>2
<1>12. \A i \in DOMAIN eventStream' : Emitted(eventStream'[i])
  <2>1. \A i \in 1 .. k - 1 : i + 1 \in 1 .. k
    BY <1>4
  <2> QED
    BY <1>4, <1>6, <2>1 DEF ListInv
<1>13. ASSUME eventLink' = "open"
       PROVE  \A i \in DOMAIN eventStream' :
                 eventStream'[i] = [run |-> run, id |-> nextId - 1 - Len(eventStream') + i]
  <2> SUFFICES ASSUME NEW i \in 1 .. k - 1
               PROVE  eventStream'[i] = [run |-> run, id |-> nextId - 1 - (k - 1) + i]
    BY <1>6
  <2>1. eventStream'[i] = eventStream[i + 1] /\ i + 1 \in 1 .. k
    BY <1>4, <1>6
  <2>2. eventStream[i + 1] = [run |-> run, id |-> nextId - 1 - k + (i + 1)]
    BY <1>1, <1>4, <1>13, <2>1 DEF ListInv
  <2>3. nextId - 1 - k + (i + 1) = nextId - 1 - (k - 1) + i
    BY <1>3, <1>4
  <2> QED
    BY <2>1, <2>2, <2>3
<1>14. ASSUME eventLink' = "open", ~ gapKnown', NEW id \in Nat, Recent(id) PROVE Accounted(id)'
  <2>1. Accounted(id)
    BY <1>1, <1>14 DEF ListInv
  <2>2. Pending(id) => Pending(id)'
    BY <1>1 DEF Pending, Has
  <2>3. ASSUME Has(shown, id) \/ OldAbove(shown, id) PROVE Accounted(id)'
    <3>1. CASE e.id > TailId(shown)
      <4>1. Has(whole, id) \/ OldAbove(whole, id)
        <5>1. \A i \in DOMAIN shown : i \in DOMAIN whole /\ whole[i] = shown[i]
          BY <1>5, <1>8
        <5> QED
          BY <2>3, <5>1 DEF Has, OldAbove
      <4> QED
        BY <1>10, <1>14, <3>1, <4>1 DEF Accounted
    <3>2. CASE e.id <= TailId(shown)
      BY <1>1, <2>3, <3>2 DEF Accounted, Has, OldAbove
    <3> QED
      BY <1>5, <1>7, <1>9, <3>1, <3>2
  <2>4. ASSUME Coming(id) PROVE Accounted(id)'
    <3>1. PICK j \in 1 .. k : eventStream[j] = [run |-> run, id |-> id]
      BY <1>4, <2>4 DEF Coming, Has
    <3>2. \A i \in 1 .. m : shown[i].run = run => shown[i].id < id
      BY <1>5, <2>4 DEF Coming
    <3>3. \A i \in 1 .. k : eventStream[i] = [run |-> run, id |-> nextId - 1 - k + i]
      BY <1>1, <1>4, <1>14 DEF ListInv
    <3>4. CASE j = 1
      <4>1. e = [run |-> run, id |-> id]
        BY <1>6, <3>1, <3>4
      <4>2. CASE e.id > TailId(shown)
        <5>1. m + 1 \in DOMAIN whole
          BY <1>5, <1>8
        <5>2. Has(whole, id)
          BY <1>8, <4>1, <5>1 DEF Has
        <5> QED
          BY <1>10, <1>14, <4>2, <5>2 DEF Accounted
      <4>3. CASE e.id <= TailId(shown)
        <5>1. id >= 1 /\ e.id = id
          BY <1>3, <1>14, <4>1 DEF Recent
        <5>2. m \in 1 .. m /\ shown[m].id >= id
          BY <1>5, <1>9, <4>3, <5>1
        <5>3. shown[m].run # run
          BY <1>7, <3>2, <5>2
        <5>4. OldAbove(shown, id)'
          BY <1>1, <1>5, <4>3, <5>2, <5>3 DEF OldAbove
        <5> QED
          BY <5>4 DEF Accounted
      <4> QED
        BY <1>5, <1>7, <1>9, <4>2, <4>3
    <3>5. CASE j > 1
      <4>1. j - 1 \in 1 .. k - 1 /\ j - 1 + 1 = j
        BY <1>4, <3>5
      <4>2. Has(eventStream, id)'
        BY <1>1, <1>6, <3>1, <4>1 DEF Has
      <4>3. e.id < id
        <5>1. [run |-> run, id |-> nextId - 1 - k + j] = [run |-> run, id |-> id]
          BY <3>1, <3>3
        <5>2. nextId - 1 - k + j = id
          BY <5>1
        <5>3. e = [run |-> run, id |-> nextId - 1 - k + 1]
          BY <1>4, <1>6, <3>3
        <5>4. e.id = nextId - 1 - k + 1
          BY <5>3
        <5> QED
          BY <1>3, <1>4, <3>5, <5>2, <5>4
      <4>4. \A i \in DOMAIN shown' : shown'[i].run = run' => shown'[i].id < id
        <5>1. CASE e.id > TailId(shown)
          <6>1. \A i \in DOMAIN whole : whole[i].run = run => whole[i].id < id
            <7>1. \A i \in DOMAIN whole : i \in 1 .. m \/ i = m + 1
              BY <1>5, <1>8
            <7> QED
              BY <1>8, <3>2, <4>3, <7>1
          <6> QED
            BY <1>1, <1>10, <5>1, <6>1
        <5>2. CASE e.id <= TailId(shown)
          BY <1>1, <1>5, <3>2, <5>2
        <5> QED
          BY <1>5, <1>7, <1>9, <5>1, <5>2
      <4> QED
        BY <4>2, <4>4 DEF Accounted, Coming
    <3> QED
      BY <3>4, <3>5
  <2> QED
    BY <2>1, <2>2, <2>3, <2>4 DEF Accounted
<1>15. /\ fetches' \in Seq(Seq(Events) \cup {Unserved}) /\ gapKnown' \in BOOLEAN
       /\ \A i \in DOMAIN fetches' : fetches'[i] # Unserved => Served(fetches'[i])
  BY <1>1, <1>2 DEF ListInv, ListTypeOK
<1> QED
  BY <1>1, <1>6, <1>11, <1>12, <1>13, <1>14, <1>15, SameLog

\* Nothing changes.
LEMMA LogStutterInv == ASSUME LogAssumption, ListInv, UNCHANGED eventVars PROVE ListInv'
<1>1. UNCHANGED <<eventLink, eventStream, run, nextId, buffer, fetches, shown, gapKnown>>
  BY DEF eventVars, feedVars, logVars, listVars
<1>2. \A id : Accounted(id) => Accounted(id)'
  BY <1>1 DEF Accounted, Has, Coming, Pending, OldAbove
<1> QED
  BY <1>1, <1>2, SameLog DEF ListInv, ListTypeOK, Climbing

\* The invariant of the console's list holds of the event log.
THEOREM ListInvariant == LogSpec => []ListInv
<1>1. LogInit => ListInv
  BY LogInitInv, LogAssumption
<1>2. ListInv /\ [LogNext]_eventVars => ListInv'
  BY LogAssumption, AddInv, RestartInv, ServeEventsInv, ListConnectInv, LinkDownInv, FetchArrivesInv,
     FetchFailsInv, OnEventInv, LogStutterInv DEF LogNext
<1> QED
  BY <1>1, <1>2, PTL DEF LogSpec

\* The list has the events of every run of the server in order and none twice, however its
\* fetches and the stream interleave (events.ts:20-28, 41-48).
THEOREM ListInOrder == LogSpec => []OrderedPerRun
<1>1. ListInv => OrderedPerRun
  <2> SUFFICES ASSUME ListInv, NEW i \in DOMAIN shown, NEW j \in DOMAIN shown, i < j
               PROVE  shown[i].id < shown[j].id
    BY DEF OrderedPerRun
  <2>1. i \in Nat /\ j \in Nat /\ shown[i].id \in Nat /\ shown[j].id \in Nat
    BY LogAssumption, EventFields DEF ListInv, ListTypeOK
  <2>2. shown[j].id - shown[i].id >= j - i
    BY DEF ListInv, Climbing
  <2> QED
    BY <2>1, <2>2
<1> QED
  BY <1>1, ListInvariant, PTL

\* Once the list has settled, every event it has room for is in it or in flight to it: no
\* answer, however late, takes a newer event off it, and nothing is lost with a connection.
THEOREM NoEventForgotten == LogSpec => []GapsArePending
<1>1. ListInv => GapsArePending
  <2> SUFFICES ASSUME ListInv, eventLink = "open", OneRun, fetches = <<>>, ~ gapKnown,
                      NEW id \in 1 .. nextId - 1, id >= nextId - Limit
               PROVE  Has(shown, id) \/ Has(eventStream, id)
    BY DEF GapsArePending
  <2>1. id \in Nat /\ Recent(id)
    BY DEF Recent
  <2>2. Accounted(id)
    BY <2>1 DEF ListInv
  <2>3. ~ Pending(id)
    BY EmptySeq DEF Pending
  <2>4. ~ OldAbove(shown, id)
    BY DEF OldAbove, OneRun
  <2> QED
    BY <2>2, <2>3, <2>4 DEF Accounted, Coming
<1> QED
  BY <1>1, ListInvariant, PTL
=============================================================================
