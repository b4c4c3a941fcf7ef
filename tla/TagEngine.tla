----------------------------- MODULE TagEngine -----------------------------
(***************************************************************************)
(* The in-memory tag engine (packages/core/src/tag-engine.ts): the live    *)
(* value of every configured tag, scaling and deadband, the index from     *)
(* devices to tags, and the change and write events it emits.              *)
(*                                                                         *)
(* Every method runs to completion and EventEmitter listeners run inside   *)
(* the call that emits, so one call is one step, and `events` holds what   *)
(* that call handed to the listeners.  No listener of the server calls a   *)
(* mutating method of the engine, so a call is never re-entered.           *)
(***************************************************************************)
EXTENDS Scaling

CONSTANTS
    Tags,           \* tag ids
    Devices,        \* device ids
    Configs,        \* the tag configurations an operator may save
    RawValues,      \* what a driver may deliver
    Errors,         \* driver error messages
    NoError,        \* the error field left undefined
    Absent,         \* no entry under this tag id
    MaxDeadband     \* upper bound on the deadband of every configuration

ConfigSpace == [device : Devices, ro : BOOLEAN, deadband : Nat,
                scaling : Scalings, dataType : DataTypes]

ASSUME ConfigAssumption ==
    /\ MaxDeadband \in Nat
    /\ Configs \subseteq ConfigSpace
    /\ \A c \in Configs : c.deadband <= MaxDeadband

ASSUME InputAssumption ==
    /\ RawValues \subseteq Primitives
    /\ NoError \notin Errors

Qualities == {"good", "uncertain", "bad"}
Values == Primitives \cup {NULL}
TagValues == [value : Values, quality : Qualities, error : Errors \cup {NoError}]
RuntimeTags == [config : Configs, current : TagValues,
                reportedValue : Values, reportedQuality : Qualities]
ChangeEvents == [type : {"change"}, tag : Tags, data : TagValues]
WriteEvents  == [type : {"write"}, tag : Tags, value : Primitives]

\* What the index and the ghost store for an id without a runtime tag.
ASSUME AbsentAssumption ==
    Absent \notin RuntimeTags /\ Absent \notin TagValues /\ Absent \notin Configs

VARIABLES
    tags,       \* tag id -> runtime tag, or Absent
    byDevice,   \* device id -> its tag ids ({} when the map has no entry)
    events,     \* the events the last call emitted
    seen        \* ghost: what a client knows that read each tag once, when the
                \* tag appeared or later, and has applied every change event since

vars == <<tags, byDevice, events, seen>>

-----------------------------------------------------------------------------
(* Pure parts of the methods. *)

Known == {t \in Tags : tags[t] # Absent}

\* Math.abs(next - prev) <= deadband; a comparison with NaN is false.
WithinDeadband(config, prev, next) ==
    IF prev \in Numbers /\ next \in Numbers
      THEN /\ prev # NaN /\ next # NaN
           /\ next - prev <= config.deadband
           /\ prev - next <= config.deadband
      ELSE prev = next

NoData == [value |-> NULL, quality |-> "bad", error |-> NoError]

Fresh(config) ==
    [config |-> config, current |-> NoData,
     reportedValue |-> NULL, reportedQuality |-> "bad"]

\* Fault: load() starts every entry afresh.
LoadedAfresh(old, configs) ==
    [t \in Tags |-> IF configs[t] = Absent THEN Absent ELSE Fresh(configs[t])]

\* The map load() builds; an entry kept by id only has its config replaced.
Loaded(old, configs) ==
    [t \in Tags |->
        IF configs[t] = Absent THEN Absent
        ELSE IF old[t] = Absent THEN Fresh(configs[t])
        ELSE [old[t] EXCEPT !.config = configs[t]]]

\* Fault: load() forgets byDevice.clear().
IndexedOnTop(configs) ==
    [d \in Devices |->
        byDevice[d] \cup {t \in Tags : configs[t] # Absent /\ configs[t].device = d}]

\* index() called for every loaded configuration, after byDevice.clear().
Indexed(configs) ==
    [d \in Devices |-> {t \in Tags : configs[t] # Absent /\ configs[t].device = d}]

ConfigsOf(map) == [t \in Tags |-> IF map[t] = Absent THEN Absent ELSE map[t].config]

\* Fault: only a change of the value is reported.
UpdateReportsValues(rt, value, quality) ==
    ~ WithinDeadband(rt.config, rt.reportedValue, value) \/ rt.current.error # NoError

\* Fault: the deadband is measured from the last value, reported or not.
UpdateReportsSteps(rt, value, quality) ==
    \/ rt.reportedQuality # quality
    \/ ~ WithinDeadband(rt.config, rt.current.value, value)
    \/ rt.current.error # NoError

\* updateRaw on one runtime tag: the new entry, and whether it reports.
UpdateReports(rt, value, quality) ==
    \/ rt.reportedQuality # quality
    \/ ~ WithinDeadband(rt.config, rt.reportedValue, value)
    \/ rt.current.error # NoError

Updated(rt, value, quality) ==
    LET current == [value |-> value, quality |-> quality, error |-> NoError]
    IN  IF UpdateReports(rt, value, quality)
          THEN [rt EXCEPT !.current = current,
                          !.reportedValue = value, !.reportedQuality = quality]
          ELSE [rt EXCEPT !.current = current]

\* setQuality on one runtime tag.
QualityReports(rt, quality, error) ==
    ~ (rt.reportedQuality = quality /\ rt.current.error = error)

Requalified(rt, quality, error) ==
    IF QualityReports(rt, quality, error)
      THEN [rt EXCEPT !.current.quality = quality, !.current.error = error,
                      !.reportedQuality = quality,
                      !.reportedValue = rt.current.value]
      ELSE rt

Change(t, data) == [type |-> "change", tag |-> t, data |-> data]

\* A client that follows the stream applies what the call emitted to the tags
\* that are still there, and reads a tag that has just appeared.
Follow(map) ==
    [t \in Tags |->
        IF map[t] = Absent THEN Absent
        ELSE IF tags[t] = Absent \/ \E e \in events' : e.type = "change" /\ e.tag = t
          THEN map[t].current
        ELSE seen[t]]

-----------------------------------------------------------------------------
(* The methods. *)

Init ==
    /\ tags = [t \in Tags |-> Absent]
    /\ byDevice = [d \in Devices |-> {}]
    /\ events = {}
    /\ seen = [t \in Tags |-> Absent]

Load(configs) ==
    /\ tags' = Loaded(tags, configs)
    /\ byDevice' = Indexed(configs)
    /\ events' = {}
    /\ seen' = Follow(tags')

UpsertTag(t, config) == Load([ConfigsOf(tags) EXCEPT ![t] = config])

RemoveTag(t) ==
    /\ tags' = [tags EXCEPT ![t] = Absent]
    /\ byDevice' = IF tags[t] = Absent THEN byDevice
                   ELSE [byDevice EXCEPT ![tags[t].config.device] = @ \ {t}]
    /\ events' = {}
    /\ seen' = Follow(tags')

UpdateRaw(t, raw, quality) ==
    /\ tags[t] # Absent
    /\ LET value == IF raw = NULL THEN NULL ELSE ProcessValue(tags[t].config, raw)
       IN  /\ tags' = [tags EXCEPT ![t] = Updated(@, value, quality)]
           /\ events' = IF UpdateReports(tags[t], value, quality)
                          THEN {Change(t, tags'[t].current)} ELSE {}
    /\ seen' = Follow(tags')
    /\ UNCHANGED byDevice

\* setQuality called for each tag of ids, ids without an entry being skipped.
MarkQuality(ids, quality, error) ==
    /\ tags' = [t \in Tags |->
                  IF t \in ids /\ tags[t] # Absent
                    THEN Requalified(tags[t], quality, error) ELSE tags[t]]
    /\ events' = {Change(t, tags'[t].current) :
                    t \in {u \in ids : /\ tags[u] # Absent
                                       /\ QualityReports(tags[u], quality, error)}}
    /\ seen' = Follow(tags')
    /\ UNCHANGED byDevice

SetQuality(t, quality, error) == tags[t] # Absent /\ MarkQuality({t}, quality, error)

SetQualityForDevice(d, quality, error) == MarkQuality(byDevice[d], quality, error)

\* Unknown and read-only tags throw: nothing changes and nothing is emitted.
Write(t, value) ==
    /\ tags[t] # Absent
    /\ ~ tags[t].config.ro
    /\ events' = {[type |-> "write", tag |-> t, value |-> value]}
    /\ UNCHANGED <<tags, byDevice, seen>>

\* getAllValues: a client (re)connects and starts from the current values.
Snapshot ==
    /\ seen' = [t \in Tags |-> IF tags[t] = Absent THEN Absent ELSE tags[t].current]
    /\ events' = {}
    /\ UNCHANGED <<tags, byDevice>>

\* What the drivers call: good values, and bad or uncertain marks.
DriverStep ==
    \E t \in Tags :
        \/ \E raw \in RawValues : UpdateRaw(t, raw, "good")
        \/ \E q \in {"bad", "uncertain"}, e \in Errors \cup {NoError} : SetQuality(t, q, e)

ConfigStep ==
    \/ \E configs \in [Tags -> Configs \cup {Absent}] : Load(configs)
    \/ \E t \in Tags, c \in Configs : UpsertTag(t, c)
    \/ \E t \in Tags : RemoveTag(t)

Next ==
    \/ ConfigStep
    \/ DriverStep
    \/ \E d \in Devices, e \in Errors : SetQualityForDevice(d, "bad", e)
    \/ \E t \in Tags, raw \in RawValues : Write(t, raw)
    \/ Snapshot

Spec == Init /\ [][Next]_vars

-----------------------------------------------------------------------------
(* Properties. *)

\* Every component of the state has the shape the TypeScript declares.
TypeOK ==
    /\ tags \in [Tags -> RuntimeTags \cup {Absent}]
    /\ byDevice \in [Devices -> SUBSET Tags]
    /\ events \subseteq ChangeEvents \cup WriteEvents
    /\ seen \in [Tags -> TagValues \cup {Absent}]

\* The device index and the tag map never drift apart: a device-wide quality
\* mark reaches exactly the tags now configured on the device, whatever moves,
\* removals and reloads went before (tag-engine.ts:43-67, 70-98).
IndexConsistent ==
    \A d \in Devices :
        byDevice[d] = {t \in Tags : tags[t] # Absent /\ tags[t].config.device = d}

\* Two values no further apart than tolerance, or the same value.
Near(a, b, tolerance) ==
    \/ a = b
    \/ a \in Int /\ b \in Int /\ a - b <= tolerance /\ b - a <= tolerance

\* A client that took a snapshot at any moment and then only applied change
\* events shows every tag with its true quality and error, and with a value
\* within twice the deadband.  One deadband is not enough: the snapshot holds
\* the current value, the filter compares with the reported one
\* (tag-engine.ts:129-142; ws.ts:48-56).
ClientInStep ==
    \A t \in Tags :
        /\ tags[t] = Absent <=> seen[t] = Absent
        /\ tags[t] # Absent =>
             /\ seen[t].quality = tags[t].current.quality
             /\ seen[t].error = tags[t].current.error
             /\ Near(seen[t].value, tags[t].current.value, 2 * MaxDeadband)

\* The reported quality is the current one, and the values a client holds and
\* the engine holds are each within one deadband of the reported value: what
\* makes ClientInStep inductive (tag-engine.ts:26-32, 134-154).
ReportedInStep ==
    \A t \in Known :
        /\ tags[t].reportedQuality = tags[t].current.quality
        /\ Near(tags[t].current.value, tags[t].reportedValue, MaxDeadband)
        /\ Near(seen[t].value, tags[t].reportedValue, MaxDeadband)

\* An error message is only ever shown next to a quality that is not good: no
\* order of updates, marks and reloads leaves a stale one (types.ts:14-15).
ErrorOnlyWhenNotGood ==
    \A t \in Known : tags[t].current.error # NoError => tags[t].current.quality # "good"

\* The inductive invariant.
EngineInv ==
    /\ TypeOK
    /\ IndexConsistent
    /\ ClientInStep
    /\ ReportedInStep
    /\ ErrorOnlyWhenNotGood

\* Slow drift is reported: no update leaves the current value further from
\* the reported one than the deadband in force, however many small steps led
\* there and whatever reload changed the deadband (tag-engine.ts:129-133).
DriftReported ==
    [][\A t \in Tags :
         tags[t] # Absent /\ tags'[t] # Absent /\ tags'[t].current # tags[t].current
         => Near(tags'[t].reportedValue, tags'[t].current.value, tags[t].config.deadband)]_vars

\* What the engine promises, with the deadband filter hidden.
Current == [t \in Tags |-> IF tags[t] = Absent THEN Absent ELSE tags[t].current]

View == INSTANCE TagView WITH current <- Current, Tolerance <- 2 * MaxDeadband

\* The engine implements TagView: no call changes the quality, the error or
\* the type of a value, or moves a number by more than the filter allows,
\* behind its clients' backs (tag-engine.ts:70-162).
ImplementsView == View!ViewSpec
=============================================================================
