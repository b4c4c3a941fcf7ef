-------------------------- MODULE TagEngineProofs --------------------------
(***************************************************************************)
(* The invariants of TagEngine for every set of tags, devices and          *)
(* configurations and every deadband.  One lemma per runtime-tag           *)
(* operation, one per method, then the induction.                          *)
(***************************************************************************)
EXTENDS TagEngine, FiniteSetTheorems, TLAPS

-----------------------------------------------------------------------------
(* The value pipeline. *)

\* The integer square root is a natural number.
LEMMA SquareRootType ==
    ASSUME NEW x \in Int
    PROVE  SquareRoot(x) \in Nat
<1> DEFINE roots == {n \in 1 .. x : n * n <= x}
<1>1. IsFiniteSet(1 .. x)
  BY FS_Interval
<1>2. IsFiniteSet(roots)
  BY <1>1, FS_Subset
<1>3. Cardinality(roots) \in Nat
  BY <1>2, FS_CardinalityType
<1> QED
  BY <1>3 DEF SquareRoot

\* Scaling a number gives a number.
LEMMA ApplyScalingType ==
    ASSUME NEW raw \in Numbers, NEW s \in Scalings
    PROVE  ApplyScaling(raw, s) \in Numbers
<1> USE ValueAssumption
<1> DEFINE span == s.rawMax - s.rawMin
           num  == IF span < 0 THEN s.rawMin - raw ELSE raw - s.rawMin
           den  == IF span < 0 THEN -span ELSE span
           v    == Clamp(s, s.engMin + Interpolate(s, num, den))
<1>1. /\ s.rawMin \in Int /\ s.rawMax \in Int
      /\ s.engMin \in Int /\ s.engMax \in Int
  BY DEF Scalings
<1>2. CASE ~ s.enabled \/ span = 0 \/ raw = NaN
  BY <1>1, <1>2 DEF ApplyScaling, Numbers
<1>3. CASE s.enabled /\ span # 0 /\ raw # NaN
  <2>1. num \in Int /\ den \in Int /\ den > 0
    BY <1>1, <1>3 DEF Numbers
  <2> HIDE DEF num, den
  <2> DEFINE x == (AtLeast(0, num) * (s.engMax - s.engMin) * (s.engMax - s.engMin)) \div den
  <2>2. (AtLeast(0, num) * (s.engMax - s.engMin) * (s.engMax - s.engMin)) \in Int
    BY <1>1, <2>1 DEF AtLeast
  <2>3. x \in Int
    BY <2>1, <2>2
  <2>4. SquareRoot(x) \in Nat
    BY <2>3, SquareRootType
  <2>5. (num * (s.engMax - s.engMin)) \div den \in Int
    <3>1. num * (s.engMax - s.engMin) \in Int
      BY <1>1, <2>1
    <3> QED BY <3>1, <2>1
  <2> HIDE DEF x
  <2>6. Interpolate(s, num, den) \in Int
    BY <2>4, <2>5, <1>1 DEF Interpolate, x
  <2>7. v \in Int
    BY <2>6, <1>1 DEF Clamp, AtLeast, AtMost
  <2>8. ApplyScaling(raw, s) = IF s.negate THEN -v ELSE v
    BY <1>3 DEF ApplyScaling, num, den
  <2> QED
    BY <2>7, <2>8 DEF Numbers
<1> QED
  BY <1>2, <1>3

\* Processing a raw value gives a primitive.
LEMMA ProcessValueType ==
    ASSUME NEW config \in ConfigSpace, NEW raw \in Primitives
    PROVE  ProcessValue(config, raw) \in Primitives
<1> DEFINE v == ApplyScaling(raw, config.scaling)
<1>1. CASE raw \in Numbers
  <2>1. v \in Numbers
    BY <1>1, ApplyScalingType DEF ConfigSpace
  <2> HIDE DEF v
  <2>2. CoerceToType(v, config.dataType) \in Numbers
    <3>1. CASE v = NaN
      BY <3>1, <2>1 DEF CoerceToType
    <3>2. CASE v # NaN
      <4> DEFINE step == Resolution(config.dataType)
      <4>1. v \in Int
        BY <2>1, <3>2 DEF Numbers
      <4>2. step \in Nat \ {0}
        BY UnitAssumption DEF Resolution
      <4> HIDE DEF step
      <4>3. (2 * v + step) \div (2 * step) \in Int
        BY <4>1, <4>2
      <4>4. RoundTo(v, step) \in Int
        BY <4>2, <4>3 DEF RoundTo
      <4> QED
        BY <4>4, <3>2 DEF CoerceToType, Numbers, step
    <3> QED BY <3>1, <3>2
  <2> QED
    BY <1>1, <2>2 DEF ProcessValue, Primitives, v
<1>2. CASE raw \notin Numbers
  BY <1>2 DEF ProcessValue
<1> QED
  BY <1>1, <1>2

-----------------------------------------------------------------------------
(* One runtime tag. *)

\* A runtime tag and what a client knows of it agree: the body of
\* ClientInStep, ReportedInStep and ErrorOnlyWhenNotGood for one tag.
InStep(rt, s) ==
    /\ s.quality = rt.current.quality
    /\ s.error = rt.current.error
    /\ Near(s.value, rt.current.value, 2 * MaxDeadband)
    /\ rt.reportedQuality = rt.current.quality
    /\ Near(rt.current.value, rt.reportedValue, MaxDeadband)
    /\ Near(s.value, rt.reportedValue, MaxDeadband)
    /\ rt.current.error # NoError => rt.current.quality # "good"

\* Two values near a third are twice as near to each other.
LEMMA NearTriangle ==
    ASSUME NEW a, NEW b, NEW c,
           Near(a, c, MaxDeadband), Near(b, c, MaxDeadband)
    PROVE  Near(a, b, 2 * MaxDeadband)
<1>1. MaxDeadband \in Nat
  BY ConfigAssumption
<1> QED
  BY <1>1 DEF Near

\* What passes the deadband filter unreported is near the reported value.
LEMMA WithinDeadbandNear ==
    ASSUME NEW c \in Configs, NEW prev \in Values, NEW next \in Values,
           WithinDeadband(c, prev, next)
    PROVE  Near(next, prev, MaxDeadband)
<1>1. MaxDeadband \in Nat /\ c.deadband \in Nat /\ c.deadband <= MaxDeadband
  BY ConfigAssumption DEF ConfigSpace
<1> QED
  BY <1>1 DEF WithinDeadband, Near, Numbers

\* A client that has just read the tag agrees with it.
LEMMA ReadInStep ==
    ASSUME NEW rt \in RuntimeTags, NEW s, InStep(rt, s)
    PROVE  InStep(rt, rt.current)
<1>1. Near(rt.current.value, rt.current.value, 2 * MaxDeadband)
  BY DEF Near
<1> QED
  BY <1>1 DEF InStep

\* A tag just created agrees with a client that reads it.
LEMMA FreshInStep ==
    ASSUME NEW c \in Configs
    PROVE  /\ Fresh(c) \in RuntimeTags
           /\ InStep(Fresh(c), Fresh(c).current)
  BY DEF Fresh, NoData, RuntimeTags, TagValues, Values, Qualities, InStep, Near

\* Replacing the configuration keeps the values.
LEMMA ReconfiguredInStep ==
    ASSUME NEW rt \in RuntimeTags, NEW s, InStep(rt, s), NEW c \in Configs
    PROVE  /\ [rt EXCEPT !.config = c] \in RuntimeTags
           /\ [rt EXCEPT !.config = c].current = rt.current
           /\ InStep([rt EXCEPT !.config = c], s)
  BY DEF RuntimeTags, InStep

\* updateRaw: a reported update brings every client up to date, and one the
\* filter drops leaves them near enough.
LEMMA UpdatedInStep ==
    ASSUME NEW rt \in RuntimeTags, NEW s, InStep(rt, s),
           NEW value \in Values, NEW quality \in Qualities
    PROVE  /\ Updated(rt, value, quality) \in RuntimeTags
           /\ Updated(rt, value, quality).config = rt.config
           /\ UpdateReports(rt, value, quality) =>
                InStep(Updated(rt, value, quality), Updated(rt, value, quality).current)
           /\ ~ UpdateReports(rt, value, quality) =>
                InStep(Updated(rt, value, quality), s)
<1> DEFINE new == [value |-> value, quality |-> quality, error |-> NoError]
           up == Updated(rt, value, quality)
<1>1. new \in TagValues
  BY DEF TagValues
<1>2. CASE UpdateReports(rt, value, quality)
  <2>1. up = [rt EXCEPT !.current = new, !.reportedValue = value, !.reportedQuality = quality]
    BY <1>2 DEF Updated
  <2>2. up \in RuntimeTags /\ up.config = rt.config
    BY <2>1, <1>1 DEF RuntimeTags
  <2>3. InStep(up, up.current)
    BY <2>1 DEF RuntimeTags, InStep, Near
  <2> QED
    BY <1>2, <2>2, <2>3
<1>3. CASE ~ UpdateReports(rt, value, quality)
  <2>1. up = [rt EXCEPT !.current = new]
    BY <1>3 DEF Updated
  <2>2. /\ up \in RuntimeTags
        /\ up.config = rt.config /\ up.current = new
        /\ up.reportedValue = rt.reportedValue
        /\ up.reportedQuality = rt.reportedQuality
    BY <2>1, <1>1 DEF RuntimeTags
  <2>3. /\ rt.reportedQuality = quality
        /\ WithinDeadband(rt.config, rt.reportedValue, value)
        /\ rt.current.error = NoError
    BY <1>3 DEF UpdateReports
  <2>4. Near(value, rt.reportedValue, MaxDeadband)
    BY <2>3, WithinDeadbandNear DEF RuntimeTags
  <2>5. Near(s.value, value, 2 * MaxDeadband)
    BY <2>4, NearTriangle DEF InStep
  <2>6. InStep(up, s)
    BY <2>2, <2>3, <2>4, <2>5 DEF InStep
  <2> QED
    BY <1>3, <2>2, <2>6
<1> QED
  BY <1>2, <1>3

\* setQuality: the mark is dropped only when it says what was reported.
LEMMA RequalifiedInStep ==
    ASSUME NEW rt \in RuntimeTags, NEW s, InStep(rt, s),
           NEW quality \in Qualities, NEW error \in Errors \cup {NoError},
           quality # "good"
    PROVE  /\ Requalified(rt, quality, error) \in RuntimeTags
           /\ Requalified(rt, quality, error).config = rt.config
           /\ QualityReports(rt, quality, error) =>
                InStep(Requalified(rt, quality, error),
                       Requalified(rt, quality, error).current)
           /\ ~ QualityReports(rt, quality, error) =>
                InStep(Requalified(rt, quality, error), s)
<1>1. CASE QualityReports(rt, quality, error)
  <2> DEFINE up == Requalified(rt, quality, error)
             new == [rt.current EXCEPT !.quality = quality, !.error = error]
  <2>1. /\ new \in TagValues
        /\ new.value = rt.current.value
        /\ new.quality = quality /\ new.error = error
    BY DEF RuntimeTags, TagValues
  <2>2. up = [rt EXCEPT !.current = new, !.reportedQuality = quality,
                        !.reportedValue = rt.current.value]
    BY <1>1 DEF Requalified, RuntimeTags
  <2>3. /\ up \in RuntimeTags
        /\ up.config = rt.config /\ up.current = new
        /\ up.reportedValue = new.value /\ up.reportedQuality = new.quality
    <3> HIDE DEF new
    <3>1. rt.current.value \in Values
      BY DEF RuntimeTags, TagValues
    <3> QED BY <2>1, <2>2, <3>1 DEF RuntimeTags
  <2>4. InStep(up, up.current)
    <3> HIDE DEF new, up
    <3> QED BY <2>1, <2>3 DEF InStep, Near
  <2> QED
    BY <1>1, <2>3, <2>4
<1>2. CASE ~ QualityReports(rt, quality, error)
  BY <1>2 DEF Requalified
<1> QED
  BY <1>1, <1>2

-----------------------------------------------------------------------------
(* One call of a method. *)

\* EngineInv, tag by tag.
LEMMA EngineInvByTag ==
    EngineInv <=>
      /\ TypeOK
      /\ IndexConsistent
      /\ \A t \in Tags : tags[t] = Absent <=> seen[t] = Absent
      /\ \A t \in Tags : tags[t] # Absent => InStep(tags[t], seen[t])
  BY DEF EngineInv, ClientInStep, ReportedInStep, ErrorOnlyWhenNotGood, InStep, Known

\* A tag a known entry stands for is one of the configured shapes.
LEMMA KnownType ==
    ASSUME TypeOK, NEW t \in Tags, tags[t] # Absent
    PROVE  /\ tags[t] \in RuntimeTags /\ tags[t].config \in Configs
           /\ tags[t].config.device \in Devices
           /\ tags[t].current \in TagValues
  BY ConfigAssumption DEF TypeOK, RuntimeTags, ConfigSpace

\* load().
LEMMA LoadInv ==
    ASSUME EngineInv, NEW configs \in [Tags -> Configs \cup {Absent}], Load(configs)
    PROVE  EngineInv'
<1> USE AbsentAssumption
<1>1. /\ tags' = Loaded(tags, configs)
      /\ byDevice' = Indexed(configs)
      /\ events' = {}
      /\ seen' = Follow(tags')
  BY DEF Load
<1>2. ASSUME NEW t \in Tags
      PROVE  /\ tags'[t] \in RuntimeTags \cup {Absent}
             /\ seen'[t] \in TagValues \cup {Absent}
             /\ tags'[t] = Absent <=> seen'[t] = Absent
             /\ tags'[t] # Absent => InStep(tags'[t], seen'[t])
             /\ tags'[t] = Absent <=> configs[t] = Absent
             /\ tags'[t] # Absent => tags'[t].config = configs[t]
  <2>1. CASE configs[t] = Absent
    BY <1>1, <2>1 DEF Loaded, Follow
  <2>2. CASE configs[t] # Absent /\ tags[t] = Absent
    <3>1. /\ tags'[t] = Fresh(configs[t])
          /\ configs[t] \in Configs
      BY <1>1, <2>2 DEF Loaded
    <3>2. /\ Fresh(configs[t]) \in RuntimeTags
          /\ InStep(Fresh(configs[t]), Fresh(configs[t]).current)
          /\ Fresh(configs[t]).config = configs[t]
          /\ Fresh(configs[t]).current \in TagValues
      <4>1. Fresh(configs[t]) \in RuntimeTags /\ InStep(Fresh(configs[t]), Fresh(configs[t]).current)
        BY <3>1, FreshInStep
      <4> QED BY <4>1 DEF RuntimeTags, Fresh
    <3>3. seen'[t] = tags'[t].current
      BY <1>1, <2>2, <3>1, <3>2 DEF Follow
    <3> QED BY <2>2, <3>1, <3>2, <3>3
  <2>3. CASE configs[t] # Absent /\ tags[t] # Absent
    <3>1. /\ tags'[t] = [tags[t] EXCEPT !.config = configs[t]]
          /\ configs[t] \in Configs
      BY <1>1, <2>3 DEF Loaded
    <3>2. tags[t] \in RuntimeTags /\ seen[t] \in TagValues /\ InStep(tags[t], seen[t])
      BY <2>3, EngineInvByTag, KnownType DEF TypeOK
    <3>3. /\ tags'[t] \in RuntimeTags
          /\ tags'[t].config = configs[t]
          /\ InStep(tags'[t], seen[t])
      BY <3>1, <3>2, ReconfiguredInStep DEF RuntimeTags
    <3>4. seen'[t] = seen[t]
      BY <1>1, <2>3, <3>3 DEF Follow
    <3> QED BY <2>3, <3>2, <3>3, <3>4
  <2> QED BY <2>1, <2>2, <2>3
<1>3. TypeOK'
  <2>1. tags' = [t \in Tags |-> tags'[t]] /\ seen' = [t \in Tags |-> seen'[t]]
    BY <1>1 DEF Loaded, Follow
  <2>2. byDevice' \in [Devices -> SUBSET Tags]
    BY <1>1 DEF Indexed
  <2> QED BY <1>1, <1>2, <2>1, <2>2 DEF TypeOK
<1>4. IndexConsistent'
  BY <1>1, <1>2 DEF IndexConsistent, Indexed
<1> QED
  BY <1>2, <1>3, <1>4, EngineInvByTag DEF EngineInv, ClientInStep, ReportedInStep, ErrorOnlyWhenNotGood, InStep, Known

\* upsertTag() is a load of the other configurations and the new one.
LEMMA UpsertTagInv ==
    ASSUME EngineInv, NEW t \in Tags, NEW c \in Configs, UpsertTag(t, c)
    PROVE  EngineInv'
<1>1. [ConfigsOf(tags) EXCEPT ![t] = c] \in [Tags -> Configs \cup {Absent}]
  BY KnownType DEF ConfigsOf, EngineInv
<1> QED
  BY <1>1, LoadInv DEF UpsertTag

\* removeTag().
LEMMA RemoveTagInv ==
    ASSUME EngineInv, NEW t \in Tags, RemoveTag(t)
    PROVE  EngineInv'
<1> USE AbsentAssumption
<1>1. /\ tags' = [tags EXCEPT ![t] = Absent]
      /\ events' = {}
      /\ seen' = Follow(tags')
      /\ TypeOK /\ IndexConsistent
  BY DEF RemoveTag, EngineInv
<1>2. ASSUME NEW u \in Tags
      PROVE  /\ tags'[u] = IF u = t THEN Absent ELSE tags[u]
             /\ seen'[u] = IF u = t THEN Absent ELSE seen[u]
  <2>1. tags'[u] = IF u = t THEN Absent ELSE tags[u]
    BY <1>1 DEF TypeOK
  <2>2. tags[u] = Absent <=> seen[u] = Absent
    BY EngineInvByTag
  <2> QED BY <1>1, <2>1, <2>2 DEF Follow
<1>3. TypeOK'
  <2>1. byDevice' \in [Devices -> SUBSET Tags]
    BY <1>1, KnownType DEF RemoveTag, TypeOK
  <2>2. seen' \in [Tags -> TagValues \cup {Absent}]
    <3>1. seen' = [u \in Tags |-> seen'[u]]
      BY <1>1 DEF Follow
    <3> QED BY <3>1, <1>1, <1>2 DEF TypeOK
  <2> QED BY <1>1, <2>1, <2>2 DEF TypeOK
<1>4. IndexConsistent'
  <2>1. CASE tags[t] = Absent
    BY <2>1, <1>1, <1>2 DEF RemoveTag, IndexConsistent
  <2>2. CASE tags[t] # Absent
    <3>1. byDevice' = [byDevice EXCEPT ![tags[t].config.device] = @ \ {t}]
      BY <2>2 DEF RemoveTag
    <3>2. \A d \in Devices : byDevice'[d] = byDevice[d] \ {t}
      BY <3>1, <1>1, <2>2 DEF TypeOK, IndexConsistent
    <3> QED BY <3>2, <1>1, <1>2 DEF IndexConsistent
  <2> QED BY <2>1, <2>2
<1>5. /\ \A u \in Tags : tags'[u] = Absent <=> seen'[u] = Absent
      /\ \A u \in Tags : tags'[u] # Absent => InStep(tags'[u], seen'[u])
  BY <1>2, EngineInvByTag
<1> QED
  BY <1>3, <1>4, <1>5 DEF EngineInv, ClientInStep, ReportedInStep, ErrorOnlyWhenNotGood, InStep, Known

\* A call that serves or marks some known tags, and reports exactly those that
\* leave their clients behind, preserves the invariant.
LEMMA ServeInv ==
    ASSUME EngineInv,
           tags' = [t \in Tags |-> tags'[t]],
           seen' = Follow(tags'),
           events' \subseteq ChangeEvents,
           UNCHANGED byDevice,
           \A t \in Tags : tags[t] = Absent => tags'[t] = Absent,
           \A t \in Tags : tags[t] # Absent =>
             /\ tags'[t] \in RuntimeTags
             /\ tags'[t].config = tags[t].config
             /\ (\E e \in events' : e.tag = t) => InStep(tags'[t], tags'[t].current)
             /\ ~ (\E e \in events' : e.tag = t) => InStep(tags'[t], seen[t])
    PROVE  EngineInv'
<1> USE AbsentAssumption
<1>1. \A t \in Tags : tags'[t] = Absent <=> tags[t] = Absent
  OBVIOUS
<1>2. ASSUME NEW t \in Tags
      PROVE  /\ tags'[t] = Absent <=> seen'[t] = Absent
             /\ seen'[t] \in TagValues \cup {Absent}
             /\ tags'[t] # Absent => InStep(tags'[t], seen'[t])
  <2>1. \A e \in events' : e.type = "change"
    BY DEF ChangeEvents
  <2>2. seen[t] \in TagValues \cup {Absent} /\ (tags[t] = Absent <=> seen[t] = Absent)
    BY EngineInvByTag DEF TypeOK
  <2>3. tags'[t] # Absent => tags'[t].current \in TagValues
    BY <1>1 DEF RuntimeTags
  <2> QED
    BY <1>1, <2>1, <2>2, <2>3 DEF Follow
<1>3. TypeOK'
  <2>1. seen' = [t \in Tags |-> seen'[t]]
    BY DEF Follow
  <2>2. \A t \in Tags : tags'[t] \in RuntimeTags \cup {Absent}
    OBVIOUS
  <2>3. byDevice' \in [Devices -> SUBSET Tags]
    BY DEF EngineInv, TypeOK
  <2> QED BY <1>2, <2>1, <2>2, <2>3 DEF TypeOK
<1>4. IndexConsistent'
  BY <1>1 DEF EngineInv, IndexConsistent
<1> QED
  BY <1>2, <1>3, <1>4 DEF EngineInv, ClientInStep, ReportedInStep, ErrorOnlyWhenNotGood, InStep, Known

\* A change event names its tag.
LEMMA ChangeType ==
    ASSUME NEW t \in Tags, NEW data \in TagValues
    PROVE  Change(t, data) \in ChangeEvents /\ Change(t, data).tag = t
  BY DEF Change, ChangeEvents

\* updateRaw().
LEMMA UpdateRawInv ==
    ASSUME EngineInv, NEW t \in Tags, NEW raw \in RawValues, UpdateRaw(t, raw, "good")
    PROVE  EngineInv'
<1> DEFINE value == IF raw = NULL THEN NULL ELSE ProcessValue(tags[t].config, raw)
<1>1. TypeOK /\ tags[t] # Absent /\ tags[t] \in RuntimeTags /\ InStep(tags[t], seen[t])
  BY EngineInvByTag, KnownType DEF UpdateRaw
<1>2. value \in Values
  <2>1. tags[t].config \in ConfigSpace /\ raw \in Primitives
    BY <1>1, KnownType, ConfigAssumption, InputAssumption
  <2> QED BY <2>1, ProcessValueType DEF Values
<1> HIDE DEF value
<1>3. /\ tags' = [tags EXCEPT ![t] = Updated(tags[t], value, "good")]
      /\ events' = IF UpdateReports(tags[t], value, "good")
                     THEN {Change(t, tags'[t].current)} ELSE {}
      /\ seen' = Follow(tags')
      /\ UNCHANGED byDevice
  BY DEF UpdateRaw, value
<1>4. /\ Updated(tags[t], value, "good") \in RuntimeTags
      /\ Updated(tags[t], value, "good").config = tags[t].config
      /\ UpdateReports(tags[t], value, "good") =>
           InStep(Updated(tags[t], value, "good"), Updated(tags[t], value, "good").current)
      /\ ~ UpdateReports(tags[t], value, "good") =>
           InStep(Updated(tags[t], value, "good"), seen[t])
  BY <1>1, <1>2, UpdatedInStep DEF Qualities
<1>5. /\ tags'[t] = Updated(tags[t], value, "good")
      /\ \A u \in Tags \ {t} : tags'[u] = tags[u]
      /\ tags' = [u \in Tags |-> tags'[u]]
  BY <1>1, <1>3 DEF TypeOK
<1>6. /\ events' \subseteq ChangeEvents
      /\ \A u \in Tags : (\E e \in events' : e.tag = u)
                         <=> u = t /\ UpdateReports(tags[t], value, "good")
  <2>1. tags'[t].current \in TagValues
    BY <1>4, <1>5 DEF RuntimeTags
  <2>2. Change(t, tags'[t].current) \in ChangeEvents /\ Change(t, tags'[t].current).tag = t
    BY <2>1, ChangeType
  <2> QED BY <1>3, <2>2
<1>7. \A u \in Tags : tags[u] # Absent => tags[u] \in RuntimeTags /\ InStep(tags[u], seen[u])
  BY <1>1, EngineInvByTag, KnownType
<1> QED
  BY <1>1, <1>3, <1>4, <1>5, <1>6, <1>7, ServeInv

\* setQuality() and setQualityForDevice().
LEMMA MarkQualityInv ==
    ASSUME EngineInv, NEW ids \in SUBSET Tags,
           NEW quality \in Qualities, NEW error \in Errors \cup {NoError},
           quality # "good", MarkQuality(ids, quality, error)
    PROVE  EngineInv'
<1> DEFINE marked == {u \in ids : tags[u] # Absent /\ QualityReports(tags[u], quality, error)}
<1>1. TypeOK
  BY DEF EngineInv
<1>2. /\ tags' = [t \in Tags |-> IF t \in ids /\ tags[t] # Absent
                                   THEN Requalified(tags[t], quality, error) ELSE tags[t]]
      /\ events' = {Change(t, tags'[t].current) : t \in marked}
      /\ seen' = Follow(tags')
      /\ UNCHANGED byDevice
  BY DEF MarkQuality
<1>3. ASSUME NEW t \in Tags, tags[t] # Absent
      PROVE  /\ tags[t] \in RuntimeTags /\ InStep(tags[t], seen[t])
             /\ Requalified(tags[t], quality, error) \in RuntimeTags
             /\ Requalified(tags[t], quality, error).config = tags[t].config
             /\ QualityReports(tags[t], quality, error) =>
                  InStep(Requalified(tags[t], quality, error),
                         Requalified(tags[t], quality, error).current)
             /\ ~ QualityReports(tags[t], quality, error) =>
                  InStep(Requalified(tags[t], quality, error), seen[t])
  <2>1. tags[t] \in RuntimeTags /\ InStep(tags[t], seen[t])
    BY <1>1, <1>3, KnownType, EngineInvByTag
  <2> QED BY <2>1, RequalifiedInStep
<1>4. \A t \in Tags : tags'[t] = IF t \in ids /\ tags[t] # Absent
                                   THEN Requalified(tags[t], quality, error) ELSE tags[t]
  BY <1>2
<1>5. /\ events' \subseteq ChangeEvents
      /\ \A t \in Tags : (\E e \in events' : e.tag = t) <=> t \in marked
  <2>1. \A t \in marked : t \in Tags /\ tags'[t].current \in TagValues
    BY <1>3, <1>4 DEF RuntimeTags
  <2>2. \A t \in marked : /\ Change(t, tags'[t].current) \in ChangeEvents
                          /\ Change(t, tags'[t].current).tag = t
    BY <2>1, ChangeType
  <2> HIDE DEF marked
  <2>3. events' \subseteq ChangeEvents
    BY <1>2, <2>2
  <2>4. \A e \in events' : e.tag \in marked
    BY <1>2, <2>2
  <2>5. \A t \in marked : \E e \in events' : e.tag = t
    BY <1>2, <2>2
  <2> QED BY <2>3, <2>4, <2>5
<1>6. \A t \in Tags : tags[t] # Absent =>
             /\ tags'[t] \in RuntimeTags
             /\ tags'[t].config = tags[t].config
             /\ (\E e \in events' : e.tag = t) => InStep(tags'[t], tags'[t].current)
             /\ ~ (\E e \in events' : e.tag = t) => InStep(tags'[t], seen[t])
  BY <1>3, <1>4, <1>5
<1>7. tags' = [t \in Tags |-> tags'[t]]
  BY <1>2
<1> QED
  BY <1>2, <1>4, <1>5, <1>6, <1>7, ServeInv

\* write() only emits.
LEMMA WriteInv ==
    ASSUME EngineInv, NEW t \in Tags, NEW raw \in RawValues, Write(t, raw)
    PROVE  EngineInv'
<1>1. raw \in Primitives
  BY InputAssumption
<1>2. events' \subseteq WriteEvents
  BY <1>1 DEF Write, WriteEvents
<1> QED
  BY <1>2 DEF Write, EngineInv, TypeOK, IndexConsistent, ClientInStep,
              ReportedInStep, ErrorOnlyWhenNotGood, Known

\* A client reads every tag.
LEMMA SnapshotInv ==
    ASSUME EngineInv, Snapshot
    PROVE  EngineInv'
<1> USE AbsentAssumption
<1>1. \A t \in Tags : tags[t] # Absent =>
        /\ tags[t] \in RuntimeTags /\ tags[t].current \in TagValues
        /\ InStep(tags[t], tags[t].current)
  BY KnownType, EngineInvByTag, ReadInStep
<1>2. /\ \A t \in Tags : tags'[t] = tags[t]
      /\ \A t \in Tags : seen'[t] = IF tags[t] = Absent THEN Absent ELSE tags[t].current
      /\ events' = {} /\ byDevice' = byDevice /\ tags' = tags
      /\ seen' = [t \in Tags |-> seen'[t]]
  BY DEF Snapshot
<1>3. \A t \in Tags : tags[t] # Absent => seen'[t] = tags[t].current /\ tags[t].current # Absent
  BY <1>1, <1>2
<1>4. TypeOK'
  BY <1>1, <1>2 DEF EngineInv, TypeOK
<1>5. IndexConsistent'
  BY <1>2 DEF EngineInv, IndexConsistent
<1> QED
  BY <1>1, <1>2, <1>3, <1>4, <1>5
     DEF EngineInv, ClientInStep, ReportedInStep, ErrorOnlyWhenNotGood, InStep, Known

-----------------------------------------------------------------------------
(* The induction. *)

LEMMA InitInv == Init => EngineInv
  BY AbsentAssumption
     DEF Init, EngineInv, TypeOK, IndexConsistent, ClientInStep,
         ReportedInStep, ErrorOnlyWhenNotGood, Known

LEMMA NextInv == EngineInv /\ [Next]_vars => EngineInv'
<1> SUFFICES ASSUME EngineInv, [Next]_vars PROVE EngineInv'
  OBVIOUS
<1>1. CASE ConfigStep
  BY <1>1, LoadInv, UpsertTagInv, RemoveTagInv DEF ConfigStep
<1>2. CASE DriverStep
  <2>1. ASSUME NEW t \in Tags, NEW raw \in RawValues, UpdateRaw(t, raw, "good")
        PROVE  EngineInv'
    BY <2>1, UpdateRawInv
  <2>2. ASSUME NEW t \in Tags, NEW q \in {"bad", "uncertain"},
               NEW e \in Errors \cup {NoError}, SetQuality(t, q, e)
        PROVE  EngineInv'
    BY <2>2, MarkQualityInv DEF SetQuality, Qualities
  <2> QED BY <1>2, <2>1, <2>2 DEF DriverStep
<1>3. ASSUME NEW d \in Devices, NEW e \in Errors, SetQualityForDevice(d, "bad", e)
      PROVE  EngineInv'
  <2>1. byDevice[d] \in SUBSET Tags
    BY DEF EngineInv, TypeOK
  <2> QED BY <1>3, <2>1, MarkQualityInv DEF SetQualityForDevice, Qualities
<1>4. ASSUME NEW t \in Tags, NEW raw \in RawValues, Write(t, raw)
      PROVE  EngineInv'
  BY <1>4, WriteInv
<1>5. CASE Snapshot
  BY <1>5, SnapshotInv
<1>6. CASE UNCHANGED vars
  BY <1>6 DEF vars, EngineInv, TypeOK, IndexConsistent, ClientInStep,
              ReportedInStep, ErrorOnlyWhenNotGood, Known
<1> QED
  BY <1>1, <1>2, <1>3, <1>4, <1>5, <1>6 DEF Next

\* The engine's state always has its declared shape (tag-engine.ts:26-45).
THEOREM TypeCorrect == Spec => []TypeOK
<1>1. EngineInv => TypeOK
  BY DEF EngineInv
<1> QED
  BY <1>1, InitInv, NextInv, PTL DEF Spec

\* A device-wide mark always reaches exactly the tags configured on the
\* device: the index never drifts from the map (tag-engine.ts:43-98, 158-162).
THEOREM IndexAlwaysConsistent == Spec => []IndexConsistent
<1>1. EngineInv => IndexConsistent
  BY DEF EngineInv
<1> QED
  BY <1>1, InitInv, NextInv, PTL DEF Spec

\* A client that follows the change events always shows the true quality and
\* error of every tag, and its value to within two deadbands
\* (tag-engine.ts:123-155).
THEOREM ClientAlwaysInStep == Spec => []ClientInStep
<1>1. EngineInv => ClientInStep
  BY DEF EngineInv
<1> QED
  BY <1>1, InitInv, NextInv, PTL DEF Spec

\* No stale error message next to a good value (types.ts:14-15).
THEOREM ErrorNeverWithGood == Spec => []ErrorOnlyWhenNotGood
<1>1. EngineInv => ErrorOnlyWhenNotGood
  BY DEF EngineInv
<1> QED
  BY <1>1, InitInv, NextInv, PTL DEF Spec

-----------------------------------------------------------------------------
(* The deadband filter never lets the shown value drift. *)

\* One update leaves the value within the deadband of what was reported.
LEMMA UpdatedNearReported ==
    ASSUME NEW rt \in RuntimeTags, NEW value \in Values, NEW quality \in Qualities
    PROVE  Near(Updated(rt, value, quality).reportedValue,
                Updated(rt, value, quality).current.value, rt.config.deadband)
<1> DEFINE new == [value |-> value, quality |-> quality, error |-> NoError]
           up == Updated(rt, value, quality)
<1>1. CASE UpdateReports(rt, value, quality)
  <2>1. up.reportedValue = value /\ up.current.value = value
    BY <1>1 DEF Updated, RuntimeTags
  <2> QED
    BY <2>1 DEF Near
<1>2. CASE ~ UpdateReports(rt, value, quality)
  <2>1. up.reportedValue = rt.reportedValue /\ up.current.value = value
    BY <1>2 DEF Updated, RuntimeTags
  <2>2. WithinDeadband(rt.config, rt.reportedValue, value)
    BY <1>2 DEF UpdateReports
  <2>3. rt.config.deadband \in Nat /\ rt.reportedValue \in Values
    BY ConfigAssumption DEF RuntimeTags, ConfigSpace
  <2>4. Near(rt.reportedValue, value, rt.config.deadband)
    BY <2>2, <2>3 DEF WithinDeadband, Near, Numbers
  <2> QED
    BY <2>1, <2>4
<1> QED
  BY <1>1, <1>2

\* A mark that is taken reports the value with it.
LEMMA RequalifiedNearReported ==
    ASSUME NEW rt \in RuntimeTags, NEW quality \in Qualities, NEW error \in Errors \cup {NoError},
           Requalified(rt, quality, error).current # rt.current
    PROVE  Requalified(rt, quality, error).reportedValue
             = Requalified(rt, quality, error).current.value
  BY DEF Requalified, RuntimeTags, TagValues

\* The body of DriftReported.
NoDrift ==
    \A t \in Tags :
      tags[t] # Absent /\ tags'[t] # Absent /\ tags'[t].current # tags[t].current
      => Near(tags'[t].reportedValue, tags'[t].current.value, tags[t].config.deadband)

\* A load keeps the values of the tags that stay.
LEMMA LoadKeepsCurrent ==
    ASSUME TypeOK, NEW configs \in [Tags -> Configs \cup {Absent}], Load(configs),
           NEW t \in Tags, tags[t] # Absent, configs[t] # Absent
    PROVE  tags'[t] # Absent /\ tags'[t].current = tags[t].current
<1>1. tags'[t] = [tags[t] EXCEPT !.config = configs[t]] /\ configs[t] \in Configs
  BY DEF Load, Loaded
<1>2. tags[t] \in RuntimeTags
  BY KnownType
<1>3. tags'[t] \in RuntimeTags /\ tags'[t].current = tags[t].current
  BY <1>1, <1>2 DEF RuntimeTags
<1> QED
  BY <1>3, AbsentAssumption

LEMMA StepNoDrift == EngineInv /\ [Next]_vars => NoDrift
<1> SUFFICES ASSUME EngineInv, [Next]_vars PROVE NoDrift
  OBVIOUS
<1>0. TypeOK
  BY DEF EngineInv
<1>1. ASSUME NEW configs \in [Tags -> Configs \cup {Absent}], Load(configs) PROVE NoDrift
  <2>1. \A t \in Tags : configs[t] = Absent => tags'[t] = Absent
    BY <1>1 DEF Load, Loaded
  <2> QED
    BY <1>0, <1>1, <2>1, LoadKeepsCurrent DEF NoDrift
<1>2. ASSUME NEW t \in Tags, NEW c \in Configs, UpsertTag(t, c) PROVE NoDrift
  <2>1. [ConfigsOf(tags) EXCEPT ![t] = c] \in [Tags -> Configs \cup {Absent}]
    BY <1>0, KnownType DEF ConfigsOf
  <2> QED
    BY <1>1, <1>2, <2>1 DEF UpsertTag
<1>3. ASSUME NEW t \in Tags, RemoveTag(t) PROVE NoDrift
  BY <1>0, <1>3 DEF RemoveTag, TypeOK, NoDrift
<1>4. ASSUME NEW t \in Tags, NEW raw \in RawValues, UpdateRaw(t, raw, "good") PROVE NoDrift
  <2> DEFINE value == IF raw = NULL THEN NULL ELSE ProcessValue(tags[t].config, raw)
  <2>1. tags[t] # Absent /\ tags[t] \in RuntimeTags
    BY <1>0, <1>4, KnownType DEF UpdateRaw
  <2>2. value \in Values
    <3>1. tags[t].config \in ConfigSpace /\ raw \in Primitives
      BY <1>0, <2>1, KnownType, ConfigAssumption, InputAssumption
    <3> QED BY <3>1, ProcessValueType DEF Values
  <2>3. tags' = [tags EXCEPT ![t] = Updated(tags[t], value, "good")]
    BY <1>4 DEF UpdateRaw
  <2> HIDE DEF value
  <2>4. Near(Updated(tags[t], value, "good").reportedValue,
             Updated(tags[t], value, "good").current.value, tags[t].config.deadband)
    BY <2>1, <2>2, UpdatedNearReported DEF Qualities
  <2> QED
    BY <1>0, <2>3, <2>4 DEF TypeOK, NoDrift
<1>5. ASSUME NEW ids \in SUBSET Tags, NEW q \in Qualities, NEW e \in Errors \cup {NoError},
             MarkQuality(ids, q, e)
      PROVE  NoDrift
  <2> SUFFICES ASSUME NEW t \in Tags, tags[t] # Absent, tags'[t] # Absent,
                      tags'[t].current # tags[t].current
               PROVE  Near(tags'[t].reportedValue, tags'[t].current.value,
                           tags[t].config.deadband)
    BY DEF NoDrift
  <2>1. tags'[t] = Requalified(tags[t], q, e)
    BY <1>5 DEF MarkQuality
  <2>2. tags[t] \in RuntimeTags
    BY <1>0, KnownType
  <2>3. tags'[t].reportedValue = tags'[t].current.value
    BY <2>1, <2>2, RequalifiedNearReported
  <2> QED
    BY <2>3 DEF Near
<1>6. ASSUME NEW t \in Tags, NEW q \in {"bad", "uncertain"}, NEW e \in Errors \cup {NoError},
             SetQuality(t, q, e)
      PROVE  NoDrift
  BY <1>5, <1>6 DEF SetQuality, Qualities
<1>7. ASSUME NEW d \in Devices, NEW e \in Errors, SetQualityForDevice(d, "bad", e)
      PROVE  NoDrift
  <2>1. byDevice[d] \in SUBSET Tags
    BY <1>0 DEF TypeOK
  <2> QED
    BY <1>5, <1>7, <2>1 DEF SetQualityForDevice, Qualities
<1>8. CASE UNCHANGED tags
  BY <1>8 DEF NoDrift
<1>9. /\ \A t \in Tags, raw \in RawValues : Write(t, raw) => UNCHANGED tags
      /\ Snapshot => UNCHANGED tags
      /\ UNCHANGED vars => UNCHANGED tags
  BY DEF Write, Snapshot, vars
<1> QED
  BY <1>1, <1>2, <1>3, <1>4, <1>6, <1>7, <1>8, <1>9 DEF Next, ConfigStep, DriverStep

\* Slow drift is reported: no update leaves the current value further from the
\* reported one than the deadband in force (tag-engine.ts:129-133).
THEOREM DriftAlwaysReported == Spec => DriftReported
<1>1. EngineInv /\ [Next]_vars
      => [\A t \in Tags :
            tags[t] # Absent /\ tags'[t] # Absent /\ tags'[t].current # tags[t].current
            => Near(tags'[t].reportedValue, tags'[t].current.value, tags[t].config.deadband)]_vars
  BY StepNoDrift DEF NoDrift
<1> QED
  BY <1>1, InitInv, NextInv, PTL DEF Spec, DriftReported

-----------------------------------------------------------------------------
(* The engine implements TagView. *)

\* What a client holds of a tag is close to the tag's current value.
LEMMA InStepIsClose ==
    ASSUME NEW rt \in RuntimeTags, NEW s, InStep(rt, s)
    PROVE  View!CloseTo(s, rt.current)
  BY DEF InStep, Near, View!CloseTo

\* A call that keeps the set of tags, and after which clients follow, serves.
LEMMA FollowServes ==
    ASSUME EngineInv, EngineInv', seen' = Follow(tags'),
           \A t \in Tags : tags'[t] = Absent <=> tags[t] = Absent
    PROVE  View!Serve
<1> USE AbsentAssumption
<1>1. ASSUME NEW t \in Tags
      PROVE  /\ (Current[t] = Absent) = (tags[t] = Absent)
             /\ (Current'[t] = Absent) = (tags'[t] = Absent)
             /\ tags'[t] # Absent => Current'[t] = tags'[t].current
  <2>1. /\ tags[t] # Absent => tags[t].current # Absent
        /\ tags'[t] # Absent => tags'[t].current # Absent
    BY KnownType DEF EngineInv, TypeOK, RuntimeTags
  <2> QED
    BY <2>1 DEF Current
<1>2. ASSUME NEW t \in Tags, tags'[t] # Absent
      PROVE  \/ seen'[t] = Current'[t]
             \/ seen'[t] = seen[t] /\ View!CloseTo(seen[t], Current'[t])
  <2>1. seen'[t] = tags'[t].current \/ seen'[t] = seen[t]
    BY <1>2 DEF Follow
  <2>2. tags'[t] \in RuntimeTags
    BY <1>2 DEF EngineInv, TypeOK
  <2>3. InStep(tags'[t], seen'[t])
    BY <1>2 DEF EngineInv, ClientInStep, ReportedInStep, ErrorOnlyWhenNotGood, InStep, Known
  <2> QED
    BY <1>1, <1>2, <2>1, <2>2, <2>3, InStepIsClose
<1>3. \A t \in Tags : tags'[t] = Absent => seen'[t] = Absent
  BY DEF Follow
<1> QED
  BY <1>1, <1>2, <1>3 DEF View!Serve

\* A load adds tags without data and removes tags; the others stay as they are.
LEMMA LoadConfigures ==
    ASSUME EngineInv, NEW configs \in [Tags -> Configs \cup {Absent}], Load(configs)
    PROVE  View!Configure
<1> USE AbsentAssumption
<1>0. TypeOK
  BY DEF EngineInv
<1> SUFFICES ASSUME NEW t \in Tags
             PROVE  \/ Current'[t] = Absent /\ seen'[t] = Absent
                    \/ Current[t] = Absent /\ Current'[t] = NoData /\ seen'[t] = NoData
                    \/ Current[t] # Absent /\ Current'[t] = Current[t] /\ seen'[t] = seen[t]
  BY DEF View!Configure
<1>1. /\ tags' = Loaded(tags, configs) /\ seen' = Follow(tags') /\ events' = {}
  BY DEF Load
<1>2. CASE configs[t] = Absent
  BY <1>1, <1>2 DEF Loaded, Current, Follow
<1>3. CASE configs[t] # Absent /\ tags[t] = Absent
  <2>1. tags'[t] = Fresh(configs[t]) /\ configs[t] \in Configs
    BY <1>1, <1>3 DEF Loaded
  <2>2. Fresh(configs[t]) \in RuntimeTags /\ Fresh(configs[t]).current = NoData
    BY <2>1, FreshInStep DEF Fresh
  <2> QED
    BY <1>1, <1>3, <2>1, <2>2 DEF Current, Follow
<1>4. CASE configs[t] # Absent /\ tags[t] # Absent
  <2>1. tags'[t] # Absent /\ tags'[t].current = tags[t].current
    BY <1>0, <1>4, LoadKeepsCurrent
  <2>2. tags[t].current \in TagValues
    BY <1>0, <1>4, KnownType
  <2> QED
    BY <1>1, <1>4, <2>1, <2>2 DEF Current, Follow
<1> QED
  BY <1>2, <1>3, <1>4

\* Every step of the engine is a step of TagView or changes nothing of it.
LEMMA StepImplementsView == EngineInv /\ EngineInv' /\ [Next]_vars => [View!ViewNext]_<<Current, seen>>
<1> SUFFICES ASSUME EngineInv, EngineInv', [Next]_vars
             PROVE  View!Serve \/ View!Configure \/ UNCHANGED <<Current, seen>>
  BY DEF View!ViewNext
<1> USE AbsentAssumption
<1>0. TypeOK /\ TypeOK'
  BY DEF EngineInv
<1>1. ASSUME NEW configs \in [Tags -> Configs \cup {Absent}], Load(configs)
      PROVE  View!Configure
  BY <1>1, LoadConfigures
<1>2. ASSUME NEW t \in Tags, NEW c \in Configs, UpsertTag(t, c) PROVE View!Configure
  <2>1. [ConfigsOf(tags) EXCEPT ![t] = c] \in [Tags -> Configs \cup {Absent}]
    BY <1>0, KnownType DEF ConfigsOf
  <2> QED
    BY <1>1, <1>2, <2>1 DEF UpsertTag
<1>3. ASSUME NEW t \in Tags, RemoveTag(t) PROVE View!Configure
  <2>1. /\ tags' = [tags EXCEPT ![t] = Absent]
        /\ events' = {} /\ seen' = Follow(tags')
    BY <1>3 DEF RemoveTag
  <2>2. \A u \in Tags : tags'[u] = IF u = t THEN Absent ELSE tags[u]
    BY <1>0, <2>1 DEF TypeOK
  <2>3. \A u \in Tags : tags[u] = Absent <=> seen[u] = Absent
    BY EngineInvByTag
  <2>4. \A u \in Tags : seen'[u] = IF u = t THEN Absent ELSE seen[u]
    BY <2>1, <2>2, <2>3 DEF Follow
  <2>5. \A u \in Tags : tags[u] # Absent => tags[u].current # Absent
    BY <1>0, KnownType
  <2> QED
    BY <2>2, <2>3, <2>4, <2>5 DEF View!Configure, Current
<1>4. ASSUME NEW t \in Tags, NEW raw \in RawValues, UpdateRaw(t, raw, "good") PROVE View!Serve
  <2> DEFINE value == IF raw = NULL THEN NULL ELSE ProcessValue(tags[t].config, raw)
             up == Updated(tags[t], value, "good")
  <2>1. tags[t] # Absent /\ tags' = [tags EXCEPT ![t] = up] /\ seen' = Follow(tags')
    BY <1>4 DEF UpdateRaw
  <2>2. value \in Values
    <3>1. tags[t].config \in ConfigSpace /\ raw \in Primitives
      BY <1>0, <2>1, KnownType, ConfigAssumption, InputAssumption
    <3> QED BY <3>1, ProcessValueType DEF Values
  <2>3. tags[t] \in RuntimeTags /\ InStep(tags[t], seen[t])
    BY <1>0, <2>1, KnownType, EngineInvByTag
  <2> HIDE DEF value
  <2>4. up \in RuntimeTags
    BY <2>2, <2>3, UpdatedInStep DEF Qualities
  <2> HIDE DEF up
  <2>5. \A u \in Tags : tags'[u] = Absent <=> tags[u] = Absent
    BY <1>0, <2>1, <2>4 DEF TypeOK
  <2> QED
    BY <2>1, <2>5, FollowServes
<1>5. ASSUME NEW ids \in SUBSET Tags, NEW q \in Qualities, NEW e \in Errors \cup {NoError},
             q # "good", MarkQuality(ids, q, e)
      PROVE  View!Serve
  <2>1. \A t \in Tags : tags[t] # Absent => Requalified(tags[t], q, e) \in RuntimeTags
    <3> SUFFICES ASSUME NEW t \in Tags, tags[t] # Absent
                 PROVE  Requalified(tags[t], q, e) \in RuntimeTags
      OBVIOUS
    <3>1. tags[t] \in RuntimeTags /\ InStep(tags[t], seen[t])
      BY <1>0, KnownType, EngineInvByTag
    <3> QED
      BY <1>5, <3>1, RequalifiedInStep
  <2>2. \A t \in Tags : tags'[t] = Absent <=> tags[t] = Absent
    BY <1>5, <2>1 DEF MarkQuality
  <2>3. seen' = Follow(tags')
    BY <1>5 DEF MarkQuality
  <2> QED
    BY <2>2, <2>3, FollowServes
<1>6. ASSUME NEW t \in Tags, NEW q \in {"bad", "uncertain"}, NEW e \in Errors \cup {NoError},
             SetQuality(t, q, e)
      PROVE  View!Serve
  BY <1>5, <1>6 DEF SetQuality, Qualities
<1>7. ASSUME NEW d \in Devices, NEW e \in Errors, SetQualityForDevice(d, "bad", e)
      PROVE  View!Serve
  <2>1. byDevice[d] \in SUBSET Tags
    BY <1>0 DEF TypeOK
  <2> QED
    BY <1>5, <1>7, <2>1 DEF SetQualityForDevice, Qualities
<1>8. CASE Snapshot
  <2>1. /\ tags' = tags
        /\ \A t \in Tags : seen'[t] = IF tags[t] = Absent THEN Absent ELSE tags[t].current
    BY <1>8 DEF Snapshot
  <2>2. Current' = Current
    BY <2>1 DEF Current
  <2>3. \A t \in Tags : tags[t] # Absent => tags[t].current # Absent
    BY <1>0, KnownType
  <2> QED
    BY <2>1, <2>2, <2>3 DEF View!Serve, Current
<1>9. ASSUME NEW t \in Tags, NEW raw \in RawValues, Write(t, raw)
      PROVE  UNCHANGED <<Current, seen>>
  BY <1>9 DEF Write, Current
<1>10. CASE UNCHANGED vars
  BY <1>10 DEF vars, Current
<1> QED
  BY <1>1, <1>2, <1>3, <1>4, <1>6, <1>7, <1>8, <1>9, <1>10 DEF Next, ConfigStep, DriverStep

\* The engine keeps what TagView promises its clients: no call changes the
\* quality, the error or the type of a value, or moves a number by more than the
\* filter allows, behind their backs (tag-engine.ts:70-162).
THEOREM EngineImplementsView == Spec => ImplementsView
<1>1. Init => View!ViewInit
  BY DEF Init, View!ViewInit, Current
<1>2. EngineInv /\ [Next]_vars => [View!ViewNext]_<<Current, seen>>
  BY NextInv, StepImplementsView
<1> QED
  BY <1>1, <1>2, InitInv, NextInv, PTL DEF Spec, ImplementsView, View!ViewSpec, View!viewVars
=============================================================================
