------------------------- MODULE EditSessionProofs -------------------------
(***************************************************************************)
(* The editor of the console for every project, every number of fetches    *)
(* and saves: edits are flagged, and a save overwrites only what was seen. *)
(***************************************************************************)
EXTENDS EditSession, TLAPS

-----------------------------------------------------------------------------
(* The copy of the project. *)

\* Fetches that have been answered, without the one that arrives or fails.
LEMMA AnswerGone ==
    ASSUME NEW S, NEW s \in Seq(S), NEW i \in DOMAIN s
    PROVE  RemoveAt(s, i) \in Seq(S) /\ Len(RemoveAt(s, i)) = Len(s) - 1 /\ s[i] \in S
<1> DEFINE front == SubSeq(s, 1, i - 1)
           back  == SubSeq(s, i + 1, Len(s))
<1>1. Len(s) \in Nat /\ i \in Nat /\ i <= Len(s) /\ 1 <= i /\ s[i] \in S
  OBVIOUS
<1>2. front \in Seq(S) /\ Len(front) = i - 1
  BY <1>1
<1>3. back \in Seq(S) /\ Len(back) = Len(s) - i
  BY <1>1
<1>4. RemoveAt(s, i) = front \o back
  BY DEF RemoveAt
<1> HIDE DEF front, back
<1>5. front \o back \in Seq(S) /\ Len(front \o back) = Len(front) + Len(back)
  BY <1>2, <1>3
<1> QED
  BY <1>1, <1>2, <1>3, <1>4, <1>5

\* The rows stay a configuration when one is saved under its parent.
LEMMA SavedConfiguration ==
    ASSUME NEW r \in Configurations, NEW e \in Entities, NEW c \in Settings, Accepts(r, e)
    PROVE  [r EXCEPT ![e] = c] \in Configurations
BY ParentAssumption, AbsentAssumption, SettingsAssumption DEF Configurations, Accepts

\* They stay one when a row goes with its subtree.
LEMMA RemovedConfiguration ==
    ASSUME NEW r \in Configurations, NEW e \in Entities
    PROVE  Without(r, e) \in Configurations
<1>1. Without(r, e) \in [Entities -> Configs \union {Absent}]
  BY DEF Without, Configurations
<1>2. ASSUME NEW x \in Entities, Without(r, e)[x] # Absent, Parent[x] # Root
      PROVE  Without(r, e)[Parent[x]] # Absent
  <2>1. x \notin Subtree(e) /\ r[x] # Absent
    BY <1>2 DEF Without
  <2>2. Parent[x] \in Entities /\ r[Parent[x]] # Absent
    BY <1>2, <2>1, ParentAssumption DEF Configurations
  <2>3. Parent[x] \notin Subtree(e)
    <3>1. Parent[x] # e /\ Parent[Parent[x]] # e
      BY <1>2, <2>1, <2>2, ParentAssumption DEF Subtree
    <3>2. Parent[Parent[x]] # Root => Parent[Parent[Parent[x]]] = Root
      BY <1>2, <2>2, KindAssumption, ParentAssumption
    <3> QED
      BY <3>1, <3>2, ParentAssumption DEF Subtree
  <2> QED
    BY <2>2, <2>3 DEF Without
<1> QED
  BY <1>1, <1>2 DEF Configurations

\* Any step of the cache.
LEMMA CacheStepType ==
    ASSUME CacheTypeOK, CacheStep
    PROVE  CacheTypeOK' /\ UNCHANGED rows
<1> USE DEF CacheTypeOK
<1>1. asked \in Nat /\ Len(answers) \in Nat /\ asked + Len(answers) <= MaxFetches /\ MaxFetches \in Nat
  BY FetchAssumption
<1>2. CASE ServeFetch
  <2>1. Append(answers, rows) \in Seq(Configurations) /\ Len(Append(answers, rows)) = Len(answers) + 1
    OBVIOUS
  <2>2. /\ asked' = asked - 1 /\ asked > 0 /\ answers' = Append(answers, rows)
        /\ rows' = rows /\ project' = project /\ foreign' = foreign
    BY <1>2 DEF ServeFetch
  <2>3. answers' \in Seq(Configurations) /\ asked' \in 0 .. MaxFetches /\ asked' + Len(answers') <= MaxFetches
    BY <1>1, <2>1, <2>2
  <2> QED
    BY <2>2, <2>3
<1>3. ASSUME NEW i \in DOMAIN answers, answers' = RemoveAt(answers, i), asked' = asked,
             rows' = rows, foreign' = foreign, project' \in {answers[i], project}
      PROVE  CacheTypeOK'
  <2>1. /\ RemoveAt(answers, i) \in Seq(Configurations)
        /\ Len(RemoveAt(answers, i)) = Len(answers) - 1
        /\ answers[i] \in Configurations
    BY AnswerGone
  <2>2. answers' \in Seq(Configurations) /\ asked' + Len(answers') <= MaxFetches
    BY <1>1, <1>3, <2>1
  <2> QED
    BY <1>3, <2>1, <2>2
<1>4. CASE FetchArrives
  BY <1>3, <1>4 DEF FetchArrives
<1>5. CASE FetchFails
  <2>1. CASE asked > 0 /\ asked' = asked - 1 /\ answers' = answers
    <3>1. asked' \in 0 .. MaxFetches /\ asked' + Len(answers') <= MaxFetches
      BY <1>1, <2>1
    <3> QED
      BY <1>5, <2>1, <3>1 DEF FetchFails
  <2>2. CASE \E i \in DOMAIN answers : answers' = RemoveAt(answers, i) /\ asked' = asked
    BY <1>3, <1>5, <2>2 DEF FetchFails
  <2> QED
    BY <1>5, <2>1, <2>2 DEF FetchFails
<1> QED
  BY <1>2, <1>4, <1>5 DEF CacheStep, ServeFetch, FetchArrives, FetchFails

-----------------------------------------------------------------------------
(* The editor. *)

\* What find returns is there.
LEMMA FindFinds ==
    ASSUME NEW p \in Configurations, NEW id, Find(p, id) # Nothing
    PROVE  Find(p, id) \in Entities /\ p[Find(p, id)] # Absent
<1> DEFINE found == {e \in Entities : p[e] # Absent /\ Id[e] = id}
<1>1. found # {}
  BY DEF Find
<1>2. \A e \in found : Kind[e] \in {"channel", "device", "tag"}
  BY KindAssumption
<1>3. \E e \in found : \A x \in found : Rank[Kind[e]] <= Rank[Kind[x]]
  <2> HIDE DEF found
  <2>1. Rank["channel"] = 1 /\ Rank["device"] = 2 /\ Rank["tag"] = 3
    BY DEF Rank
  <2>2. CASE \E e \in found : Kind[e] = "channel"
    BY <1>2, <2>1, <2>2
  <2>3. CASE (\A e \in found : Kind[e] # "channel") /\ \E e \in found : Kind[e] = "device"
    BY <1>2, <2>1, <2>3
  <2>4. CASE \A e \in found : Kind[e] = "tag"
    BY <1>1, <1>2, <2>1, <2>4
  <2> QED
    BY <1>2, <2>2, <2>3, <2>4
<1>4. Find(p, id) = CHOOSE e \in found : \A x \in found : Rank[Kind[e]] <= Rank[Kind[x]]
  BY <1>1 DEF Find
<1>5. Find(p, id) \in found
  <2> HIDE DEF found
  <2> QED
    BY <1>3, <1>4
<1> QED
  BY <1>5

\* What the inspector shows is in the console's copy.
LEMMA TargetIsThere ==
    ASSUME NEW p \in Configurations \union {Absent}, NEW n, NEW r, InspectorTarget(p, n, r) # Nothing
    PROVE  /\ p \in Configurations /\ p # Absent
           /\ InspectorTarget(p, n, r) \in Entities /\ p[InspectorTarget(p, n, r)] # Absent
BY FindFinds DEF InspectorTarget

\* A form filled from a configuration.
LEMMA FormType ==
    ASSUME NEW c \in Settings
    PROVE  FormOf(c) \in Forms
BY DEF FormOf, Forms, Settings

\* What is to be known of an editor for a copy p of the project.
Shown(ed, p) ==
    ed # Nothing =>
        /\ p # Absent /\ p[ed.entity] # Absent
        /\ ed.first => ed.stored = ed.initial

\* A mounted editor, and one that stays mounted.
LEMMA RenderedShown ==
    ASSUME NEW ed \in Editors \union {Nothing}, NEW p, NEW target,
           ed # Nothing /\ ed.first => ed.stored = ed.initial,
           target # Nothing =>
               p \in Configurations /\ p # Absent /\ target \in Entities /\ p[target] # Absent
    PROVE  Rendered(ed, p, target) \in Editors \union {Nothing} /\ Shown(Rendered(ed, p, target), p)
<1>1. CASE target = Nothing
  BY <1>1 DEF Rendered, Shown
<1>2. CASE target # Nothing /\ ed # Nothing /\ ed.entity = target
  BY <1>2 DEF Rendered, Shown
<1>3. CASE target # Nothing /\ ~ (ed # Nothing /\ ed.entity = target)
  <2>1. Rendered(ed, p, target) = Mount(p, target)
    BY <1>3 DEF Rendered
  <2>2. p[target] \in Settings /\ target \in Entities
    BY <1>3, SettingsAssumption DEF Configurations
  <2>3. Mount(p, target) \in Editors
    BY <2>2, FormType DEF Mount, Editors
  <2>4. /\ Mount(p, target).entity = target
        /\ Mount(p, target).stored = p[target]
        /\ Mount(p, target).initial = p[target]
    BY DEF Mount
  <2> QED
    BY <1>3, <2>1, <2>3, <2>4 DEF Shown
<1> QED
  BY <1>1, <1>2, <1>3

\* Whatever is selected in whatever copy.
LEMMA MountedShown ==
    ASSUME NEW ed \in Editors \union {Nothing}, NEW p \in Configurations \union {Absent},
           NEW n, NEW r, ed # Nothing /\ ed.first => ed.stored = ed.initial
    PROVE  /\ Rendered(ed, p, InspectorTarget(p, n, r)) \in Editors \union {Nothing}
           /\ Shown(Rendered(ed, p, InspectorTarget(p, n, r)), p)
BY RenderedShown, TargetIsThere

\* What a save sends is a whole configuration.
LEMMA BuiltType ==
    ASSUME NEW ed \in Editors, NEW p \in Configurations, p[ed.entity] # Absent, NEW f \in Forms
    PROVE  BuildConfig(p, ed, f) \in Settings
<1>1. p[ed.entity] \in Settings /\ ed.entity \in Entities
  BY SettingsAssumption DEF Configurations, Editors
<1>2. Kind[ed.entity] \in {"channel", "device", "tag"}
  BY <1>1, KindAssumption
<1> DEFINE c == p[ed.entity]
<1> HIDE DEF c
<1>3. c \in Settings
  BY <1>1 DEF c
<1>4. ChannelConfig(c, f) \in Settings
  BY <1>3 DEF ChannelConfig, Settings, Forms
<1>5. ASSUME NEW d PROVE DeviceConfig(c, f, d) \in Settings
  BY <1>3 DEF DeviceConfig, Settings, Forms
<1>6. ASSUME NEW a PROVE TagConfig(c, f, a) \in Settings
  BY <1>3 DEF TagConfig, MqttOverrides, Settings, Forms
<1> QED
  BY <1>2, <1>4, <1>5, <1>6 DEF BuildConfig, c

\* If what a save sends is the configuration c, it is also what the form of c makes.
LEMMA SameAsStored ==
    ASSUME NEW ed \in Editors, NEW p \in Configurations, p[ed.entity] # Absent,
           NEW f \in Forms, NEW c \in Settings, BuildConfig(p, ed, f) = c
    PROVE  BuildConfig(p, ed, FormOf(c)) = c
<1> DEFINE b == p[ed.entity]
<1>1. b \in Settings /\ ed.entity \in Entities
  BY SettingsAssumption DEF Configurations, Editors
<1> HIDE DEF b
<1>2. CASE Kind[ed.entity] = "channel"
  <2>1. ChannelConfig(b, f) = c
    BY <1>2 DEF BuildConfig, b
  <2>2. ChannelConfig(b, FormOf(c)) = c
    BY <1>1, <2>1 DEF ChannelConfig, FormOf, Settings, Forms
  <2> QED
    BY <1>2, <2>2 DEF BuildConfig, b
<1>3. CASE Kind[ed.entity] = "device"
  <2> DEFINE d == p[Parent[ed.entity]].driver
  <2>1. DeviceConfig(b, f, d) = c
    BY <1>3 DEF BuildConfig, b
  <2> HIDE DEF d
  <2>2. DeviceConfig(b, FormOf(c), d) = c
    BY <1>1, <2>1 DEF DeviceConfig, FormOf, Settings, Forms
  <2> QED
    BY <1>3, <2>2 DEF BuildConfig, b, d
<1>4. CASE Kind[ed.entity] = "tag"
  <2>1. TagConfig(b, f, ed.agents) = c
    BY <1>4 DEF BuildConfig, b
  <2>2. TagConfig(b, FormOf(c), ed.agents) = c
    BY <1>1, <2>1 DEF TagConfig, MqttOverrides, FormOf, Settings, Forms
  <2> QED
    BY <1>4, <2>2 DEF BuildConfig, b
<1> QED
  BY <1>1, <1>2, <1>3, <1>4, KindAssumption

-----------------------------------------------------------------------------
(* The steps. *)

\* Nothing is mounted at first.
LEMMA InitInv == Init => EditInv
BY FetchAssumption, InitialAssumption
   DEF Init, CacheInit, EditInv, EditTypeOK, CacheTypeOK, EditorShowsRow, BusyIsSaving, StoredIsCurrent

\* A selection, or a change of tab.
LEMMA ShowInv ==
    ASSUME EditInv, NEW ed \in {editor, Nothing}, NEW n, NEW r,
           editor' = Rendered(ed, project, InspectorTarget(project, n, r)),
           UNCHANGED <<cacheVars, save>>, node' \in Entities \union {Root},
           row' \in {Id[e] : e \in Entities} \union {Nothing}, tab' \in {"items", "properties"}
    PROVE  EditInv'
<1> USE DEF EditInv, EditTypeOK, CacheTypeOK
<1> DEFINE target == InspectorTarget(project, n, r)
<1>1. editor' \in Editors \union {Nothing} /\ Shown(editor', project)
  BY MountedShown DEF EditorShowsRow
<1>2. EditTypeOK' /\ EditorShowsRow'
  BY <1>1 DEF cacheVars, EditorShowsRow, Shown
<1>3. CASE target = Nothing
  BY <1>2, <1>3 DEF Rendered, BusyIsSaving, StoredIsCurrent, cacheVars
<1>4. CASE target # Nothing /\ ed # Nothing /\ ed.entity = target
  <2>1. editor' = editor
    BY <1>4 DEF Rendered
  <2> QED
    BY <1>2, <2>1 DEF BusyIsSaving, StoredIsCurrent, cacheVars
<1>5. CASE target # Nothing /\ ~ (ed # Nothing /\ ed.entity = target)
  <2> HIDE DEF target
  <2>1. editor' = Mount(project, target)
    BY <1>5 DEF Rendered, target
  <2>2. /\ ~ editor'.busy
        /\ editor'.entity = target /\ editor'.stored = project[target]
        /\ editor'.current = (project = rows /\ save = Nothing)
    BY <2>1 DEF Mount
  <2>3. BusyIsSaving'
    BY <2>2 DEF BusyIsSaving
  <2>4. StoredIsCurrent'
    BY <2>2 DEF StoredIsCurrent, cacheVars
  <2> QED
    BY <1>2, <2>3, <2>4
<1> QED
  BY <1>2, <1>3, <1>4, <1>5

\* Typing, or the agents' answer.
LEMMA EditedInv ==
    ASSUME EditInv, editor # Nothing, NEW form \in Forms, NEW agents \in BOOLEAN,
           editor' = [editor EXCEPT !.form = form, !.agents = agents],
           UNCHANGED <<cacheVars, pageVars, save, saves>>
    PROVE  EditInv'
<1>1. editor \in Editors /\ editor' \in Editors
  BY DEF EditInv, EditTypeOK, Editors
<1>2. /\ editor'.entity = editor.entity /\ editor'.busy = editor.busy /\ editor'.first = editor.first
      /\ editor'.stored = editor.stored /\ editor'.initial = editor.initial
      /\ editor'.current = editor.current
  BY <1>1 DEF Editors
<1> QED
  BY <1>1, <1>2
     DEF EditInv, EditTypeOK, CacheTypeOK, EditorShowsRow, BusyIsSaving, StoredIsCurrent, cacheVars, pageVars

LEMMA TypeInv ==
    ASSUME EditInv, NEW f \in Fields, NEW v, f = "driver" => v \in Drivers, f # "driver" => v \in Values, Type(f, v)
    PROVE  EditInv'
<1>1. editor \in Editors /\ editor # Nothing
  BY DEF EditInv, EditTypeOK, Type
<1>2. [editor.form EXCEPT ![f] = v] \in Forms
  BY <1>1 DEF Editors, Forms, Fields
<1>3. editor' = [editor EXCEPT !.form = [editor.form EXCEPT ![f] = v], !.agents = editor.agents]
  BY <1>1 DEF Type, Editors
<1> QED
  BY <1>1, <1>2, <1>3, EditedInv DEF Type, Editors

LEMMA AgentsInv == ASSUME EditInv, AgentsArrive PROVE EditInv'
<1>1. editor \in Editors /\ editor # Nothing
  BY DEF EditInv, EditTypeOK, AgentsArrive
<1>2. editor' = [editor EXCEPT !.form = editor.form, !.agents = TRUE]
  BY <1>1 DEF AgentsArrive, Editors
<1> QED
  BY <1>1, <1>2, EditedInv DEF AgentsArrive, Editors

LEMMA SubmitInv == ASSUME EditInv, Submit PROVE EditInv'
<1>1. editor \in Editors /\ editor # Nothing /\ save = Nothing
  BY DEF EditInv, EditTypeOK, Submit
<1>2. BuildConfig(project, editor, editor.form) \in Settings
  <2>1. project \in Configurations /\ project[editor.entity] # Absent
    BY <1>1 DEF EditInv, EditTypeOK, CacheTypeOK, EditorShowsRow
  <2> QED
    BY <1>1, <2>1, BuiltType DEF Editors
<1> DEFINE body == BuildConfig(project, editor, editor.form)
<1> HIDE DEF body
<1>3. save' = [entity |-> editor.entity, body |-> body, stored |-> editor.stored,
               current |-> editor.current, stage |-> "sent"]
  BY DEF Submit, body
<1>4. save' \in Saves
  BY <1>1, <1>2, <1>3 DEF Saves, Editors, body
<1>5. save' # Nothing
  BY <1>4, NothingAssumption
<1>6. /\ save'.entity = editor.entity /\ save'.stored = editor.stored
      /\ save'.current = editor.current /\ save'.stage = "sent"
  BY <1>3
<1>7. editor' = [editor EXCEPT !.busy = TRUE]
  BY DEF Submit
<1>8. /\ editor' \in Editors
      /\ editor'.entity = editor.entity /\ editor'.busy /\ editor'.first = editor.first
      /\ editor'.stored = editor.stored /\ editor'.initial = editor.initial
      /\ editor'.current = editor.current
  BY <1>1, <1>7 DEF Editors
<1>9. UNCHANGED <<cacheVars, pageVars>>
  BY DEF Submit
<1>10. EditTypeOK' /\ EditorShowsRow'
  BY <1>1, <1>4, <1>8, <1>9 DEF EditInv, EditTypeOK, CacheTypeOK, EditorShowsRow, cacheVars, pageVars
<1>11. BusyIsSaving'
  BY <1>5, <1>6, <1>8 DEF BusyIsSaving
<1>12. StoredIsCurrent'
  <2>1. editor.current => rows[editor.entity] = editor.stored
    BY <1>1 DEF EditInv, StoredIsCurrent
  <2>2. rows' = rows
    BY <1>9 DEF cacheVars
  <2> QED
    BY <1>5, <1>6, <1>8, <2>1, <2>2 DEF StoredIsCurrent
<1> QED
  BY <1>10, <1>11, <1>12 DEF EditInv
\* The server stores the row of a save that is under way, or refuses it.
LEMMA SaveServedInv == ASSUME EditInv, SaveServed PROVE EditInv'
<1>1. /\ save \in Saves /\ save # Nothing /\ save.stage = "sent"
      /\ UNCHANGED <<project, asked, answers, foreign, pageVars, editor, saves>>
  BY DEF EditInv, EditTypeOK, SaveServed
<1>2. ASSUME NEW stage \in {"saved", "refused"}, save' = [save EXCEPT !.stage = stage]
      PROVE  /\ save' \in Saves /\ save' # Nothing
             /\ save'.entity = save.entity /\ save'.body = save.body /\ save'.stage = stage
  <2>1. save' \in Saves /\ save'.entity = save.entity /\ save'.body = save.body /\ save'.stage = stage
    BY <1>1, <1>2 DEF Saves
  <2> QED
    BY <2>1, NothingAssumption
<1>3. CASE Accepts(rows, save.entity)
  <2>1. rows' = [rows EXCEPT ![save.entity] = save.body] /\ save' = [save EXCEPT !.stage = "saved"]
    BY <1>1, <1>3 DEF SaveServed
  <2>2. /\ save' \in Saves /\ save' # Nothing
        /\ save'.entity = save.entity /\ save'.body = save.body /\ save'.stage = "saved"
    BY <1>2, <2>1
  <2>3. rows' \in Configurations
    BY <1>1, <1>3, <2>1, SavedConfiguration DEF EditInv, EditTypeOK, CacheTypeOK, Saves
  <2>4. EditTypeOK' /\ EditorShowsRow'
    BY <1>1, <2>2, <2>3 DEF EditInv, EditTypeOK, CacheTypeOK, EditorShowsRow, pageVars
  <2>5. BusyIsSaving'
    BY <1>1, <2>2 DEF EditInv, BusyIsSaving
  <2>6. rows'[save.entity] = save.body
    BY <1>1, <2>1 DEF EditInv, EditTypeOK, CacheTypeOK, Configurations, Saves
  <2>7. StoredIsCurrent'
    BY <1>1, <2>2, <2>6 DEF EditInv, BusyIsSaving, StoredIsCurrent
  <2> QED
    BY <2>4, <2>5, <2>7 DEF EditInv
<1>4. CASE ~ Accepts(rows, save.entity)
  <2>1. rows' = rows /\ save' = [save EXCEPT !.stage = "refused"]
    BY <1>1, <1>4 DEF SaveServed
  <2>2. /\ save' \in Saves /\ save' # Nothing
        /\ save'.entity = save.entity /\ save'.body = save.body /\ save'.stage = "refused"
    BY <1>2, <2>1
  <2> QED
    BY <1>1, <2>1, <2>2
       DEF EditInv, EditTypeOK, CacheTypeOK, EditorShowsRow, BusyIsSaving, StoredIsCurrent, pageVars
<1> QED
  BY <1>3, <1>4

\* The editor whose save is answered holds what the server holds.
LEMMA SaveAnsweredInv == ASSUME EditInv, SaveAnswered PROVE EditInv'
<1>1. /\ save \in Saves /\ save # Nothing /\ save.stage = "saved" /\ save' = Nothing
      /\ UNCHANGED <<rows, project, answers, foreign, pageVars, saves>>
  BY DEF EditInv, EditTypeOK, SaveAnswered
<1>2. CacheTypeOK'
  <2>1. /\ CacheTypeOK /\ asked \in Nat /\ Len(answers) \in Nat /\ MaxFetches \in Nat
        /\ asked' = asked + 1 /\ asked + Len(answers) < MaxFetches /\ answers' = answers
    BY FetchAssumption, <1>1 DEF EditInv, EditTypeOK, CacheTypeOK, SaveAnswered, Refresh
  <2>2. asked' \in 0 .. MaxFetches /\ asked' + Len(answers') <= MaxFetches
    BY <2>1
  <2> QED
    BY <1>1, <2>1, <2>2 DEF CacheTypeOK
<1>3. CASE editor # Nothing /\ editor.busy
  <2>1. editor \in Editors /\ save.body \in Settings
    BY <1>1, <1>3 DEF EditInv, EditTypeOK, Saves
  <2>2. editor' = [editor EXCEPT !.busy = FALSE, !.stored = save.body, !.first = FALSE]
    BY <1>3 DEF SaveAnswered
  <2>3. /\ editor' \in Editors /\ editor'.entity = editor.entity /\ ~ editor'.busy
        /\ editor'.stored = save.body /\ ~ editor'.first /\ editor'.current = editor.current
    BY <2>1, <2>2 DEF Editors
  <2>4. EditTypeOK' /\ EditorShowsRow' /\ BusyIsSaving'
    BY <1>1, <1>2, <1>3, <2>3 DEF EditInv, EditTypeOK, EditorShowsRow, BusyIsSaving, pageVars
  <2>5. editor.current => rows[editor.entity] = save.body
    BY <1>1, <1>3 DEF EditInv, StoredIsCurrent
  <2>6. StoredIsCurrent'
    BY <1>1, <2>3, <2>5 DEF StoredIsCurrent
  <2> QED
    BY <2>4, <2>6 DEF EditInv
<1>4. CASE ~ (editor # Nothing /\ editor.busy)
  <2>1. editor' = editor
    BY <1>4 DEF SaveAnswered
  <2>2. EditTypeOK' /\ EditorShowsRow' /\ BusyIsSaving'
    BY <1>1, <1>2, <1>4, <2>1 DEF EditInv, EditTypeOK, EditorShowsRow, BusyIsSaving, pageVars
  <2>3. StoredIsCurrent'
    BY <1>1, <1>4, <2>1 DEF EditInv, StoredIsCurrent
  <2> QED
    BY <2>2, <2>3 DEF EditInv
<1> QED
  BY <1>3, <1>4

\* An editor whose row is not known to be current any more.
LEMMA ClearedType ==
    ASSUME NEW ed \in Editors
    PROVE  LET new == [ed EXCEPT !.current = FALSE]
           IN  /\ new \in Editors /\ ~ new.current
               /\ new.entity = ed.entity /\ new.busy = ed.busy
               /\ new.first = ed.first /\ new.stored = ed.stored /\ new.initial = ed.initial
BY DEF Editors

LEMMA SaveFailedInv == ASSUME EditInv, SaveFailed PROVE EditInv'
<1>1. /\ save # Nothing /\ save' = Nothing /\ editor' = Failed(editor)
      /\ UNCHANGED <<rows, project, asked, answers, foreign, pageVars, saves>>
  BY DEF SaveFailed
<1>2. CASE editor # Nothing /\ editor.busy
  <2>1. editor \in Editors /\ editor' = [editor EXCEPT !.busy = FALSE, !.current = FALSE]
    BY <1>1, <1>2 DEF EditInv, EditTypeOK, Failed
  <2>2. /\ editor' \in Editors /\ editor'.entity = editor.entity /\ ~ editor'.busy /\ ~ editor'.current
        /\ editor'.first = editor.first /\ editor'.stored = editor.stored
        /\ editor'.initial = editor.initial
    BY <2>1 DEF Editors
  <2> QED
    BY <1>1, <1>2, <2>2
       DEF EditInv, EditTypeOK, CacheTypeOK, EditorShowsRow, BusyIsSaving, StoredIsCurrent, pageVars
<1>3. CASE ~ (editor # Nothing /\ editor.busy)
  <2>1. editor' = editor
    BY <1>1, <1>3 DEF Failed
  <2> QED
    BY <1>1, <1>3, <2>1
       DEF EditInv, EditTypeOK, CacheTypeOK, EditorShowsRow, BusyIsSaving, StoredIsCurrent, pageVars
<1> QED
  BY <1>2, <1>3

\* A fetch gives the console another copy; the editor may have to go.
LEMMA FetchingInv == ASSUME EditInv, Fetching PROVE EditInv'
<1> DEFINE target == InspectorTarget(project', node, row)
           ed == Rendered(editor, project', target)
<1>1. /\ CacheTypeOK' /\ rows' = rows
      /\ editor' = IF ed # Nothing /\ project' # rows THEN [ed EXCEPT !.current = FALSE] ELSE ed
      /\ UNCHANGED <<pageVars, save, saves>>
  BY CacheStepType DEF EditInv, EditTypeOK, Fetching
<1>2. ed \in Editors \union {Nothing} /\ Shown(ed, project')
  BY <1>1, MountedShown DEF EditInv, EditTypeOK, EditorShowsRow, CacheTypeOK
<1>3. ed = Nothing \/ ed = editor \/ (/\ ~ ed.busy /\ ed.current = (project' = rows /\ save = Nothing)
                                      /\ ed.stored = project'[ed.entity])
  <2> HIDE DEF target
  <2> QED
    BY DEF Rendered, Mount
<1> HIDE DEF ed
<1>4. CASE ed # Nothing /\ project' # rows
  <2>1. editor' = [ed EXCEPT !.current = FALSE] /\ ed \in Editors
    BY <1>1, <1>2, <1>4
  <2>2. /\ editor' \in Editors /\ ~ editor'.current
        /\ editor'.entity = ed.entity /\ editor'.busy = ed.busy
        /\ editor'.first = ed.first /\ editor'.stored = ed.stored /\ editor'.initial = ed.initial
    BY <2>1, ClearedType
  <2>3. EditTypeOK' /\ EditorShowsRow'
    BY <1>1, <1>2, <1>4, <2>2 DEF EditInv, EditTypeOK, EditorShowsRow, Shown, pageVars
  <2>4. BusyIsSaving' /\ StoredIsCurrent'
    BY <1>1, <1>3, <1>4, <2>2 DEF EditInv, BusyIsSaving, StoredIsCurrent
  <2> QED
    BY <2>3, <2>4 DEF EditInv
<1>5. CASE ~ (ed # Nothing /\ project' # rows)
  <2>1. editor' = ed
    BY <1>1, <1>5
  <2>2. EditTypeOK' /\ EditorShowsRow'
    BY <1>1, <1>2, <2>1 DEF EditInv, EditTypeOK, EditorShowsRow, Shown, pageVars
  <2>3. BusyIsSaving' /\ StoredIsCurrent'
    BY <1>1, <1>3, <1>5, <2>1 DEF EditInv, BusyIsSaving, StoredIsCurrent
  <2> QED
    BY <2>2, <2>3 DEF EditInv
<1> QED
  BY <1>4, <1>5
\* Whatever another client does to the rows, they stay a configuration.
LEMMA ForeignType ==
    ASSUME EditInv, OtherClient
    PROVE  CacheTypeOK'
<1>1. rows \in Configurations /\ CacheTypeOK
  BY DEF EditInv, EditTypeOK, CacheTypeOK
<1>2. ASSUME NEW r \in Configurations, ForeignChange(r)
      PROVE  CacheTypeOK'
  <2>1. foreign' \in 0 .. MaxForeign
    BY <1>1, <1>2, FetchAssumption DEF ForeignChange, CacheTypeOK
  <2> QED
    BY <1>1, <1>2, <2>1 DEF ForeignChange, CacheTypeOK
<1>3. ASSUME NEW e \in Entities, rows[e] # Absent, NEW c \in Settings
      PROVE  [rows EXCEPT ![e] = c] \in Configurations
  BY <1>1, <1>3, SavedConfiguration DEF Accepts, Configurations
<1>4. PICK e \in Entities :
        /\ rows[e] # Absent
        /\ \/ \E f \in {"opt", "rest"}, v \in Values :
                 ForeignChange([rows EXCEPT ![e] = [@ EXCEPT ![f] = v]])
           \/ Kind[e] = "channel" /\ \E d \in Drivers :
                 ForeignChange([rows EXCEPT ![e] = [@ EXCEPT !.driver = d]])
           \/ ForeignChange(Without(rows, e))
  BY DEF OtherClient
<1>5. rows[e] \in Settings
  BY <1>1, <1>4, SettingsAssumption DEF Configurations
<1>6. ASSUME NEW f \in {"opt", "rest"}, NEW v \in Values,
             ForeignChange([rows EXCEPT ![e] = [@ EXCEPT ![f] = v]])
      PROVE  CacheTypeOK'
  <2>1. [rows[e] EXCEPT ![f] = v] \in Settings
    BY <1>5 DEF Settings
  <2>2. [rows EXCEPT ![e] = [@ EXCEPT ![f] = v]] \in Configurations
    BY <1>3, <1>4, <2>1
  <2> QED
    BY <1>2, <1>6, <2>2
<1>7. ASSUME NEW d \in Drivers, ForeignChange([rows EXCEPT ![e] = [@ EXCEPT !.driver = d]])
      PROVE  CacheTypeOK'
  <2>1. [rows[e] EXCEPT !.driver = d] \in Settings
    BY <1>5 DEF Settings
  <2>2. [rows EXCEPT ![e] = [@ EXCEPT !.driver = d]] \in Configurations
    BY <1>3, <1>4, <2>1
  <2> QED
    BY <1>2, <1>7, <2>2
<1>8. CASE ForeignChange(Without(rows, e))
  BY <1>1, <1>2, <1>8, RemovedConfiguration
<1> QED
  BY <1>4, <1>6, <1>7, <1>8

LEMMA OtherClientInv == ASSUME EditInv, OtherClient PROVE EditInv'
<1>1. CacheTypeOK' /\ project' = project
  BY ForeignType DEF OtherClient, ForeignChange
<1>2. /\ editor' = IF editor = Nothing THEN Nothing ELSE [editor EXCEPT !.current = FALSE]
      /\ save' = IF save = Nothing THEN Nothing ELSE [save EXCEPT !.current = FALSE]
      /\ UNCHANGED <<pageVars, saves>>
  BY DEF OtherClient
<1>3. \/ editor' = Nothing
      \/ /\ editor # Nothing /\ editor' \in Editors /\ ~ editor'.current
         /\ editor'.entity = editor.entity /\ editor'.busy = editor.busy
         /\ editor'.first = editor.first /\ editor'.stored = editor.stored
         /\ editor'.initial = editor.initial
  BY <1>2, ClearedType DEF EditInv, EditTypeOK
<1>4. \/ save = Nothing /\ save' = Nothing
      \/ save # Nothing /\ save' \in Saves /\ save'.entity = save.entity /\ ~ save'.current
  <2>1. CASE save # Nothing
    <3>1. save \in Saves /\ save' = [save EXCEPT !.current = FALSE]
      BY <1>2, <2>1 DEF EditInv, EditTypeOK
    <3>2. save' \in Saves /\ save'.entity = save.entity /\ ~ save'.current
      BY <3>1 DEF Saves
    <3> QED
      BY <2>1, <3>2
  <2> QED
    BY <1>2, <2>1
<1>5. save # Nothing => save' # Nothing
  BY <1>4, NothingAssumption
<1>6. EditTypeOK' /\ EditorShowsRow'
  BY <1>1, <1>2, <1>3, <1>4 DEF EditInv, EditTypeOK, EditorShowsRow, pageVars
<1>7. BusyIsSaving'
  BY <1>3, <1>4, <1>5 DEF EditInv, BusyIsSaving
<1>8. StoredIsCurrent'
  BY <1>3, <1>4 DEF StoredIsCurrent
<1> QED
  BY <1>6, <1>7, <1>8 DEF EditInv

\* Every step, and none.
LEMMA NextInv == EditInv /\ [Next]_vars => EditInv'
<1> SUFFICES ASSUME EditInv, [Next]_vars PROVE EditInv'
  OBVIOUS
<1>1. node \in Entities \union {Root} /\ row \in {Id[e] : e \in Entities} \union {Nothing}
      /\ tab \in {"items", "properties"}
  BY DEF EditInv, EditTypeOK
<1>2. ASSUME NEW n \in Entities \union {Root}, SelectNode(n) PROVE EditInv'
  BY <1>1, <1>2, ShowInv DEF SelectNode, Shows
<1>3. ASSUME NEW e \in Entities, SelectRow(e) PROVE EditInv'
  BY <1>1, <1>3, ShowInv DEF SelectRow, Shows
<1>4. ASSUME NEW e \in Entities, Jump(e) PROVE EditInv'
  <2>1. Kind[e] = "tag" => Parent[e] \in Entities
    BY KindAssumption
  <2>2. CASE Kind[e] = "tag" /\ Shows(Parent[e], Id[e])
    BY <1>1, <2>1, <2>2, ShowInv DEF Shows
  <2>3. CASE Shows(e, Nothing)
    BY <1>1, <2>3, ShowInv DEF Shows
  <2> QED
    BY <1>4, <2>2, <2>3 DEF Jump
<1>5. CASE SwitchTab
  BY <1>1, <1>5, ShowInv DEF SwitchTab
<1>6. CASE \E f \in {"name", "opt"}, v \in Values : Type(f, v)
  BY <1>6, TypeInv DEF Fields
<1>7. CASE \E d \in Drivers : Type("driver", d)
  BY <1>7, TypeInv DEF Fields
<1>8. CASE UNCHANGED vars
  BY <1>8 DEF vars, cacheVars, pageVars, EditInv, EditTypeOK, CacheTypeOK, EditorShowsRow,
              BusyIsSaving, StoredIsCurrent
<1> QED
  BY <1>2, <1>3, <1>4, <1>5, <1>6, <1>7, <1>8, AgentsInv, SubmitInv, SaveServedInv,
     SaveAnsweredInv, SaveFailedInv, FetchingInv, OtherClientInv DEF Next

LEMMA InvHolds == Spec => []EditInv
BY InitInv, NextInv, PTL DEF Spec

-----------------------------------------------------------------------------
(* The theorems. *)

\* Whatever was typed into an editor that has not saved yet is reported as unsaved, however
\* often the project is fetched again under it and whatever comes with it (lib/dirty.tsx,
\* EntityInspector.tsx): what a save would send is the snapshot only if the form's fields
\* are those of the snapshot, or count for nothing in this kind of entity.
THEOREM FirstEditsAlwaysFlagged == Spec => []FirstEditsFlagged
<1>1. EditInv => FirstEditsFlagged
  <2> SUFFICES ASSUME EditInv, Unsaved, editor.first,
                      BuildConfig(project, editor, editor.form) = editor.initial
               PROVE  FALSE
    BY DEF FirstEditsFlagged, Dirty, Unsaved
  <2>1. /\ editor \in Editors /\ editor # Nothing /\ project \in Configurations
        /\ project[editor.entity] # Absent /\ editor.stored = editor.initial
    BY DEF EditInv, EditTypeOK, CacheTypeOK, EditorShowsRow, Unsaved
  <2>2. editor.form \in Forms /\ editor.initial \in Settings
    BY <2>1 DEF Editors
  <2>3. BuildConfig(project, editor, FormOf(editor.initial)) = editor.initial
    BY <2>1, <2>2, SameAsStored
  <2> QED
    BY <2>1, <2>3 DEF Unsaved
<1> QED
  BY <1>1, InvHolds, PTL

\* A save of an editor that was mounted on the current configuration, with no other client at
\* work since, finds the row as its operator saw or saved it, in all its fields, through any
\* fetches, selections and failed saves in between (EntityInspector.tsx save, routes.ts put).
THEOREM SavesAreInformed == Spec => NoBlindOverwrite
<1> DEFINE Informed ==
      SaveServed /\ save.current /\ rows # rows' =>
          \A f \in Fields \union {"rest"} :
              rows'[save.entity][f] # rows[save.entity][f]
              => rows[save.entity][f] = save.stored[f]
<1>1. EditInv /\ [Next]_vars => [Informed]_vars
  BY DEF EditInv, StoredIsCurrent, SaveServed
<1> QED
  BY <1>1, InvHolds, PTL DEF Spec, NoBlindOverwrite
=============================================================================
