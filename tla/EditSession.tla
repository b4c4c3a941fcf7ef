----------------------------- MODULE EditSession -----------------------------
(***************************************************************************)
(* The property editor of the console: what is selected (ConnectivityPage), *)
(* the editor of the selected entity (EntityInspector), its unsaved edits   *)
(* (lib/dirty.tsx) and its saves, over a copy of the project that lags.     *)
(* A configuration has a name and a driver-dependent part `opt`, which the  *)
(* form shows, a driver (of channels), and a `rest` the form does not show. *)
(***************************************************************************)
EXTENDS ProjectCache, FiniteSets

CONSTANTS
    Kind,    \* "channel", "device" or "tag"
    Id,      \* the id of an entity, unique among those of its kind
    Values,  \* what a field may hold
    Initial, \* the configurations the server may start with
    MaxChanges, \* bound: saves of this console and changes of other clients
    Nothing  \* no row, no editor, no save

Drivers == {"modbus", "opcua"}
Fields == {"name", "opt", "driver"}
Forms == [name : Values, opt : Values, driver : Drivers]
Settings == [name : Values, opt : Values, driver : Drivers, rest : Values]

ASSUME SettingsAssumption == Configs = Settings
ASSUME InitialAssumption == Initial \subseteq Configurations
ASSUME IdAssumption ==
    \A d, e \in Entities : Kind[d] = Kind[e] /\ Id[d] = Id[e] => d = e

\* Channels have devices, and devices have tags.
ASSUME KindAssumption ==
    /\ Kind \in [Entities -> {"channel", "device", "tag"}]
    /\ \A e \in Entities :
          /\ Kind[e] = "channel" => Parent[e] = Root
          /\ Kind[e] = "device" => Parent[e] \in Entities /\ Kind[Parent[e]] = "channel"
          /\ Kind[e] = "tag" => Parent[e] \in Entities /\ Kind[Parent[e]] = "device"

\* An editor, and a save that has not settled.
Editors ==
    [entity : Entities, form : Forms, initial : Settings, agents : BOOLEAN,
     busy : BOOLEAN, stored : Settings, first : BOOLEAN, current : BOOLEAN]
Saves ==
    [entity : Entities, body : Settings, stored : Settings, current : BOOLEAN,
     stage : {"sent", "saved", "refused"}]

ASSUME NothingAssumption == Nothing \notin Saves

VARIABLES
    node,    \* the node selected in the tree, Root for "Connectivity"
    row,     \* the id of the row selected in the grid, or Nothing
    tab,     \* what the upper pane shows: "items" (the grid) or "properties"
    editor,  \* the mounted editor, or Nothing
    save,    \* the save that has not settled, or Nothing
    saves    \* saves so far

pageVars == <<node, row, tab>>
vars == <<cacheVars, pageVars, editor, save, saves>>

Rank == [channel |-> 1, device |-> 2, tag |-> 3]

\* find: channels first, then devices, then tags, by id alone.
Find(p, id) ==
    LET found == {e \in Entities : p[e] # Absent /\ Id[e] = id}
    IN  IF found = {} THEN Nothing
        ELSE CHOOSE e \in found : \A x \in found : Rank[Kind[e]] <= Rank[Kind[x]]

\* The entity the inspector shows: that of the row, else that of the node.
InspectorTarget(p, n, r) ==
    IF p = Absent THEN Nothing
    ELSE IF r # Nothing /\ Find(p, r) # Nothing THEN Find(p, r)
    ELSE IF n = Root THEN Nothing ELSE Find(p, Id[n])

\* What the three editors send for their entity: the entity, with the fields of
\* the form over it.  The form of a device shows settings only if its channel
\* has a Modbus driver; the overrides of a tag count once the agents are known.
ChannelConfig(c, f) ==
    [c EXCEPT !.name = f.name, !.driver = f.driver, !.opt = IF f.driver = "opcua" THEN f.opt ELSE @]
DeviceConfig(c, f, driver) ==
    [c EXCEPT !.name = f.name, !.opt = IF driver = "modbus" THEN f.opt ELSE @]
MqttOverrides(existing, f, agents) == IF agents THEN f.opt ELSE existing
TagConfig(c, f, agents) ==
    [c EXCEPT !.name = f.name, !.opt = MqttOverrides(@, f, agents)]

BuildConfig(p, ed, f) ==
    CASE Kind[ed.entity] = "channel" -> ChannelConfig(p[ed.entity], f)
      [] Kind[ed.entity] = "device"  -> DeviceConfig(p[ed.entity], f, p[Parent[ed.entity]].driver)
      [] Kind[ed.entity] = "tag"     -> TagConfig(p[ed.entity], f, ed.agents)

\* The fields each editor offers: the settings of a driver for that driver only.
ChannelFields(f) == {"name", "driver"} \union IF f.driver = "opcua" THEN {"opt"} ELSE {}
DeviceFields(driver) == {"name"} \union IF driver = "modbus" THEN {"opt"} ELSE {}
TagFields(agents) == {"name"} \union IF agents THEN {"opt"} ELSE {}

FieldsOf(p, ed) ==
    CASE Kind[ed.entity] = "channel" -> ChannelFields(ed.form)
      [] Kind[ed.entity] = "device"  -> DeviceFields(p[Parent[ed.entity]].driver)
      [] Kind[ed.entity] = "tag"     -> TagFields(ed.agents)

FormOf(c) == [name |-> c.name, opt |-> c.opt, driver |-> c.driver]

\* A new editor: its form and its snapshot are taken from the entity, once.
\* stored, first and current are ghosts: what was mounted or last saved, whether
\* nothing has been saved yet, and whether `stored` is what the server holds.
Mount(p, e) ==
    [entity |-> e, form |-> FormOf(p[e]), initial |-> p[e], agents |-> FALSE,
     busy |-> FALSE, stored |-> p[e], first |-> TRUE, current |-> p = rows /\ save = Nothing]

\* Fault: the inspector has no key, the editor is kept for the next entity.
FaultRendered(ed, p, target) ==
    IF target = Nothing THEN Nothing
    ELSE IF ed # Nothing THEN [ed EXCEPT !.entity = target] ELSE Mount(p, target)

\* The key of the inspector is its entity: another entity is another editor.
Rendered(ed, p, target) ==
    IF target = Nothing THEN Nothing
    ELSE IF ed # Nothing /\ ed.entity = target THEN ed ELSE Mount(p, target)

\* Fault: compared with the entity of the project instead of the snapshot.
FaultDirty == editor # Nothing /\ BuildConfig(project, editor, editor.form) # project[editor.entity]

\* useDirtyReporter: the entity the form would send is not the one of the first render.
Dirty == editor # Nothing /\ BuildConfig(project, editor, editor.form) # editor.initial

\* What the operator has typed and not saved.
Unsaved ==
    /\ editor # Nothing
    /\ BuildConfig(project, editor, editor.form) # BuildConfig(project, editor, FormOf(editor.stored))

Shows(n, r) ==
    /\ node' = n
    /\ row' = r
    /\ editor' = Rendered(editor, project, InspectorTarget(project, n, r))
    /\ UNCHANGED <<cacheVars, tab, save, saves>>

Init ==
    /\ CacheInit(Initial)
    /\ node = Root
    /\ row = Nothing
    /\ tab = "items"
    /\ editor = Nothing
    /\ save = Nothing
    /\ saves = 0

\* A click in the tree.  With unsaved changes the operator is asked, unless the
\* node is the one already selected; a refusal changes nothing.
SelectNode(n) ==
    /\ project # Absent
    /\ n # Root => project[n] # Absent /\ Kind[n] # "tag"
    /\ Shows(n, Nothing)

\* A click in the grid, which lists the children of the node; asks likewise.
SelectRow(e) ==
    /\ project # Absent /\ tab = "items"
    /\ project[e] # Absent /\ Parent[e] = node
    /\ Shows(node, Id[e])

\* A jump by the command palette; nobody is asked.
Jump(e) ==
    /\ project # Absent /\ project[e] # Absent
    /\ IF Kind[e] = "tag" THEN Shows(Parent[e], Id[e]) ELSE Shows(e, Nothing)

\* The inspector is in the upper pane on the tab Properties and in the lower pane
\* otherwise: changing between them makes another editor.
SwitchTab ==
    /\ tab' = IF tab = "items" THEN "properties" ELSE "items"
    /\ editor' = Rendered(Nothing, project, InspectorTarget(project, node, row))
    /\ UNCHANGED <<cacheVars, node, row, save, saves>>

Type(field, v) ==
    /\ editor # Nothing
    /\ field \in FieldsOf(project, editor)
    /\ editor' = [editor EXCEPT !.form[field] = v]
    /\ UNCHANGED <<cacheVars, pageVars, save, saves>>

\* A tag's editor asks for the MQTT agents when it is mounted.
AgentsArrive ==
    /\ editor # Nothing /\ Kind[editor.entity] = "tag" /\ ~editor.agents
    /\ editor' = [editor EXCEPT !.agents = TRUE]
    /\ UNCHANGED <<cacheVars, pageVars, save, saves>>

\* Save: the whole entity is sent.  The button is disabled while a save of this
\* editor is on its way.  Bound: one save at a time.
Submit ==
    /\ editor # Nothing /\ ~editor.busy /\ save = Nothing
    /\ saves + foreign < MaxChanges
    /\ saves' = saves + 1
    /\ editor' = [editor EXCEPT !.busy = TRUE]
    /\ save' = [entity |-> editor.entity, body |-> BuildConfig(project, editor, editor.form),
                stored |-> editor.stored, current |-> editor.current, stage |-> "sent"]
    /\ UNCHANGED <<cacheVars, pageVars>>

\* The server stores the row, one that is gone too, unless its parent is gone.
SaveServed ==
    /\ save # Nothing /\ save.stage = "sent"
    /\ IF Accepts(rows, save.entity)
       THEN /\ rows' = [rows EXCEPT ![save.entity] = save.body]
            /\ save' = [save EXCEPT !.stage = "saved"]
       ELSE /\ save' = [save EXCEPT !.stage = "refused"]
            /\ UNCHANGED rows
    /\ UNCHANGED <<project, asked, answers, foreign, pageVars, editor, saves>>

Failed(ed) ==
    IF ed # Nothing /\ ed.busy THEN [ed EXCEPT !.busy = FALSE, !.current = FALSE] ELSE ed

\* The answer: the project is fetched again, whichever editor is mounted now.
SaveAnswered ==
    /\ save # Nothing /\ save.stage = "saved"
    /\ Refresh
    /\ editor' = IF editor # Nothing /\ editor.busy
                 THEN [editor EXCEPT !.busy = FALSE, !.stored = save.body, !.first = FALSE] ELSE editor
    /\ save' = Nothing
    /\ UNCHANGED <<rows, project, answers, foreign, pageVars, saves>>

\* An error answer, or none: the editor shows the error and nothing is fetched.
SaveFailed ==
    /\ save # Nothing
    /\ editor' = Failed(editor)
    /\ save' = Nothing
    /\ UNCHANGED <<rows, project, asked, answers, foreign, pageVars, saves>>

\* The cache's steps.  An answer gives the mounted editor a new entity: it stays
\* mounted, and its form stays, unless the entity shown is another one now.
Fetching ==
    /\ CacheStep
    /\ LET ed == Rendered(editor, project', InspectorTarget(project', node, row))
       IN  editor' = IF ed # Nothing /\ project' # rows THEN [ed EXCEPT !.current = FALSE] ELSE ed
    /\ UNCHANGED <<pageVars, save, saves>>

\* Another client saves an entity, with any of its fields changed, or deletes it.
OtherClient ==
    /\ saves + foreign < MaxChanges
    /\ \E e \in Entities :
          /\ rows[e] # Absent
          /\ \/ \E f \in {"opt", "rest"}, v \in Values :
                   ForeignChange([rows EXCEPT ![e] = [@ EXCEPT ![f] = v]])
             \/ Kind[e] = "channel" /\ \E d \in Drivers :
                   ForeignChange([rows EXCEPT ![e] = [@ EXCEPT !.driver = d]])
             \/ ForeignChange(Without(rows, e))
    /\ editor' = IF editor = Nothing THEN Nothing ELSE [editor EXCEPT !.current = FALSE]
    /\ save' = IF save = Nothing THEN Nothing ELSE [save EXCEPT !.current = FALSE]
    /\ UNCHANGED <<pageVars, saves>>

Next ==
    \/ \E n \in Entities \union {Root} : SelectNode(n)
    \/ \E e \in Entities : SelectRow(e) \/ Jump(e)
    \/ SwitchTab
    \/ \E f \in {"name", "opt"}, v \in Values : Type(f, v)
    \/ \E d \in Drivers : Type("driver", d)
    \/ AgentsArrive
    \/ Submit \/ SaveServed \/ SaveAnswered \/ SaveFailed
    \/ Fetching
    \/ OtherClient

Spec == Init /\ [][Next]_vars

-----------------------------------------------------------------------------
\* The types of the variables of this module and of the cache.
EditTypeOK ==
    /\ CacheTypeOK
    /\ node \in Entities \union {Root}
    /\ row \in {Id[e] : e \in Entities} \union {Nothing}
    /\ tab \in {"items", "properties"}
    /\ editor \in Editors \union {Nothing}
    /\ save \in Saves \union {Nothing}

\* The entity an editor is mounted for is in the console's copy, and until the first
\* save what was mounted is the snapshot.
EditorShowsRow ==
    editor # Nothing =>
        /\ project # Absent /\ project[editor.entity] # Absent
        /\ editor.first => editor.stored = editor.initial

\* The editor that is busy is the one whose save is under way, and as long as nobody
\* else is at work its row is what it was mounted on or has saved since.
BusyIsSaving ==
    editor # Nothing /\ editor.busy => save # Nothing /\ save.entity = editor.entity

StoredIsCurrent ==
    /\ editor # Nothing /\ editor.current =>
         IF save = Nothing THEN rows[editor.entity] = editor.stored
         ELSE /\ editor.busy
              /\ rows[editor.entity] = IF save.stage = "saved" THEN save.body ELSE editor.stored
    /\ save # Nothing /\ save.current /\ save.stage = "sent" => rows[save.entity] = save.stored

\* The inductive invariant.
EditInv == EditTypeOK /\ EditorShowsRow /\ BusyIsSaving /\ StoredIsCurrent

\* Edits of an editor that has not saved yet are flagged, whatever is refetched in the
\* meantime: the flag is what going to another node or row and closing the page ask by.
\* A click on the node that is already selected asks nothing (ConnectivityPage.tsx:406).
FirstEditsFlagged == Unsaved /\ editor.first => Dirty

\* A save of an editor mounted on the current configuration, with no other client
\* at work since, replaces only what the operator has seen or saved there.
NoBlindOverwrite ==
    [][SaveServed /\ save.current /\ rows # rows' =>
          \A f \in Fields \union {"rest"} :
              rows'[save.entity][f] # rows[save.entity][f]
              => rows[save.entity][f] = save.stored[f]]_vars

=============================================================================
