--------------------------- MODULE ProjectDialogs ---------------------------
(***************************************************************************)
(* The dialogs of the console that change the project (web/src/App.tsx,     *)
(* EntityModal, ConfirmDeleteModal): create, delete with an undo toast, new *)
(* project.  Each sends its requests one by one and works on the console's  *)
(* copy of the project.  Ids are distinct across kinds here (EditSession    *)
(* has what happens when they are not).                                     *)
(***************************************************************************)
EXTENDS ProjectCache

CONSTANTS
    Series,   \* sequences of entities of one kind: those a slug names as such, with -2, -3 ...
    Initial,  \* the configurations the server may start with
    MaxChanges, \* bound: dialogs confirmed in this console and changes of other clients
    Nothing   \* no selection, no dialog, no request

ASSUME SeriesAssumption == Series \subseteq Seq(Entities)
ASSUME InitialAssumption == Initial \subseteq Configurations

VARIABLES
    node, row,  \* the selection: tree node (or Root) and grid row (or Nothing)
    dialog,     \* the delete dialog: its target and the snapshot for the undo, or Nothing
    busy,       \* the busy flag of the delete dialog, which outlives its target
    deleting,   \* the DELETE request that has not settled, or Nothing
    toast,      \* what the Undo button of the toast would restore, or Nothing
    undoing,    \* the undo at work: the snapshot and the entities still to create, or Nothing
    creating,   \* the POST of the create dialog that has not settled, or Nothing
    resetting,  \* the import of the empty project: "no", "sent" or "done"
    own         \* dialogs confirmed so far

selVars == <<node, row>>
delVars == <<dialog, busy, deleting>>
dialogVars == <<cacheVars, selVars, delVars, toast, undoing, creating, resetting, own>>

Idle == deleting = Nothing /\ undoing = Nothing /\ creating = Nothing /\ resetting = "no"

\* What the Delete action means: the selected row, or else the selected node.
DeleteTarget ==
    IF project = Absent THEN Nothing
    ELSE IF row # Nothing /\ project[row] # Absent THEN row
    ELSE IF node # Root /\ project[node] # Absent THEN node ELSE Nothing

\* Fault: the snapshot of a channel has its devices without their tags.
FaultDeleteSnapshot(e) ==
    [x \in Entities |-> IF x = e \/ Parent[x] = e THEN project[x] ELSE Absent]

\* What a deletion of e removes, as far as the console knows.
DeleteSnapshot(e) == [x \in Entities |-> IF x \in Subtree(e) THEN project[x] ELSE Absent]

\* The entities of a snapshot; channels are created again first, then devices, then
\* tags, those of a kind in any order.
Level(e) == IF Parent[e] = Root THEN 1 ELSE IF Parent[Parent[e]] = Root THEN 2 ELSE 3
Listed(snapshot) == {e \in Entities : snapshot[e] # Absent}
Foremost(left) == {e \in left : \A x \in left : Level(e) <= Level(x)}

\* The first entity of the series that the console does not know.
UniqueId(p, s) ==
    LET free == {i \in DOMAIN s : p[s[i]] = Absent}
    IN  IF free = {} THEN Nothing ELSE s[CHOOSE i \in free : \A j \in free : i <= j]

\* A ghost of a request: it was prepared on what the server holds, and nothing
\* but this console's dialogs, one at a time, was at work since.
Current == project = rows /\ Idle
Disturbed(r) == IF r = Nothing THEN Nothing ELSE [r EXCEPT !.current = FALSE]

DialogsInit ==
    /\ CacheInit(Initial)
    /\ node = Root /\ row = Nothing
    /\ dialog = Nothing /\ busy = FALSE /\ deleting = Nothing
    /\ toast = Nothing /\ undoing = Nothing /\ creating = Nothing /\ resetting = "no"
    /\ own = 0

Select(n, r) ==
    /\ project # Absent /\ dialog = Nothing
    /\ n # Root => project[n] # Absent /\ Level(n) < 3
    /\ r # Nothing => project[r] # Absent /\ Parent[r] = n
    /\ node' = n /\ row' = r
    /\ UNCHANGED <<cacheVars, delVars, toast, undoing, creating, resetting, own>>

\* Delete in the menu, the toolbar, the palette or by key: the dialog opens and
\* the undo's snapshot is taken.
OpenDelete ==
    /\ dialog = Nothing /\ DeleteTarget # Nothing
    /\ dialog' = [entity |-> DeleteTarget, snapshot |-> DeleteSnapshot(DeleteTarget), current |-> Current]
    /\ UNCHANGED <<cacheVars, selVars, busy, deleting, toast, undoing, creating, resetting, own>>

CancelDelete ==
    /\ dialog # Nothing
    /\ dialog' = Nothing
    /\ UNCHANGED <<cacheVars, selVars, busy, deleting, toast, undoing, creating, resetting, own>>

\* The confirm button is disabled while busy.
ConfirmDelete ==
    /\ dialog # Nothing /\ ~busy /\ own + foreign < MaxChanges
    /\ busy' = TRUE
    /\ deleting' = [entity |-> dialog.entity, snapshot |-> dialog.snapshot, removed |-> rows,
                    current |-> dialog.current, stage |-> "sent"]
    /\ own' = own + 1
    /\ undoing' = Disturbed(undoing)
    /\ UNCHANGED <<cacheVars, selVars, dialog, toast, creating, resetting>>

\* The server removes the entity with what is below it; 404 if it is gone.
DeleteServed ==
    /\ deleting # Nothing /\ deleting.stage = "sent"
    /\ IF rows[deleting.entity] # Absent
       THEN /\ rows' = Without(rows, deleting.entity)
            /\ deleting' = [deleting EXCEPT !.stage = "done",
                              !.removed = [x \in Entities |-> IF rows'[x] = Absent THEN rows[x] ELSE Absent]]
       ELSE /\ deleting' = [deleting EXCEPT !.stage = "refused"]
            /\ UNCHANGED rows
    /\ UNCHANGED <<project, asked, answers, foreign, selVars, dialog, busy, toast, undoing,
                   creating, resetting, own>>

\* onDeleted: the dialog closes, the toast offers the snapshot, the parent is selected.
DeleteAnswered ==
    /\ deleting # Nothing /\ deleting.stage = "done"
    /\ Refresh
    /\ dialog' = Nothing
    /\ deleting' = Nothing
    /\ toast' = [snapshot |-> deleting.snapshot, removed |-> deleting.removed, current |-> deleting.current]
    /\ node' = Parent[deleting.entity]
    /\ row' = Nothing
    /\ UNCHANGED <<rows, project, answers, foreign, busy, undoing, creating, resetting, own>>

\* An error answer, or none: the dialog stays, if it is still open, and may be confirmed again.
DeleteFailed ==
    /\ deleting # Nothing
    /\ deleting' = Nothing
    /\ busy' = FALSE
    /\ UNCHANGED <<rows, project, asked, answers, foreign, selVars, dialog, toast, undoing, creating,
                   resetting, own>>

\* The toast goes after ten seconds, or its button is pressed.
ToastGoes ==
    /\ toast # Nothing
    /\ toast' = Nothing
    /\ UNCHANGED <<cacheVars, selVars, delVars, undoing, creating, resetting, own>>

Undo ==
    /\ toast # Nothing /\ undoing = Nothing
    /\ undoing' = [left |-> Listed(toast.snapshot), snapshot |-> toast.snapshot,
                   removed |-> toast.removed, current |-> toast.current /\ Idle]
    /\ toast' = Nothing
    /\ UNCHANGED <<cacheVars, selVars, delVars, creating, resetting, own>>

\* The next entity of the snapshot is created, over what may be there by now.
UndoStep ==
    /\ undoing # Nothing
    /\ \E e \in Foremost(undoing.left) :
          /\ Accepts(rows, e)
          /\ rows' = [rows EXCEPT ![e] = undoing.snapshot[e]]
          /\ undoing' = [undoing EXCEPT !.left = @ \ {e}]
    /\ UNCHANGED <<project, asked, answers, foreign, selVars, delVars, toast, creating, resetting, own>>

UndoDone ==
    /\ undoing # Nothing /\ undoing.left = {}
    /\ Refresh
    /\ undoing' = Nothing
    /\ UNCHANGED <<rows, project, answers, foreign, selVars, delVars, toast, creating, resetting, own>>

\* A request of the undo fails or is refused: the rest is not tried, nothing is fetched.
UndoFails ==
    /\ undoing # Nothing /\ undoing.left # {}
    /\ undoing' = Nothing
    /\ UNCHANGED <<rows, project, asked, answers, foreign, selVars, delVars, toast, creating, resetting,
                   own>>

\* New Device takes the selected channel or that of the selected device, New Tag
\* the selected device; the parent must be known.
NewDeviceParent == IF node # Root /\ Level(node) = 2 THEN Parent[node] ELSE node
ChannelForm(e) == Level(e) = 1
DeviceForm(e) == Level(e) = 2 /\ Parent[e] = NewDeviceParent /\ project[Parent[e]] # Absent
TagForm(e) == Level(e) = 3 /\ Parent[e] = node /\ project[Parent[e]] # Absent

\* The create dialog of a kind, filled in and submitted.  Bound: one such request at a time.
SubmitCreate(s, v) ==
    /\ project # Absent /\ dialog = Nothing /\ creating = Nothing /\ own + foreign < MaxChanges
    /\ LET e == UniqueId(project, s)
       IN  /\ e # Nothing
           /\ ChannelForm(e) \/ DeviceForm(e) \/ TagForm(e)
           /\ creating' = [entity |-> e, config |-> v, stage |-> "sent"]
    /\ own' = own + 1
    /\ undoing' = Disturbed(undoing) /\ deleting' = Disturbed(deleting)
    /\ UNCHANGED <<cacheVars, selVars, dialog, busy, toast, resetting>>

CreateServed ==
    /\ creating # Nothing /\ creating.stage = "sent"
    /\ IF Accepts(rows, creating.entity)
       THEN /\ rows' = [rows EXCEPT ![creating.entity] = creating.config]
            /\ creating' = [creating EXCEPT !.stage = "done"]
       ELSE /\ creating' = [creating EXCEPT !.stage = "refused"]
            /\ UNCHANGED rows
    /\ UNCHANGED <<project, asked, answers, foreign, selVars, delVars, toast, undoing, resetting,
                   own>>

\* onCreated: the new entity is selected before the fetched project shows it.
CreateAnswered ==
    /\ creating # Nothing /\ creating.stage = "done"
    /\ Refresh
    /\ IF Level(creating.entity) = 3
       THEN node' = Parent[creating.entity] /\ row' = creating.entity
       ELSE node' = creating.entity /\ row' = Nothing
    /\ creating' = Nothing
    /\ UNCHANGED <<rows, project, answers, foreign, delVars, toast, undoing, resetting, own>>

CreateFails ==
    /\ creating # Nothing
    /\ creating' = Nothing
    /\ UNCHANGED <<rows, project, asked, answers, foreign, selVars, delVars, toast, undoing, resetting,
                   own>>

\* New Project: the empty project is imported, replacing everything.
NewProject ==
    /\ resetting = "no" /\ dialog = Nothing /\ own + foreign < MaxChanges
    /\ resetting' = "sent"
    /\ own' = own + 1
    /\ UNCHANGED <<cacheVars, selVars, delVars, toast, undoing, creating>>

NewProjectServed ==
    /\ resetting = "sent"
    /\ rows' = [e \in Entities |-> Absent]
    /\ resetting' = "done"
    /\ dialog' = Disturbed(dialog) /\ deleting' = Disturbed(deleting)
    /\ toast' = Disturbed(toast) /\ undoing' = Disturbed(undoing)
    /\ UNCHANGED <<project, asked, answers, foreign, selVars, busy, creating, own>>

NewProjectAnswered ==
    /\ resetting = "done"
    /\ Refresh
    /\ resetting' = "no"
    /\ node' = Root /\ row' = Nothing
    /\ UNCHANGED <<rows, project, answers, foreign, delVars, toast, undoing, creating, own>>

NewProjectFails ==
    /\ resetting # "no"
    /\ resetting' = "no"
    /\ UNCHANGED <<rows, project, asked, answers, foreign, selVars, delVars, toast, undoing, creating,
                   own>>

Fetching ==
    /\ CacheStep
    /\ UNCHANGED <<selVars, delVars, toast, undoing, creating, resetting, own>>

\* Another client creates, edits or deletes.
OtherClient ==
    /\ own + foreign < MaxChanges
    /\ \E e \in Entities :
          \/ \E v \in Configs : Accepts(rows, e) /\ ForeignChange([rows EXCEPT ![e] = v])
          \/ ForeignChange(Without(rows, e))
    /\ dialog' = Disturbed(dialog) /\ deleting' = Disturbed(deleting)
    /\ toast' = Disturbed(toast) /\ undoing' = Disturbed(undoing)
    /\ UNCHANGED <<selVars, busy, creating, resetting, own>>

DialogsNext ==
    \/ \E n \in Entities \union {Root}, r \in Entities \union {Nothing} : Select(n, r)
    \/ OpenDelete \/ CancelDelete \/ ConfirmDelete \/ DeleteServed \/ DeleteAnswered \/ DeleteFailed
    \/ ToastGoes \/ Undo \/ UndoStep \/ UndoDone \/ UndoFails
    \/ \E s \in Series, v \in Configs : SubmitCreate(s, v)
    \/ CreateServed \/ CreateAnswered \/ CreateFails
    \/ NewProject \/ NewProjectServed \/ NewProjectAnswered \/ NewProjectFails
    \/ Fetching
    \/ OtherClient

DialogsSpec == DialogsInit /\ [][DialogsNext]_dialogVars

-----------------------------------------------------------------------------
\* The types of the variables of this module and of the cache.
DialogTypeOK ==
    /\ CacheTypeOK
    /\ node \in {e \in Entities : Level(e) < 3} \union {Root}
    /\ row \in Entities \union {Nothing}
    /\ busy \in BOOLEAN
    /\ dialog # Nothing => dialog.entity \in Entities
    /\ deleting # Nothing => deleting.stage \in {"sent", "done", "refused"}
    /\ toast # Nothing => DOMAIN toast.snapshot = Entities
    /\ undoing # Nothing => undoing.left \subseteq Entities
    /\ creating # Nothing => creating.config \in Configs
    /\ resetting \in {"no", "sent", "done"}
    /\ own \in 0..MaxChanges

\* What the proof needs of the types: the fields, and that what is deleted is an entity.
RestoreShape ==
    /\ DOMAIN rows = Entities
    /\ node \in Entities \union {Root} /\ row \in Entities \union {Nothing}
    /\ dialog # Nothing => DOMAIN dialog = {"entity", "snapshot", "current"} /\ dialog.entity \in Entities
    /\ deleting # Nothing => /\ DOMAIN deleting = {"entity", "snapshot", "removed", "current", "stage"}
                             /\ deleting.entity \in Entities
    /\ toast # Nothing => DOMAIN toast = {"snapshot", "removed", "current"}
    /\ undoing # Nothing => DOMAIN undoing = {"left", "snapshot", "removed", "current"}
    /\ creating # Nothing => /\ DOMAIN creating = {"entity", "config", "stage"}
                             /\ creating.entity \in Entities

\* The flag of the delete dialog stays set after a deletion that succeeded, so that
\* there is no second one while the first can be undone.
BusyOnce ==
    /\ deleting # Nothing => busy
    /\ toast # Nothing \/ undoing # Nothing => busy /\ deleting = Nothing
    /\ dialog # Nothing /\ dialog.current /\ deleting # Nothing => dialog.entity = deleting.entity

\* A snapshot of e is what there is of e and below it.
SnapshotOf(snapshot, e) ==
    rows[e] # Absent => \A x \in Entities : x \in Subtree(e) => snapshot[x] = rows[x]
Covers(r) == \A e \in Entities : r.removed[e] # Absent => r.snapshot[e] = r.removed[e]

\* Undisturbed snapshots are right until the deletion, and after it complete; an
\* undisturbed undo has restored what is not left.
SnapshotsAreRight ==
    /\ dialog # Nothing /\ dialog.current /\ (~ busy \/ deleting # Nothing)
         => creating = Nothing /\ SnapshotOf(dialog.snapshot, dialog.entity)
    /\ deleting # Nothing /\ deleting.current /\ deleting.stage = "sent"
         => creating = Nothing /\ SnapshotOf(deleting.snapshot, deleting.entity)
    /\ deleting # Nothing /\ deleting.current /\ deleting.stage = "done" => Covers(deleting)
    /\ toast # Nothing /\ toast.current => Covers(toast)
    /\ undoing # Nothing /\ undoing.current =>
          /\ creating = Nothing /\ Covers(undoing)
          /\ \A e \in Listed(undoing.snapshot) \ undoing.left : rows[e] = undoing.snapshot[e]

\* The inductive invariant.
RestoreInv == RestoreShape /\ BusyOnce /\ SnapshotsAreRight

\* An undo that came to its end has restored all that the deletion removed, as it
\* was: the snapshot, taken when the dialog opened, is complete and in order.
UndoRestores ==
    [][UndoDone /\ undoing.current =>
          \A e \in Entities : undoing.removed[e] # Absent => rows[e] = undoing.removed[e]]_dialogVars

=============================================================================
