------------------------------ MODULE AgentPage ------------------------------
(***************************************************************************)
(* The console's page for MQTT agents (web/src/pages/MqttPage.tsx) against  *)
(* their routes (api/src/mqtt-routes.ts).  Passwords are written, never     *)
(* returned; the list is fetched again after every change, and fetches,     *)
(* saves, creations and deletions overlap each other and other clients.     *)
(***************************************************************************)
EXTENDS Naturals, Sequences, SequencesExt, FiniteSets, FiniteSetsExt

CONSTANTS
    MaxAgents,   \* bound: ids are the slug and the numbers up to MaxAgents behind it
    Urls,        \* what is typed as a broker URL
    WithScheme,  \* WithScheme[u]: the URL u, or u behind mqtt:// if it has no scheme
    Passwords,   \* what is typed as a password
    DefaultUrl,  \* of a new agent
    Nothing, Kept, \* no row, nothing; an omitted password
    MaxFetches, MaxRequests, MaxForeign \* bounds: fetches under way, changes, changes by other clients among them

Ids == 1..MaxAgents
Empty == ""
AgentRows == [url : Urls, password : Passwords \union {Empty}]
Schemed == {u \in Urls : WithScheme[u] = u}

ASSUME UrlAssumption == WithScheme \in [Urls -> Urls] /\ DefaultUrl \in Schemed
ASSUME SchemeAssumption == \A u \in Urls : WithScheme[u] \in Schemed
DeletionDialogs == [id : Ids \union {Nothing}, state : {"open", "asked", "done"}, selected : Ids \union {Nothing}]
ASSUME DialogAssumption == Nothing \notin DeletionDialogs
ASSUME PasswordAssumption == Empty \notin Passwords /\ Kept \notin Passwords

VARIABLES
    stored,    \* the server's agents
    agents,    \* the page's list
    fetches,   \* GETs under way: [rows: the answer, or Absent; then: the agent to select; late]
    selected,  \* the row selected
    editor,    \* the mounted editor: [id, url, password, pending, busy, mount], or Absent
    puts,      \* saves under way: [id, url, password, state, mount]
    posts,     \* creations under way: [id, state]
    deletion,  \* the delete dialog: [id, state, selected: when confirmed], or Absent
    requests, foreign,
    typedFor,  \* ghost: the agents for which a password was typed
    lapse      \* ghost: another client, a failure, or an answer overtaken

pageVars == <<stored, agents, fetches, selected, editor, puts, posts, deletion, requests, foreign, typedFor, lapse>>

\* redactMqttAgent on every row.
Redacted(rows) == [i \in Ids |-> IF rows[i] = Nothing THEN Nothing ELSE [rows[i] EXCEPT !.password = Empty]]

\* Fault: one editor for whatever is selected.
FaultShown(rows, sel) ==
    IF sel = Nothing \/ rows[sel] = Nothing THEN Nothing
    ELSE IF editor # Nothing THEN [editor EXCEPT !.id = sel]
    ELSE [id |-> sel, url |-> rows[sel].url, password |-> Empty, pending |-> Nothing, busy |-> FALSE, mount |-> requests]

\* The editor shown for `sel` in the list `rows`: the mounted one, if it is still for
\* this agent (its key), else one with the agent's fields and no password.
ShownEditor(rows, sel) ==
    IF sel = Nothing \/ rows[sel] = Nothing THEN Nothing
    ELSE IF editor # Nothing /\ editor.id = sel THEN editor
    ELSE [id |-> sel, url |-> rows[sel].url, password |-> Empty, pending |-> Nothing, busy |-> FALSE, mount |-> requests]

Reload(then) ==
    /\ Len(fetches) < MaxFetches
    /\ fetches' = Append(fetches, [rows |-> Nothing, then |-> then, late |-> FALSE])

Request == requests + foreign < MaxRequests /\ requests' = requests + 1

PageInit ==
    /\ stored \in [Ids -> AgentRows \union {Nothing}]
    /\ \A i \in Ids : stored[i] # Nothing => stored[i].url \in Schemed
    /\ agents = [i \in Ids |-> Nothing]
    /\ fetches = <<[rows |-> Nothing, then |-> Nothing, late |-> FALSE]>>
    /\ selected = Nothing /\ editor = Nothing /\ deletion = Nothing
    /\ puts = {} /\ posts = {}
    /\ requests = 0 /\ foreign = 0
    /\ typedFor = {}
    /\ lapse = FALSE

\* Those served are in the order they were served.
ServeList(k) ==
    /\ fetches[k].rows = Nothing
    /\ fetches' = Append(RemoveAt(fetches, k), [fetches[k] EXCEPT !.rows = Redacted(stored)])
    /\ UNCHANGED <<stored, agents, selected, editor, puts, posts, deletion, requests, foreign, typedFor, lapse>>

\* An answer: those served before it, if still under way, are late from now on.
\* After a creation the new agent is selected, whatever is selected now.
ListArrives(k) ==
    LET f == fetches[k]
        sel == IF f.then = Nothing THEN selected ELSE f.then
    IN  /\ f.rows # Nothing
        /\ agents' = f.rows
        /\ selected' = sel
        /\ editor' = ShownEditor(f.rows, sel)
        /\ lapse' = (lapse \/ f.late)
        /\ fetches' = RemoveAt([j \in DOMAIN fetches |->
                                  [fetches[j] EXCEPT !.late = @ \/ (j < k /\ fetches[j].rows # Nothing)]], k)
        /\ UNCHANGED <<stored, puts, posts, deletion, requests, foreign, typedFor>>

\* reloadAgents shows its error and does not pass it on.
ListFails(k) ==
    LET sel == IF fetches[k].then = Nothing THEN selected ELSE fetches[k].then
    IN  /\ selected' = sel
        /\ editor' = ShownEditor(agents, sel)
        /\ lapse' = TRUE
        /\ fetches' = RemoveAt(fetches, k)
        /\ UNCHANGED <<stored, agents, puts, posts, deletion, requests, foreign, typedFor>>

Select(i) ==
    /\ deletion = Nothing /\ (editor # Nothing => editor.pending = Nothing)
    /\ agents[i] # Nothing /\ i # selected
    /\ selected' = i
    /\ editor' = ShownEditor(agents, i)
    /\ UNCHANGED <<stored, agents, fetches, puts, posts, deletion, requests, foreign, typedFor, lapse>>

Type(u, p) ==
    /\ deletion = Nothing
    /\ editor # Nothing /\ editor.pending = Nothing
    /\ editor' = [editor EXCEPT !.url = u, !.password = p]
    /\ editor' # editor
    /\ typedFor' = IF p = Empty THEN typedFor ELSE typedFor \union {editor.id}
    /\ UNCHANGED <<stored, agents, fetches, selected, puts, posts, deletion, requests, foreign, lapse>>

\* save: an empty password field is omitted from the body.
Save(url) ==
    /\ Request
    /\ puts' = puts \union {[id |-> editor.id, url |-> url, state |-> "asked", mount |-> editor.mount,
                             password |-> IF editor.password = Empty THEN Kept ELSE editor.password]}
    /\ editor' = [editor EXCEPT !.url = url, !.pending = Nothing, !.busy = TRUE]
    /\ UNCHANGED <<stored, agents, fetches, selected, posts, deletion, foreign, typedFor, lapse>>

\* onSubmit: a URL without scheme is asked about first.
Submit ==
    /\ deletion = Nothing
    /\ editor # Nothing /\ ~editor.busy /\ editor.pending = Nothing
    /\ editor.url \in Schemed
    /\ Save(editor.url)

AskScheme ==
    /\ deletion = Nothing
    /\ editor # Nothing /\ ~editor.busy /\ editor.pending = Nothing
    /\ editor.url \notin Schemed
    /\ editor' = [editor EXCEPT !.pending = WithScheme[editor.url]]
    /\ UNCHANGED <<stored, agents, fetches, selected, puts, posts, deletion, requests, foreign, typedFor, lapse>>

ConfirmScheme == editor # Nothing /\ editor.pending # Nothing /\ Save(editor.pending)

CancelScheme ==
    /\ editor # Nothing /\ editor.pending # Nothing
    /\ editor' = [editor EXCEPT !.pending = Nothing]
    /\ UNCHANGED <<stored, agents, fetches, selected, puts, posts, deletion, requests, foreign, typedFor, lapse>>

\* PUT merges the stored password in when none is sent.
SaveServed(p) ==
    /\ p.state = "asked"
    /\ stored' = [stored EXCEPT ![p.id] =
          [url |-> p.url,
           password |-> IF p.password # Kept THEN p.password
                        ELSE IF @ = Nothing THEN Empty ELSE @.password]]
    /\ puts' = (puts \ {p}) \union {[p EXCEPT !.state = "done"]}
    /\ UNCHANGED <<agents, fetches, selected, editor, posts, deletion, requests, foreign, typedFor, lapse>>

\* setBusy(false), if the editor that sent p is still mounted.
Idle(p) == IF editor # Nothing /\ editor.id = p.id /\ editor.mount = p.mount THEN [editor EXCEPT !.busy = FALSE] ELSE editor

\* Fault: the list is not fetched again.
FaultSaveAnswered(p) ==
    /\ p.state = "done"
    /\ puts' = puts \ {p}
    /\ editor' = Idle(p)
    /\ UNCHANGED <<stored, agents, fetches, selected, posts, deletion, requests, foreign, typedFor, lapse>>

SaveAnswered(p) ==
    /\ p.state = "done"
    /\ puts' = puts \ {p}
    /\ editor' = Idle(p)
    /\ Reload(Nothing)
    /\ UNCHANGED <<stored, agents, selected, posts, deletion, requests, foreign, typedFor, lapse>>

\* The request, or only its answer, is lost.
SaveFails(p) ==
    /\ puts' = puts \ {p}
    /\ editor' = Idle(p)
    /\ lapse' = TRUE
    /\ UNCHANGED <<stored, agents, fetches, selected, posts, deletion, requests, foreign, typedFor>>

\* onNewAgent: the first id free in the list; POST upserts.
Create ==
    /\ deletion = Nothing /\ (editor # Nothing => editor.pending = Nothing)
    /\ Request
    /\ \E i \in Ids : agents[i] = Nothing /\ (\A j \in 1..(i - 1) : agents[j] # Nothing)
                      /\ posts' = posts \union {[id |-> i, state |-> "asked", number |-> requests]}
    /\ UNCHANGED <<stored, agents, fetches, selected, editor, puts, deletion, foreign, typedFor, lapse>>

CreateServed(p) ==
    /\ p.state = "asked"
    /\ stored' = [stored EXCEPT ![p.id] = [url |-> DefaultUrl, password |-> Empty]]
    /\ posts' = (posts \ {p}) \union {[p EXCEPT !.state = "done"]}
    /\ UNCHANGED <<agents, fetches, selected, editor, puts, deletion, requests, foreign, typedFor, lapse>>

CreateAnswered(p) ==
    /\ p.state = "done"
    /\ posts' = posts \ {p}
    /\ Reload(p.id)
    /\ UNCHANGED <<stored, agents, selected, editor, puts, deletion, requests, foreign, typedFor, lapse>>

CreateFails(p) ==
    /\ posts' = posts \ {p}
    /\ lapse' = TRUE
    /\ UNCHANGED <<stored, agents, fetches, selected, editor, puts, deletion, requests, foreign, typedFor>>

\* The delete dialog is left alone while its request is under way.
OpenDelete ==
    /\ deletion = Nothing /\ editor # Nothing /\ editor.pending = Nothing
    /\ deletion' = [id |-> selected, state |-> "open", selected |-> Nothing]
    /\ UNCHANGED <<stored, agents, fetches, selected, editor, puts, posts, requests, foreign, typedFor, lapse>>

CancelDelete ==
    /\ deletion # Nothing /\ deletion.state = "open"
    /\ deletion' = Nothing
    /\ UNCHANGED <<stored, agents, fetches, selected, editor, puts, posts, requests, foreign, typedFor, lapse>>

ConfirmDelete ==
    /\ deletion # Nothing /\ deletion.state = "open"
    /\ Request
    /\ deletion' = [deletion EXCEPT !.state = "asked", !.selected = selected]
    /\ UNCHANGED <<stored, agents, fetches, selected, editor, puts, posts, foreign, typedFor, lapse>>

DeleteServed ==
    /\ deletion # Nothing /\ deletion.state = "asked"
    /\ stored[deletion.id] # Nothing
    /\ stored' = [stored EXCEPT ![deletion.id] = Nothing]
    /\ deletion' = [deletion EXCEPT !.state = "done"]
    /\ UNCHANGED <<agents, fetches, selected, editor, puts, posts, requests, foreign, typedFor, lapse>>

\* The selection goes if it was on the deleted agent when the deletion was confirmed.
DeleteAnswered ==
    /\ deletion # Nothing /\ deletion.state = "done"
    /\ deletion' = Nothing
    /\ selected' = IF deletion.selected = deletion.id THEN Nothing ELSE selected
    /\ editor' = ShownEditor(agents, selected')
    /\ Reload(Nothing)
    /\ UNCHANGED <<stored, agents, puts, posts, requests, foreign, typedFor, lapse>>

\* Refused with 404, or the request or its answer lost: the list stays.
DeleteFails ==
    /\ deletion # Nothing /\ deletion.state \in {"asked", "done"}
    /\ deletion' = Nothing
    /\ lapse' = TRUE
    /\ UNCHANGED <<stored, agents, fetches, selected, editor, puts, posts, requests, foreign, typedFor>>

OtherClient(i, a) ==
    /\ foreign < MaxForeign /\ requests + foreign < MaxRequests
    /\ stored[i] # a
    /\ foreign' = foreign + 1
    /\ stored' = [stored EXCEPT ![i] = a]
    /\ lapse' = TRUE
    /\ UNCHANGED <<agents, fetches, selected, editor, puts, posts, deletion, requests, typedFor>>

PageNext ==
    \/ \E k \in DOMAIN fetches : ServeList(k) \/ ListArrives(k) \/ ListFails(k)
    \/ \E i \in Ids : Select(i) \/ \E a \in AgentRows \union {Nothing} : OtherClient(i, a)
    \/ \E u \in Urls, p \in Passwords \union {Empty} : Type(u, p)
    \/ Submit \/ AskScheme \/ ConfirmScheme \/ CancelScheme
    \/ \E p \in puts : SaveServed(p) \/ SaveAnswered(p) \/ SaveFails(p)
    \/ Create \/ \E p \in posts : CreateServed(p) \/ CreateAnswered(p) \/ CreateFails(p)
    \/ OpenDelete \/ CancelDelete \/ ConfirmDelete \/ DeleteServed \/ DeleteAnswered \/ DeleteFails

PageSpec == PageInit /\ [][PageNext]_pageVars

-----------------------------------------------------------------------------
\* The types of the variables.  No password is in the list or in an answer, and the
\* editor is that of the selected agent.
PageTypeOK ==
    /\ stored \in [Ids -> AgentRows \union {Nothing}]
    /\ \A rows \in ({agents} \union {fetches[k].rows : k \in DOMAIN fetches}) \ {Nothing} :
          \A i \in Ids : rows[i] # Nothing => rows[i].password = Empty
    /\ editor # Nothing => editor.id = selected /\ agents[selected] # Nothing
    /\ deletion # Nothing => deletion.id \in Ids

\* With nothing under way and without a lapse the list is what the server has: every
\* change the page makes is followed by a fetch served after it.
QuietListCurrent ==
    fetches = <<>> /\ puts = {} /\ posts = {} /\ deletion = Nothing /\ ~lapse => agents = Redacted(stored)

\* A password is saved only for an agent it was typed for: it never moves with the
\* selection, or with an agent that goes and comes back, into another agent's form.
PasswordsStayWithAgent == \A p \in puts : p.password \in Passwords => p.id \in typedFor

=============================================================================
