---------------------------- MODULE ImportDialog ----------------------------
(***************************************************************************)
(* The console's import dialog (web/src/components/ImportModal.tsx): a file *)
(* is chosen, previewed against the console's copy of the project, and      *)
(* imported.  Files are read and imports answered later, when the dialog    *)
(* may have been closed and opened for something else, and other clients    *)
(* edit meanwhile.  How the copy is fetched is in ProjectCache, what an     *)
(* import of tags or of a device does to ids in Transfer.                   *)
(***************************************************************************)
EXTENDS Naturals, FiniteSets

CONSTANTS
    Kinds,       \* what is imported: a project, a device, tags
    ImportEntities,  \* channels, devices and tags
    ImportAgents,    \* MQTT agents
    Contents,    \* what a stored row may hold
    RawContents, \* what a row of a file may hold: also one with a default left out or its keys in another order
    Parse,       \* the stored row that the server makes of a row of a file
    ImportParent,    \* the row that a stored row names as the one above it, or Nil
    ProjectFiles,    \* what a file may hold: rows, or Unparseable
    InitialProjects, \* configurations to begin with and for other clients to save
    Plugins,     \* import formats other than the console's own
    Nil, Unparseable,
    MaxOpenings, MaxImports, MaxReads, MaxOthers \* bounds: openings of the dialog and changes by other clients together, imports, files being read, those changes alone

Native == "odiserver"
ProjectStates == [ImportEntities \union ImportAgents -> Contents \union {Nil}]

ASSUME KindsAssumption == Kinds \subseteq {"project", "device", "tags"}
FileStates == [ImportEntities \union ImportAgents -> RawContents \union {Nil}]

ASSUME FilesAssumption == ProjectFiles \subseteq FileStates \union {Unparseable} /\ InitialProjects \subseteq ProjectStates
\* A stored row, exported and imported again, is itself.
ASSUME ParseAssumption ==
    /\ Contents \subseteq RawContents /\ Nil \notin RawContents
    /\ Parse \in [RawContents -> Contents] /\ \A c \in Contents : Parse[c] = c
    /\ ImportParent \in [Contents -> ImportEntities \union {Nil}]
ASSUME FormatAssumption == Native \notin Plugins

VARIABLES
    store,    \* the server's configuration
    copy,     \* the console's copy
    opening,  \* how often the dialog has been opened
    import,   \* the dialog's state, see Fresh
    reads,    \* files being read for a preview
    imports,  \* imports on their way
    sent, others

importVars == <<store, copy, opening, import, reads, imports, sent, others>>

\* The state of a dialog with the target `kind` after the reset.
Fresh(kind) ==
    [kind |-> kind, file |-> Nil, mode |-> "replace", format |-> Native, preview |-> Nil,
     confirm |-> FALSE, busy |-> FALSE, result |-> FALSE, error |-> FALSE]

\* The effect of a new target resets everything.
Reset(kind) == Fresh(kind)

\* Fault: entities the file does not have are not looked at.
FaultDiff(current, incoming) ==
    [added |-> {e \in ImportEntities : current[e] = Nil /\ incoming[e] # Nil},
     modified |-> {e \in ImportEntities : Nil \notin {current[e], incoming[e]} /\ current[e] # incoming[e]},
     removed |-> {}]

\* diffProject compares the rows of the file as they are, before any parsing, with the stored ones.
Diff(current, incoming) ==
    [added |-> {e \in ImportEntities : current[e] = Nil /\ incoming[e] # Nil},
     modified |-> {e \in ImportEntities : Nil \notin {current[e], incoming[e]} /\ current[e] # incoming[e]},
     removed |-> {e \in ImportEntities : current[e] # Nil /\ incoming[e] = Nil}]

\* Whether the dialog d shows a preview.
Previews(d) == d.kind = "project" /\ d.format = Native /\ d.file # Nil

\* The preview effect, run when file, target, format or copy change: the reads under
\* way are cancelled, and the file is read if it is to be previewed.
PreviewEffect(d, known) ==
    /\ import' = [d EXCEPT !.preview = Nil]
    /\ reads' = {[r EXCEPT !.cancelled = TRUE] : r \in reads}
                \union IF Previews(d) THEN {[file |-> d.file, project |-> known, cancelled |-> FALSE]} ELSE {}
    /\ Cardinality(reads') <= MaxReads

ImportInit ==
    /\ store \in InitialProjects
    /\ copy = store
    /\ opening = 0
    /\ import = Fresh(Nil)
    /\ reads = {} /\ imports = {}
    /\ sent = 0 /\ others = 0

Open(kind) ==
    /\ import.kind = Nil /\ opening + others < MaxOpenings
    /\ opening' = opening + 1
    /\ PreviewEffect(Reset(kind), copy)
    /\ UNCHANGED <<store, copy, imports, sent, others>>

Close ==
    /\ import.kind # Nil
    /\ PreviewEffect(Reset(Nil), copy)
    /\ UNCHANGED <<store, copy, opening, imports, sent, others>>

ChooseFile(f) ==
    /\ import.kind # Nil /\ f # import.file
    /\ PreviewEffect([import EXCEPT !.file = f, !.error = FALSE, !.result = FALSE], copy)
    /\ UNCHANGED <<store, copy, opening, imports, sent, others>>

ChooseFormat(format) ==
    /\ import.kind = "project" /\ format # import.format
    /\ PreviewEffect([import EXCEPT !.format = format, !.error = FALSE, !.result = FALSE], copy)
    /\ UNCHANGED <<store, copy, opening, imports, sent, others>>

ImportAnother ==
    /\ import.kind # Nil /\ import.result
    /\ PreviewEffect([import EXCEPT !.file = Nil, !.result = FALSE], copy)
    /\ UNCHANGED <<store, copy, opening, imports, sent, others>>

ChooseMode(mode) ==
    /\ import.kind = "project" /\ mode # import.mode
    /\ import' = [import EXCEPT !.mode = mode]
    /\ UNCHANGED <<store, copy, opening, reads, imports, sent, others>>

\* REPLACE is typed into the field shown for it, or deleted again.
TypeConfirm ==
    /\ import.kind = "project" /\ import.mode = "replace" /\ ~import.result
    /\ import' = [import EXCEPT !.confirm = ~@]
    /\ UNCHANGED <<store, copy, opening, reads, imports, sent, others>>

\* Fault: a cancelled read is shown too.
FaultReadDone(r) ==
    /\ r \in reads
    /\ reads' = reads \ {r}
    /\ import' = IF r.file = Unparseable THEN import
                 ELSE [import EXCEPT !.preview = Diff(r.project, r.file)]
    /\ UNCHANGED <<store, copy, opening, imports, sent, others>>

\* A file has been read.  What cannot be parsed has no preview.
ReadDone(r) ==
    /\ r \in reads
    /\ reads' = reads \ {r}
    /\ import' = IF r.cancelled \/ r.file = Unparseable THEN import
                 ELSE [import EXCEPT !.preview = Diff(r.project, r.file)]
    /\ UNCHANGED <<store, copy, opening, imports, sent, others>>

\* The import button: what disables it does not look at the kind of target.
CanSubmit ==
    /\ import.kind # Nil /\ ~import.result
    /\ ~import.busy /\ import.file # Nil
    /\ import.mode # "replace" \/ import.confirm

\* runImport, up to the request.  JSON is parsed here, and what is none fails before it is
\* sent; the text of a plugin's format, and of tags, which may be CSV, is sent as it is.
Submit ==
    /\ CanSubmit /\ sent < MaxImports
    /\ sent' = sent + 1
    /\ import' = [import EXCEPT !.busy = TRUE, !.error = FALSE, !.result = FALSE]
    /\ imports' = imports \union
          {[number |-> sent, kind |-> import.kind, mode |-> import.mode, format |-> import.format,
            file |-> import.file, preview |-> import.preview, project |-> copy,
            state |-> IF import.file = Unparseable /\ import.format = Native /\ import.kind # "tags"
                      THEN "failed" ELSE "asked"]}
    /\ UNCHANGED <<store, copy, opening, reads, others>>

\* The rows the server gets: those of the file, or what a plugin makes of it, parsed.
Parsed(f) == [e \in DOMAIN f |-> IF f[e] = Nil THEN Nil ELSE Parse[f[e]]]
RowsOf(i) ==
    {Parsed(f) : f \in (IF i.format = Native THEN {i.file} ELSE ProjectFiles) \ {Unparseable}}

\* replaceProject takes the rows as they are; all else is an upsert of the rows there are.
Imported(kind, mode, db, rows) ==
    IF kind = "project" /\ mode = "replace" THEN rows
    ELSE [e \in DOMAIN db |-> IF rows[e] # Nil THEN rows[e] ELSE db[e]]

\* mergeProject, unlike replaceProject, looks for the row above each one.
ParentsKnown(db, rows) ==
    \A e \in ImportEntities : rows[e] # Nil /\ ImportParent[rows[e]] # Nil =>
        db[ImportParent[rows[e]]] # Nil

Serve(i) ==
    /\ i \in imports /\ i.state = "asked"
    /\ \E rows \in RowsOf(i) :
          /\ store' = Imported(i.kind, i.mode, store, rows)
          /\ i.kind = "project" /\ i.mode = "merge" => ParentsKnown(store', rows)
    /\ imports' = (imports \ {i}) \union {[i EXCEPT !.state = "done"]}
    /\ UNCHANGED <<copy, opening, import, reads, sent, others>>

\* Refused, rolled back or not answered.  What is left of a device or of tags is in Transfer.
Fail(i) ==
    /\ i \in imports /\ i.state = "asked"
    /\ imports' = (imports \ {i}) \union {[i EXCEPT !.state = "failed"]}
    /\ UNCHANGED <<store, copy, opening, import, reads, sent, others>>

\* The answer sets the state of the dialog, whatever it is open for by now.
Answer(i) ==
    /\ i \in imports /\ i.state # "asked"
    /\ imports' = imports \ {i}
    /\ import' = [import EXCEPT !.busy = FALSE,
                                !.result = @ \/ i.state = "done",
                                !.error = @ \/ i.state = "failed"]
    /\ UNCHANGED <<store, copy, opening, reads, sent, others>>

\* The console fetches the project: after an import, or an edit.
Refetch ==
    /\ copy # store
    /\ copy' = store
    /\ PreviewEffect(import, store)
    /\ UNCHANGED <<store, opening, imports, sent, others>>

OtherImport(db) ==
    /\ others < MaxOthers /\ opening + others < MaxOpenings /\ db # store
    /\ others' = others + 1
    /\ store' = db
    /\ UNCHANGED <<copy, opening, import, reads, imports, sent>>

ImportNext ==
    \/ \E kind \in Kinds : Open(kind)
    \/ Close \/ ImportAnother \/ TypeConfirm \/ Submit \/ Refetch
    \/ \E f \in ProjectFiles \union {Nil} : ChooseFile(f)
    \/ \E format \in Plugins \union {Native} : ChooseFormat(format)
    \/ \E mode \in {"replace", "merge"} : ChooseMode(mode)
    \/ \E r \in reads : ReadDone(r)
    \/ \E i \in imports : Serve(i) \/ Fail(i) \/ Answer(i)
    \/ \E db \in InitialProjects : OtherImport(db)

ImportSpec == ImportInit /\ [][ImportNext]_importVars

-----------------------------------------------------------------------------
Differences == [added : SUBSET ImportEntities, modified : SUBSET ImportEntities, removed : SUBSET ImportEntities]

\* The types of the variables; at most one read is not cancelled; a closed dialog
\* holds no choices.
ImportTypeOK ==
    /\ store \in ProjectStates /\ copy \in ProjectStates
    /\ import.kind \in Kinds \union {Nil} /\ import.preview \in Differences \union {Nil}
    /\ import.kind = Nil => import.file = Nil /\ import.preview = Nil /\ ~import.confirm
    /\ \A r, q \in reads : ~r.cancelled /\ ~q.cancelled => r = q

\* A preview is that of the file, format and copy the dialog shows now, however
\* slowly other files are read.
PreviewIsCurrent ==
    import.preview # Nil =>
        Previews(import) /\ import.file # Unparseable /\ import.preview = Diff(copy, import.file)

\* What a preview says of an import in the mode.
Announced(preview, mode) ==
    preview.added \union preview.modified \union IF mode = "replace" THEN preview.removed ELSE {}

\* The import i is carried out on what the console had when it was started.
AsPreviewed(i) ==
    Serve(i) /\ i.preview # Nil /\ \A e \in ImportEntities : store[e] = i.project[e]

\* Such an import leaves alone every channel, device and tag that its preview does not
\* name, and adds and removes all that it says (in merge mode nothing is removed).  Of a
\* row said to be modified nothing is promised: one that leaves out a default is, and may
\* be the stored one once it is parsed.  Nor is anything of the agents: replaceProject
\* deletes them, too (store.ts:246), and no preview names them.
PreviewPredicts ==
    [][\A i \in imports : AsPreviewed(i) =>
          LET changed == {e \in ImportEntities : store'[e] # store[e]}
          IN  /\ changed \subseteq Announced(i.preview, i.mode)
              /\ Announced(i.preview, i.mode) \ i.preview.modified \subseteq changed]_importVars

=============================================================================
