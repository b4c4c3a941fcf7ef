---------------------------- MODULE ProjectCache ----------------------------
(***************************************************************************)
(* The console's copy of the project (web/src/lib/project.tsx).  It is      *)
(* fetched when the page loads and again after every change the console     *)
(* makes; nothing pushes configuration changes to it.  Fetches overlap, are *)
(* answered in any order, or fail; other clients edit meanwhile.            *)
(***************************************************************************)
EXTENDS Naturals, Sequences, SequencesExt

CONSTANTS
    Entities,    \* channels, devices and tags, existing or to be created
    Parent,      \* the channel of a device, the device of a tag, or Root
    Root,        \* the parent of channels
    Configs,     \* what a row may hold
    Absent,      \* no row, no answer yet, no project yet
    MaxFetches,  \* bound: fetches of the project that have not settled
    MaxForeign   \* bound: changes made by other clients

ASSUME ParentAssumption == Parent \in [Entities -> Entities \union {Root}] /\ Root \notin Entities
ASSUME AbsentAssumption == Absent \notin Configs
ASSUME FetchAssumption == MaxFetches \in Nat \ {0} /\ MaxForeign \in Nat

VARIABLES
    rows,     \* the server's configuration: rows[e] is Absent or its configuration
    project,  \* the console's copy, Absent before the first answer
    asked,    \* how many GET /api/project the server has not served yet
    answers,  \* its answers that have not arrived, oldest first
    foreign   \* changes other clients have made

cacheVars == <<rows, project, asked, answers, foreign>>

Configurations == {r \in [Entities -> Configs \union {Absent}] :
                 \A e \in Entities : r[e] # Absent /\ Parent[e] # Root => r[Parent[e]] # Absent}

\* e and what goes with it when it is deleted.
Subtree(e) == {x \in Entities : \/ x = e
                                \/ Parent[x] = e
                                \/ Parent[x] # Root /\ Parent[Parent[x]] = e}

\* The store's answer to an upsert (a row without parent is refused) and to a removal.
Accepts(r, e) == Parent[e] # Root => r[Parent[e]] # Absent
Without(r, e) == [x \in Entities |-> IF x \in Subtree(e) THEN Absent ELSE r[x]]

\* refresh(): one more fetch, if the bound admits it.
Refresh ==
    /\ asked + Len(answers) < MaxFetches
    /\ asked' = asked + 1

CacheInit(initial) ==
    /\ rows \in initial
    /\ project = Absent
    /\ asked = 1
    /\ answers = <<>>
    /\ foreign = 0

\* The server reads the whole project for a fetch, all tables in one call.
ServeFetch ==
    /\ asked > 0
    /\ asked' = asked - 1
    /\ answers' = Append(answers, rows)
    /\ UNCHANGED <<rows, project, foreign>>

\* An answer replaces the copy, whatever has been shown since it was asked for.
FetchArrives ==
    \E i \in DOMAIN answers :
        /\ project' = answers[i]
        /\ answers' = RemoveAt(answers, i)
        /\ UNCHANGED <<rows, asked, foreign>>

\* A fetch fails: the copy stays, the page shows the error.
FetchFails ==
    /\ \/ /\ asked > 0
          /\ asked' = asked - 1
          /\ UNCHANGED answers
       \/ \E i \in DOMAIN answers :
             /\ answers' = RemoveAt(answers, i)
             /\ UNCHANGED asked
    /\ UNCHANGED <<rows, project, foreign>>

\* Another client saves or deletes an entity.
ForeignChange(r) ==
    /\ foreign < MaxForeign
    /\ r # rows
    /\ rows' = r
    /\ foreign' = foreign + 1
    /\ UNCHANGED <<project, asked, answers>>

CacheStep == ServeFetch \/ FetchArrives \/ FetchFails

CacheTypeOK ==
    /\ rows \in Configurations
    /\ project \in Configurations \union {Absent}
    /\ asked \in 0..MaxFetches
    /\ answers \in Seq(Configurations)
    /\ asked + Len(answers) <= MaxFetches
    /\ foreign \in 0..MaxForeign
=============================================================================
