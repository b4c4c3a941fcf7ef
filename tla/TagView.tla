------------------------------ MODULE TagView ------------------------------
(***************************************************************************)
(* What the tag engine promises its clients, with no deadbands, reported   *)
(* values or index: every tag has a current value, clients see a value of  *)
(* the tag, and a change that is not shown to them at once is a change of  *)
(* the number only, and a small one.                                       *)
(***************************************************************************)
EXTENDS Integers

CONSTANTS
    Tags,       \* tag ids
    Absent,     \* the tag is not configured
    NoData,     \* the value of a tag no driver has served yet
    Tolerance   \* how far the number shown may be from the current one

VARIABLES
    current,    \* tag id -> [value, quality, error], or Absent
    seen        \* tag id -> what clients see of it, or Absent

viewVars == <<current, seen>>

CloseTo(a, b) ==
    /\ a.quality = b.quality /\ a.error = b.error
    /\ \/ a.value = b.value
       \/ /\ a.value \in Int /\ b.value \in Int
          /\ a.value - b.value <= Tolerance /\ b.value - a.value <= Tolerance

ViewInit ==
    /\ current = [t \in Tags |-> Absent]
    /\ seen = [t \in Tags |-> Absent]

\* Some tags move.  Clients see the new value, or keep one close to it.
Serve ==
    /\ \A t \in Tags : current[t] = Absent <=> current'[t] = Absent
    /\ \A t \in Tags :
         current'[t] # Absent =>
           \/ seen'[t] = current'[t]
           \/ seen'[t] = seen[t] /\ CloseTo(seen[t], current'[t])
    /\ \A t \in Tags : current'[t] = Absent => seen'[t] = Absent

\* Tags come and go.  A tag that stays keeps its value, and clients are not
\* disturbed; a new one has no data until a driver serves it.
Configure ==
    \A t \in Tags :
        \/ current'[t] = Absent /\ seen'[t] = Absent
        \/ current[t] = Absent /\ current'[t] = NoData /\ seen'[t] = NoData
        \/ current[t] # Absent /\ current'[t] = current[t] /\ seen'[t] = seen[t]

ViewNext == Serve \/ Configure

ViewSpec == ViewInit /\ [][ViewNext]_viewVars
=============================================================================
