------------------------------ MODULE Transfer ------------------------------
(***************************************************************************)
(* Export and import of tags and of device bundles (core/src/transfer.ts,   *)
(* api/src/transfer-routes.ts), with files that are imported later, into    *)
(* another device, again, or only in part: every row is a commit of its     *)
(* own, and the process may die, or a row be refused, between two of them.  *)
(* Project imports are in ConfigStore, the CSV syntax is in Csv.            *)
(***************************************************************************)
EXTENDS Naturals, Sequences, SequencesExt, FiniteSets, FiniteSetsExt, Functions

CONSTANTS
    TransferChannels, TransferDevices, Names,
    Texts,      \* what else a tag holds
    Neutral,    \* Neutral[t]: the text t as the CSV has it: formulas get an apostrophe
    HandMade,   \* files that no export made
    MaxNumber,  \* bound: numbers in generated ids
    MaxSteps,   \* bound: edits, exports and imports
    Missing

\* An id is a slug of a name, of a device or of none, with a number from 2 up, if any.
Ids == (TransferDevices \union {Missing}) \X Names \X (1..MaxNumber)
TagContents == [device : TransferDevices, name : Names, text : Texts, mqtt : BOOLEAN]

\* A row of a file: a tag, with its id or none; an invalid row fails the schema.
FileRows == [id : Ids \union {Missing}, name : Names, text : Texts, mqtt : BOOLEAN, valid : BOOLEAN]
TagFiles == [format : {"csv", "json", "bundle"}, device : TransferDevices, channel : TransferChannels, rows : Seq(FileRows)]

ASSUME MissingAssumption ==
    /\ Missing \notin Ids \union TagContents \union TransferChannels
    /\ MaxNumber \in Nat \ {0}
ASSUME NeutralAssumption == Neutral \in [Texts -> Texts]
ASSUME HandMadeAssumption ==
    \A f \in HandMade :
        f \in TagFiles /\ (f.format # "csv" => \A k \in DOMAIN f.rows : f.rows[k].id # Missing)

VARIABLES
    devices,  \* devices[d]: the channel of d, or Absent
    tags,     \* tags[i]: the tag with the id i, or Absent
    file,     \* a file on the operator's disk, or Absent
    steps

transferVars == <<devices, tags, file, steps>>

TagsIn(d) == {i \in Ids : tags[i] # Missing /\ tags[i].device = d}

\* What an export writes of a tag.  The CSV has no column for the MQTT overrides.
JsonRow(i) == [id |-> i, name |-> tags[i].name, text |-> tags[i].text, mqtt |-> tags[i].mqtt, valid |-> TRUE]
CsvRow(i) == [JsonRow(i) EXCEPT !.text = Neutral[@], !.mqtt = FALSE]

\* csvToTags: rows without an id get the slug of their name.  (The schema refuses a
\* JSON row without an id: it is an invalid row.)
Identified(r, d) == [r EXCEPT !.id = IF @ = Missing THEN <<d, r.name, 1>> ELSE @]

\* Fault: an id is usable only if nobody has it.
FaultUsable(db, d, taken, i) == i \notin taken /\ db[i] = Missing

\* An id may be used for a tag of d: not yet in this import, and nobody else's.
Usable(db, d, taken, i) == i \notin taken /\ (db[i] # Missing => db[i].device = d)

\* The id of a row: its own if usable, or the first usable one of its name's
\* slugs, or Missing when they end.
Binding(db, d, taken, r) ==
    LET free == {n \in 1..MaxNumber : Usable(db, d, taken, <<d, r.name, n>>)}
    IN  IF Usable(db, d, taken, r.id) THEN r.id
        ELSE IF free = {} THEN Missing ELSE <<d, r.name, Min(free)>>

\* Fault: ids given in this import are not remembered.
FaultRebound(db, d, rows) == [k \in DOMAIN rows |-> Binding(db, d, {}, rows[k])]

\* rebindImportedTags: the ids of the rows in the database db, one after another.
Rebinding(db, d, rows) ==
    LET ids[k \in 0..Len(rows)] ==
            IF k = 0 THEN <<>>
            ELSE Append(ids[k - 1], Binding(db, d, ToSet(ids[k - 1]), rows[k]))
    IN  ids
Rebound(db, d, rows) == Rebinding(db, d, rows)[Len(rows)]

TagOf(d, r) == [device |-> d, name |-> r.name, text |-> r.text, mqtt |-> r.mqtt]

\* db after the first k rows have been saved under the ids `ids`: of two rows with
\* one id the later stays.
Saved(db, d, rows, ids, k) ==
    LET under(i) == {j \in 1..k : ids[j] = i}
    IN  [i \in Ids |-> IF under(i) = {} THEN db[i] ELSE TagOf(d, rows[Max(under(i))])]

Prepared(f, d) == [k \in DOMAIN f.rows |-> Identified(f.rows[k], d)]
AllValid(f) == \A k \in DOMAIN f.rows : f.rows[k].valid

\* How many rows can have been saved when an import of f ends: all; or, when a
\* row of a JSON array is refused, those before it; or, when the process dies, any.
\* The rows of a CSV and of a bundle are all parsed before the first is saved.
Ends(f) ==
    IF AllValid(f) THEN 0..Len(f.rows)
    ELSE IF f.format = "json" THEN 0..(Min({k \in DOMAIN f.rows : ~f.rows[k].valid}) - 1)
    ELSE {0}

TagImport(db, f, d, k) ==
    LET rows == Prepared(f, d)
    IN  Saved(db, d, rows, Rebound(db, d, rows), k)

Step == steps < MaxSteps /\ steps' = steps + 1

TransferInit ==
    /\ devices \in [TransferDevices -> TransferChannels \union {Missing}]
    /\ tags = [i \in Ids |-> Missing]
    /\ file \in HandMade \union {Missing}
    /\ steps = 0

\* The console creates a tag under the first free slug of its name, and edits it.
CreateTag(d, t) ==
    /\ Step
    /\ devices[d] # Missing
    /\ LET free == {n \in 1..MaxNumber : tags[<<Missing, t.name, n>>] = Missing}
       IN  free # {} /\ tags' = [tags EXCEPT ![<<Missing, t.name, Min(free)>>] = t]
    /\ UNCHANGED <<devices, file>>

EditTag(i, t) ==
    /\ Step
    /\ tags[i] # Missing /\ tags[i] # t
    /\ t.device = tags[i].device
    /\ tags' = [tags EXCEPT ![i] = t]
    /\ UNCHANGED <<devices, file>>

DeleteDevice(d) ==
    /\ Step
    /\ devices[d] # Missing
    /\ devices' = [devices EXCEPT ![d] = Missing]
    /\ tags' = [i \in Ids |-> IF i \in TagsIn(d) THEN Missing ELSE tags[i]]
    /\ UNCHANGED file

ExportTags(d, format) ==
    /\ Step
    /\ devices[d] # Missing
    /\ LET ids == SetToSeq(TagsIn(d))
       IN  file' = [format |-> format, device |-> d, channel |-> devices[d],
                    rows |-> [k \in DOMAIN ids |-> IF format = "csv" THEN CsvRow(ids[k]) ELSE JsonRow(ids[k])]]
    /\ UNCHANGED <<devices, tags>>

ExportDevice(d) == ExportTags(d, "bundle")

\* POST /api/tags/import: saves rows under ids of their own in the device d.
ImportTags(d, k) ==
    /\ Step
    /\ devices[d] # Missing
    /\ file # Missing /\ file.format # "bundle"
    /\ k \in Ends(file)
    /\ \A j \in DOMAIN file.rows : Rebound(tags, d, Prepared(file, d))[j] # Missing    \* bound
    /\ tags' = TagImport(tags, file, d, k)
    /\ UNCHANGED <<devices, file>>

\* POST /api/devices/import: saves the device in the channel asked for, if it
\* exists, and the first k tags under the ids they have, whoever has them now.
ImportDevice(c, k) ==
    /\ Step
    /\ file # Missing /\ file.format = "bundle"
    /\ k \in Ends(file)
    /\ devices' = [devices EXCEPT ![file.device] = c]
    /\ tags' = Saved(tags, file.device, file.rows, [j \in DOMAIN file.rows |-> file.rows[j].id], k)
    /\ UNCHANGED file

TransferNext ==
    \/ \E t \in TagContents : CreateTag(t.device, t) \/ \E i \in Ids : EditTag(i, t)
    \/ \E d \in TransferDevices : DeleteDevice(d) \/ ExportDevice(d)
    \/ \E d \in TransferDevices, format \in {"csv", "json"} : ExportTags(d, format)
    \/ \E d \in TransferDevices, k \in 0..MaxNumber : ImportTags(d, k)
    \/ \E c \in TransferChannels, k \in 0..MaxNumber : ImportDevice(c, k)

TransferSpec == TransferInit /\ [][TransferNext]_transferVars

-----------------------------------------------------------------------------
\* The types of the variables; every tag has a device.
TransferTypeOK ==
    /\ devices \in [TransferDevices -> TransferChannels \union {Missing}]
    /\ tags \in [Ids -> TagContents \union {Missing}]
    /\ \A i \in Ids : tags[i] # Missing => devices[tags[i].device] # Missing
    /\ file # Missing => file.format \in {"csv", "json", "bundle"} /\ file.rows \in Seq(FileRows)
    /\ steps \in 0..MaxSteps

\* A complete tag import has a tag for every row, rows that agree in all counted
\* one by one: no row is lost to another one.
EveryRowArrives ==
    [][\A d \in TransferDevices : ImportTags(d, Len(file.rows)) =>
          \A k \in DOMAIN file.rows :
             LET content == TagOf(d, file.rows[k])
             IN  Cardinality({j \in DOMAIN file.rows : TagOf(d, file.rows[j]) = content})
                    <= Cardinality({i \in Ids : tags'[i] = content})]_transferVars

\* After an import of the file has broken off anywhere, importing it again gives
\* what it would have given at once; so does importing it twice.
RetryCompletes ==
    file # Missing /\ file.format # "bundle" /\ AllValid(file) =>
        \A d \in TransferDevices, k \in 0..Len(file.rows) :
            LET whole(db) == TagImport(db, file, d, Len(file.rows))
            IN  whole(TagImport(tags, file, d, k)) = whole(tags)

=============================================================================
