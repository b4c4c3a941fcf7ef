------------------------------- MODULE MCStore -------------------------------
(* The configuration and what goes in and out of it: the store, exports and    *)
(* imports of tags and devices, the CSV syntax, the console's import dialog    *)
(* and its dialogs that create and delete.  They are explored one at a time,   *)
(* while the others are at rest: each has a configuration of its own, with     *)
(* what matters to it.                                                         *)
(*                                                                             *)
(* Store: two channels, two devices, two tags and an agent; a project that     *)
(* moves a device and a tag, and one with a device and a tag that hang from    *)
(* nothing. Transfer: two devices, one name, so that every tag collides with   *)
(* every other; files with two rows of the same name, with an id of another    *)
(* device, with an invalid row in the middle, and a bundle whose tag may be    *)
(* somebody's by now. CSV: one row of two fields, and two rows of one, over    *)
(* all characters that are treated differently. Import dialog: a channel, a    *)
(* device with two contents and an agent; files that have both rows, one with  *)
(* its defaults left out, or the device alone, or cannot be parsed; one        *)
(* plugin. Dialogs: a channel with a device and a tag; the create dialogs may  *)
(* add a tag and, once it is gone, the channel again.                          *)
EXTENDS ConfigStore, Transfer, Csv, ImportDialog, ProjectDialogs

CONSTANTS c1, c2, x1, x2, t1, t2, a1, v1, v2, v3, raw, none, absent, unparseable

MCChannels == {c1, c2}
MCDevices == {x1, x2}
MCTags == {t1, t2}
MCAgents == {a1}
MCOne == {v1}
MCTwo == {v1, v2}

Device(c) == [channel |-> c, data |-> v1]
Tag(x) == [device |-> x, data |-> v1]

\* Two devices in one channel, both tags in the first device
Whole == [channels |-> c1 :> v1 @@ c2 :> absent,
          devices |-> x1 :> Device(c1) @@ x2 :> Device(c1),
          tags |-> t1 :> Tag(x1) @@ t2 :> Tag(x1),
          agents |-> a1 :> v1]
\* Only a tag and the device it belongs in: its channel must exist already
Part == [channels |-> c1 :> absent @@ c2 :> absent,
         devices |-> x1 :> absent @@ x2 :> Device(c2),
         tags |-> t1 :> Tag(x2) @@ t2 :> absent,
         agents |-> a1 :> absent]

\* A file that has lost a channel and a device: replaceProject takes it
Orphaned == [Whole EXCEPT !.channels[c1] = absent, !.devices[x1] = absent]

MCProjects == {Whole, [Whole EXCEPT !.devices[x2] = absent, !.tags[t2] = absent], Orphaned}
MCAdditions == {Whole, Part}

-----------------------------------------------------------------------------
(* Transfer *)

MCTransferChannels == {c1}
MCNames == {"temp"}
MCTexts == {"=formula", "'=formula"}
MCNeutral == [t \in MCTexts |-> "'=formula"]

ImportedRow(id, content) ==
    [id |-> id, name |-> "temp", text |-> content, mqtt |-> FALSE, valid |-> TRUE]
MCHandMade ==
    {[format |-> "csv", device |-> x1, channel |-> c1,
      rows |-> <<ImportedRow(absent, "=formula"), ImportedRow(<<x2, "temp", 1>>, "=formula"),
                 ImportedRow(<<absent, "temp", 1>>, "'=formula")>>],
     [format |-> "json", device |-> x1, channel |-> c1,
      rows |-> <<ImportedRow(<<x1, "temp", 1>>, "=formula"),
                 ImportedRow(<<x2, "temp", 2>>, "=formula"),
                 [ImportedRow(<<x1, "temp", 3>>, "=formula") EXCEPT !.valid = FALSE]>>],
     [format |-> "bundle", device |-> x1, channel |-> c1,
      rows |-> <<ImportedRow(<<absent, "temp", 1>>, "=formula")>>]}

-----------------------------------------------------------------------------
(* Csv *)

CsvFields == UNION {[1 .. n -> {"a", " ", "=", ",", "quote", "cr", "lf"}] : n \in 0 .. 2}
MCTables ==
    {<<<<f, g>>>> : f, g \in CsvFields} \union {<<<<f>>, <<g>>>> : f, g \in CsvFields}

-----------------------------------------------------------------------------
(* ImportDialog *)

MCKinds == {"project", "tags"}
MCImportEntities == {c1, x1}
MCContents == {v1, v2, v3}      \* of the channel, and two of the device
MCRawContents == MCContents \union {raw}
MCParse == [c \in MCRawContents |-> IF c = raw THEN v2 ELSE c]
MCImportParent == v1 :> absent @@ v2 :> c1 @@ v3 :> c1
Rows(channel, device, agent) == c1 :> channel @@ x1 :> device @@ a1 :> agent
MCFiles == {Rows(v1, raw, absent), Rows(absent, v3, absent), unparseable}
MCInitialProjects == {Rows(absent, absent, v1), Rows(v1, v2, v1)}
MCPlugins == {"kepserver"}

-----------------------------------------------------------------------------
(* ProjectDialogs *)

MCEntities == {c1, x1, t1, t2}
MCParent == c1 :> none @@ x1 :> c1 @@ t1 :> x1 @@ t2 :> x1
MCConfigs == {0, 1}
MCSeries == {<<c1>>, <<x1>>, <<t1, t2>>}
MCInitial == {[e \in MCEntities |-> IF e = t2 THEN absent ELSE 0]}

-----------------------------------------------------------------------------

VARIABLE part       \* what is explored

allVars == <<part, storeVars, transferVars, csvVars, importVars, dialogVars>>

MCInit ==
    /\ part \in {"store", "transfer", "csv", "import", "dialogs"}
    /\ StoreInit
    /\ TransferInit
    /\ part # "transfer" => file = absent /\ devices = [x \in MCDevices |-> absent]
    /\ part = "csv" \/ table = <<<<<<>>, <<>>>>>>
    /\ CsvInit /\ (part # "csv" => text = <<",", "lf">>)
    /\ ImportInit /\ (part # "import" => store = Rows(absent, absent, v1))
    /\ DialogsInit

MCNext ==
    \/ part = "store" /\ StoreNext
       /\ UNCHANGED <<part, transferVars, csvVars, importVars, dialogVars>>
    \/ part = "transfer" /\ TransferNext
       /\ UNCHANGED <<part, storeVars, csvVars, importVars, dialogVars>>
    \/ part = "csv" /\ CsvNext
       /\ UNCHANGED <<part, storeVars, transferVars, importVars, dialogVars>>
    \/ part = "import" /\ ImportNext
       /\ UNCHANGED <<part, storeVars, transferVars, csvVars, dialogVars>>
    \/ part = "dialogs" /\ DialogsNext
       /\ UNCHANGED <<part, storeVars, transferVars, csvVars, importVars>>

MCSpec == MCInit /\ [][MCNext]_allVars
==============================================================================
