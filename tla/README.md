# ODIServer: specifications, model checking and proofs

ODIServer connects industrial devices (Modbus TCP, OPC UA) to clients (a web
console, MQTT brokers, OPC UA clients). This directory holds TLA+ modules
translated from its source, TLC configurations that check them on small
instances, and proofs, checked by TLAPS, of what holds on every instance. File
names below are relative to `packages/`.

`PROJECT.json` is the index: components, runs, mutants (a fault put into a
definition, which the property must catch), the map from every definition to
the lines it stands for, findings, hazards and theorems.

## 1. Inventory

One Node.js process runs everything, so a synchronous call is atomic and its
EventEmitter listeners run inside it. What is concurrent is what lies between
calls: timers, promises, sockets, Node-RED's flows, and the death of the process.

| component | state | operations | talks to | hard about it |
|---|---|---|---|---|
| Tag engine (`core/src/tag-engine.ts`) | runtime tags (value, quality, error, reported value and quality), device index | load, upsertTag, removeTag, updateRaw, setQuality, setQualityForDevice, write, getAllValues | emits `change` to MQTT, WebSocket, OPC UA and the event log, `write` to the drivers | filtered changes against what clients hold; reloads while drivers deliver |
| Scaling (same file) | none | applyScaling, coerceToType | used by updateRaw | inverted and empty ranges, clamps, negation, rounding, NaN |
| Configuration store (`core/src/store.ts`) | rows in SQLite | upserts, cascading removals, replace and merge of a project | emits `change` for every mutation | cascades are not one transaction |
| Event log (`core/src/event-log.ts`) | ring buffer, next id | add, list | WebSocket, REST | ids restart with the process |
| Import/export (`core/src/transfer.ts`, `api/src/transfer-routes.ts`) | none | project, device and tag import, rebinding of ids | store | partial failure, id collisions |
| Server wiring (`server/src/index.ts`) | debounce timers, bursts | boot, change listener, stop | all of them | edits during boot, debounce and deployment |
| Embedded Node-RED (`server/src/nodered.ts`) | deployed flows, flows.json | start, deploy | driver flows | the initial flow load races the first deployment |
| Flow generator (`drivers/src/flow-gen.ts`) | none | generateFlows, block grouping | Node-RED | block limits, skipped tags |
| Bridges (`drivers/nodered/*.js`) | address caches | tag in/out, OPC UA in/out/sub | engine, store | stale caches, errors of a whole device |
| MQTT agent (`server/src/mqtt/agent-runtime.ts`, `render.ts`) | connection state, last published value and quality, interval timers | connect, close, error, change, interval, stop | engine, store, broker | deadbands in a row, reconnects, timers |
| MQTT manager (`server/src/mqtt/manager.ts`) | runtimes by agent id, debounce timer | reconcile, stop | store, agents | two clients of one agent, needless reconnects |
| OPC UA server (`server/src/opcua-server.ts`) | address space, statistics | rebuild, push, write | engine, store | writes against a stale tree |
| REST API and WebSocket (`api/src`) | none, sockets | CRUD, values, imports, stream | store, engine | snapshot and stream in order |
| Console state (`web/src/lib`) | values, buffered changes, events; a copy of the project; the flag of unsaved edits | snapshot, change, pause, refresh | REST, WebSocket | two sources of one value; fetches that overlap |
| Console dialogs and pages (`web/src/App.tsx`, `components`, `pages`) | selection, forms, open dialogs, undo snapshot | select, edit, save, create, delete, undo, import, write, agents | REST, console state | forms and ids over a stale copy; answers after the dialog has moved on |

What makes each correct: clients that only see change events are never far from
the truth; the engine holds what is saved; nothing but an import brings orphan rows; the running flows end
up those of the last edit; an MQTT agent keeps its subscribers as close as its
deadband promises and holds one connection; the console shows the newest value;
what an operator saves, deletes, restores, imports or writes there is what was
shown to them, lands where they selected, and its outcome is reported truly.

## 2. Modules

| module | models | notes |
|---|---|---|
| `Scaling` | processValue, applyScaling, coerceToType | numbers are fixed-point integers, `Unit` steps to 1.0 and `FloatStep` to the next float32, or `NaN` |
| `ScalingLaws` | the clamps, checked as a raw value sweeps a window | extends `Scaling` |
| `TagEngine` | every method of the engine | extends `Scaling`; `events` is what the call emitted, `seen` a ghost: a client that reads a tag when it appears and applies every change event since |
| `TagView` | what the engine promises | abstract: no deadband, reported value or index |
| `ConfigStore` | the store | one step per committed row of a cascade |
| `ServerCore` | store, engine, debounce, Node-RED and the reading flows together | extends `TagEngine`; the rows of the store are one map of tag configurations |
| `MqttAgent` | one agent runtime following an engine | extends `TagEngine` |
| `MqttManager` | the set of agents and its reconciliation | clients are numbered; the rest of a runtime is `MqttAgent` |
| `Registers` | byte-order.js: byte orders, decoding, encoding | 32- and 64-bit values are their bytes |
| `Modbus` | the requests planned for a device's tags, both bridges, the device's memory | extends `Registers`; `written` is a ghost: what was last written to a tag and not changed since |
| `OpcUaServer` | the northbound OPC UA server | a tag's value and quality are one datum; nodes are the configurations they captured |
| `Stream` | the WebSocket as one client sees it | greeting, broadcast, loss with a tail of what was in flight |
| `LiveValues` | the console's values: REST answer, greetings, changes, flush, pause | extends `Stream`; `source` stands for the engine |
| `EventStream` | the server's event log and the console's list of it | extends `Stream`; an event is its id and the run of the server |
| `OpcUaBridge` | OPC UA client channels: generated nodes, registration, polling, inbound and outbound bridge | the client and its server are external; the nodes that run (`subs`, `outs`) may be of an old configuration (`stale`) |
| `ServerLog` | transitions of quality, collected in bursts and written as lines | `told` is a ghost: the quality of the last line about a tag |
| `Transfer` | exports and imports of tags and device bundles, in JSON and CSV | files are kept and imported later; one step per committed row, in `ImportTags` and `ImportDevice` the number of rows committed before a crash or refusal is chosen |
| `Csv` | the writer and the parser of CSV, one turn of the loop a step | characters that are treated alike are one |
| `ProjectCache` | the console's copy of the project and its fetches | extended by the next two |
| `EditSession` | selection, editors, unsaved edits, saves | a configuration is a name, a driver-dependent part and a rest no form shows |
| `ProjectDialogs` | create, delete with undo, new project | one request at a time, as the code awaits them |
| `ImportDialog` | file, format, mode, preview, confirmation, import | a file is the rows it has; `Parse` is what the server makes of a row |
| `AgentPage` | the page of MQTT agents and its routes | an agent is a URL and a password |
| `WriteDialog` | writing a value: request, driver, device, poll, engine, stream and the dialog that waits for the echo | time in ticks; the browser's clock is off the server's by one of `Skews`, chosen at each write |
| `TagEngineProofs`, `ServerCoreProofs`, `DriverProofs` (registers, Modbus, scaling, OPC UA client bridges), `StoreProofs` (store, import dialog, undo, transfer, CSV), `MqttProofs` (manager, agent, page), `ConsoleProofs` (live values, write dialog, log, event list), `OpcUaServerProofs`, `EditSessionProofs` | theorems | section 5 |
| `MC*` | instances for TLC | section 3 |

How they correspond to the code:

* `TagEngine`: `tags` is the map `tags`, `Absent` an id without an entry;
  `Loaded` and `Indexed` are the two halves of `load()`. `Updated` and
  `Requalified` are what `updateRaw` and `setQuality` do to one entry,
  `UpdateReports` and `QualityReports` whether they emit. Timestamps are left out.
  `DriverStep` has the calls the bridges make: good updates, bad or uncertain marks.
* `ConfigStore`: `db` holds committed rows, `call` the removal that is being
  worked through (its local list and the one of the nested `removeDevice`). No
  other call runs in between, but the process may die there (`Crash`) and
  listeners run there. What a row holds beyond its parent is a model value. A project
  that replaces the configuration may have orphans (`Projects` is any set of databases),
  as `replaceProject` looks up no parents.
* `Scaling`: `Math.fround` is a rounding to multiples of `FloatStep`. The numbers of a
  float32 are farther apart the larger they are; the model takes them to be equally far
  apart, and rounds halves up where `fround` takes the even one.
* `ServerCore`: a configuration is read at the address `Reads` gives it, or not
  at all (invalid address, disabled device or channel, other driver). The value
  at an address is a word of its own, so that a value tells where it comes from.
  `phase` is how far the boot is: HTTP listens before Node-RED starts, so edits
  arrive in every phase. `deploys` are the `setFlows` calls that have not
  settled; they are assumed to take effect in the order they were made.
  `StartNodeRed` loads flows.json, which is why `deployDriverFlows` at the end of
  the boot matters. A deployment rejected in the boot ends the process: `Crash`.
* `MqttAgent`: `FollowEngine` is an engine call together with the agent's
  listener, which runs inside it. `last` is `lastValue` and `lastQuality`;
  `steady` is a ghost, the tags of which subscribers have been told in this
  connection. After `end(true)` mqtt.js is assumed to emit nothing.
* `LiveValues`: a value stands for value, quality and error together. `rest` and
  `reply` are the initial request and its answer, which may come in at any time.
  A connection is only opened with no flush outstanding: a flush is due after
  200 ms and a reconnect waits for a second. `fresh` is a ghost: the tags whose
  newest state has reached the console in this connection and was not overwritten
  by the late answer or kept out by an older pending change. Trend arrows are left
  out.
* `EventStream`: `fetches` are the requests that have not settled, in any stage;
  they are served and answered in any order, or fail. A restart empties the log.
* `Modbus`: a tag is its place in the list the store returns. `Blocks` is what
  `generateFlows` groups: `Grouping` is the loop over one group of tags (`Sorted`),
  `Place` one turn of it. The nodes it makes of a block are the actions `ReadBlock`
  (read node and bridges), `ReadFails` (msg.error and catch node) and, for the
  device, `LinkLost` (status node). Answers may be short, down to empty; a block that
  reaches beyond the device's last register only fails, and a write there is refused.
  The values that reach the engine (`held`) have no scaling; what happens to them there
  is `TagEngine`.
  `DeviceSets` lets the device change its registers by itself. Two blocks of different
  scan rates that start at one register have one node id, and one of them is never read
  (section 4). Which one is left open: each block may be read at any time, as no read has
  to happen, so that the properties of reads hold whichever is kept. `PlanCoversTags` is
  about the plan and does not say that each of its blocks is read.
* `OpcUaServer`: there is one channel. `deviceNodes` and `variables` hold the
  configurations that the closures of the nodes captured, `variables` also the value
  last stored (`tagVariables`). Rows are listed in any order; a second node with a
  path that exists throws (node-opcua), so a build adds what comes before it
  (`Added`). In the start this ends the server, later it is logged. Reads go
  through to the engine and need no state; a write of a tag is `TagEngine!Write`.
* `MqttManager`: `Reconcile` is the whole synchronous loop. Whether an enabled
  agent opens a client is a choice: URL filter and TLS files may refuse.

* `OpcUaBridge`: `Redeploy` is `generateFlows` for these channels, with the debounce
  left to `ServerCore`; every edit is followed by one. The bridges' caches are `byAddress`,
  `deviceIds` and `byTagId`, forgotten at a configuration event and rebuilt at the next
  message or write. `inbox` holds notifications of the client that the bridge has not had yet.
  What the client reports of a value (`Reports`) is the value or null with a good status, an
  uncertain status, or a bad one, with which an error of a single tag is taken together
  (`Updated`): it leads to the same mark. A
  message with an error and without a tag's address is the loss of the connection. Tags are
  created, edited and deleted, devices created, enabled, disabled and deleted; channels are
  never edited, disabled or deleted, as everything the bridges keep is per channel or group
  and a deleted channel has no bridge: whatever its own deployment leaves behind
  is not modelled.
* `ProjectCache`: `asked` and `answers` are the GETs under way, not yet served and not yet
  arrived, in any order; a failed one leaves the copy. `EditSession` and `ProjectDialogs` speak of entities that keep
  their parent; `OtherClient` is any other user of the REST API.
* `EditSession`: an editor is mounted per `kind:id` (its React key) and keeps its fields
  across refetches; `initial` is the snapshot of `useInitialJson`.
* `ProjectDialogs`: the undo snapshot is what the console's copy has when the delete dialog
  opens; `UndoStep` is one POST, channels first, then devices, then tags. Toasts may go at
  any time.
* `ImportDialog`: an effect runs when one of its dependencies changes, so it is part of
  the actions that change them (`PreviewEffect`). Cancelled reads go on and are ignored.
  `Diff` compares the rows of the file as they are there, `Serve` takes what `Parse`
  makes of them: zod's defaults and order of keys, by which different rows of a file become
  one stored row and a stored row, exported, is itself (`ParseAssumption`). A merge is refused if a row's
  parent is unknown (`ParentsKnown`), a replacement is not. The text of a plugin's format is sent
  unparsed, and the plugin makes any project of it (`RowsOf`); so is a file of tags,
  which may be CSV. What an import of a device or of tags leaves behind when it fails is in `Transfer`.
* `AgentPage`: the deletion's answer clears the selection it saw when it was confirmed,
  not the one there is now (a closure). Testing the connection and polling the status
  change no configuration and are left out; the delete dialog is left alone while its
  request is under way.
* `WriteDialog`: `feed` is everything between the engine and what is shown, so pauses
  and flushes are a matter of when `ShowFeed` is taken; `other` bounds the changes from
  elsewhere. Numbers are small naturals, `Stored` what a data type makes of them. A dialog
  closed while its request is under way may be opened again for a second write: `requests`
  has both, and the bridge sends them one after the other (`writing`). `reads` is a ghost:
  what the tag was given, and when.
* `Transfer`: an id is made of a device, a name and a suffix. `Binding` is the id one row
  gets, `Rebinding` the loop over the rows with the ids given so far, `Rebound` its result.
  The search for a suffix ends at `MaxNumber`; an import that would need a longer one is
  left out (the guard of `ImportTags` marked as a bound).
* `Csv`: a table is any sequence of rows with at least one field each, of the characters
  the writer and the parser tell apart (`TablesAssumption`).
* `ServerLog`: an edit and its effect on the engine are one step, as in the code;
  creating a tag starts its story anew.

Definitions marked `Fault:` are the mutated forms PROJECT.json lists; nothing
else uses them.

## 3. Runs

| run | instance and bounds | shows |
|---|---|---|
| `data_path`, registers | devices of up to 3 tags (neighbours, gaps, an overlap, coils, an invalid address, two scan rates, four byte orders) under 4 device settings, 4 registers a table, 2 values the device sets, 1 or 2 written per type; and 4 tags in two blocks that start at one register | every tag is in one block and gets its own registers; what is written is read back |
| `data_path`, scaling | 2 steps to the unit and 4 to the next float32, integer, float32 and float64 types, raw range upright, inverted or empty, 3 engineering limits of either sign, every mix of options, raw -2..6 (outside the range on both sides) | a clamped value stays in its range |
| `data_path`, engine | 2 tags, 2 devices, raw values 0, 1, 2 and NaN, deadbands 0 and 1; no bound on steps | clients in step, index consistent, refinement of `TagView` |
| `server` | 2 tags, 1 device, 2 addresses and an unreadable one, 2 edits, 1 crash, 1 rejected deployment, debounce of 2 ticks | engine and store agree; stale flows are on their way out; values converge |
| `opcua` | 2 devices and 2 tags whose names may clash, any initial store, devices enabled at first, 2 edits, 1 write of `_Enabled`, debounce of 2 ticks | the address space follows the store, its values the engine |
| `opcua_client`, routing | 2 channels of one group (one polling), 2 devices, 2 tags (one of 64 bits), 3 addresses (one invalid), 2 values, every status and null, 2 edits, 1 loss, 1 change of a value, 1 notification waiting | values and writes follow the saved configuration |
| `opcua_client`, losses | 2 groups, 3 devices and 3 tags, of which one device and its tag come later, 1 address, good, bad and null, 2 edits, 2 losses, 1 notification waiting | the second loss marks the tags there are by then, and no other group's |
| `mqtt`, manager | 2 agents, 3 configurations (one disabled), 3 edits, 1 unreadable store, debounce of 2 ticks | one client per agent, no needless reconnect, convergence |
| `mqtt`, agent | 1 tag, 5 configurations (inheriting, opted out, wider deadband, two intervals), values 0..3 and NaN, 3 edits | subscribers and timers in step |
| `mqtt`, page | 2 ids, 2 URLs (one without scheme), 1 password, 2 fetches, 2 requests, 1 change elsewhere | passwords, and the list |
| `console`, values | 2 tags, 2 values, 2 messages in flight; no bound on steps | what reached the console in a connection is kept |
| `console`, events | list of 2 over a buffer of 3, 4 events a run, 1 restart, 2 fetches and 2 messages in flight | events in order, no gap forgotten |
| `console`, bursts | 2 tags, 2 devices, 3 qualities, 1 error text, 3 changes, 2 edits, bursts of 2 ticks | the last line about a tag tells its quality |
| `console`, write | 2 values, 2 dialogs, 2 writes on their way, 2 ticks with a time-out of 1, 1 event on the way, 1 change elsewhere, a console clock in step or a tick behind | success is reported truly, up to the clocks' difference |
| `store`, store | 2 channels, 2 devices, 2 tags, an agent, 3 projects to import, one with orphans, and two to merge; no bound on steps | no orphans but imported ones, through cascades, imports, crashes |
| `store`, transfer | 2 devices, 1 name (so that all tags collide), texts with and without a formula, ids up to `-6`, 4 operations; hand-made files with equal names, another device's ids, an invalid row | imports lose nothing and can be repeated |
| `store`, csv | one row of two fields or two rows of one, fields of up to 2 of 7 characters | what is written parses back |
| `store`, import | a channel, a device of 2 contents, an agent; files with both rows (one leaves a default out), with the device alone, or unparseable; a plugin; 2 openings, 1 import, 2 reads, 1 change elsewhere | previews are current and name what the import changes |
| `store`, dialogs | a channel, a device, two tags, 2 fetches, 2 changes here and 1 elsewhere | undo restores |
| `edit_session` | a channel, a device, a tag; 2 values a field; 2 fetches, 2 changes here and 1 elsewhere | edits are flagged; nothing unseen is overwritten |
| `modbus_types` | the layouts of `data_path` with the other types | finding: they do not read back |
| `opcua_enabled` | `opcua` without clashes of device names, 2 settings | finding: a write of `_Enabled` saves an old configuration |
| `events_restart` | `console`, events | finding: events of two runs of the server mix |
| `mqtt_nan` | `mqtt`, agent | finding: after NaN changes are not published |

`data_path`, `mqtt`, `console` and `store` each hold several components that share no state (or share
it only through actions that each of them has for itself, as `OtherClient` and
`ForeignChange` stand for every other user of the REST API). Their MC modules choose in
`part`, once and for all, which of them runs while the others stay in an initial state:
the state space is the sum of theirs and not the product, and each is explored in full.
`opcua_client` holds two instances of one component in the same way.

Why the bounds are enough. Engine, store and live values have no counters: their state
spaces are complete. Two tags and two devices are the smallest instance in which a tag
moves while another stays. Two edits are enough for one to come during the
other's debounce, deployment or boot phase; a third (agents) takes an edit back.
Two debounce ticks let an edit fall between them. Values 0..3 with deadbands 0, 1
and 2 reach both ends of each filter, NaN the value that no filter compares.
A block is cut by size, by gap or by the end
of the list, and the layouts meet each cut on both sides; four registers hold the
widest value.

Two messages in flight let a greeting and a change, or two changes, wait together;
a list of two and a buffer of three overflow both, and two fetches can be answered
in the wrong order.

An OPC UA bridge lists its devices at the first loss; the second loss is the one that meets
a list made before an edit, and two edits make a new device and its tag. So two of each are
the least that matter: a bridge whose list outlives edits breaks `LossReachesAll`. A second
group is what "no other tag" needs; the caches of one channel need two channels in one
group, which the routing instance has.

In the console's dialogs one entity, agent or dialog is under the operator's hand while a
second plays the other one; two requests, one of them answered late, and one change by
another client are the least that overtake each other, and each run meets them in every
order. The dialogs need four entities for an undo that fails with some of them created.
One import is enough for the import dialog, because its answer meets the second opening.
In the write dialog the echo may come in the tick of the write or before the time-out in the
next, and the second tick is beyond it; a clock that is one tick behind already takes the
tick before the write for it. Two dialogs make the second write beside the first. The CSV part has every pair of characters inside a field
and every character on both sides of a separator and of a line end.
Four operations of transfer are: export, delete or edit, import, import again.

Each module has one type invariant. It is part of a proved invariant (section 5), or, where
the proof needs less of the types, a shape is (`BridgeShape`, `ImportShape`, `RestoreShape`,
`FetchesShaped`). The others (`BridgeTypeOK`, `ImportTypeOK`, `CsvTypeOK`, ...) hold on the
instances above and document the variables. The standing runs keep their places for what
could be wrong: no run lists them. `ReportedInStep`,
`CascadeCoversChildren`, `StreamCurrent` and `ErrorOnlyWhenNotGood` are
parts of the inductive invariants; they are proved and have no place in the runs either.

Deadlock is checked only in `modbus_types` and `events_restart`. Elsewhere it is not: edits,
crashes, requests and stops are bounded or final, so those systems may come to rest.

### Fairness

`ServerCore`: weak fairness of the boot steps (nothing in them waits for anyone),
of timers (`Tick`, `Redeploy`), of the settling of `setFlows` (either way), and of
polling a tag that a running flow reads (Modbus flows poll on a timer). No
fairness for edits, link losses, crashes or restarts. `ValuesConverge` is excused when
the process is dead or when the last deployment was rejected, since the code does not
retry one (`server/src/index.ts:186`).
`MqttManager`: start and timers. `OpcUaServer`: its timer. Edits are
bounded, so liveness speaks of what happens once they stop: with edits coming
faster than a debounce for ever, nothing is ever deployed.

No other module states fairness: there is nothing in the console's dialogs that does not
wait for an operator, and of the streams and the MQTT and OPC UA clients the safety
properties say what is pending (`GapsArePending`, `StaleFlowsArePending`), so that what is
left to liveness is that sockets deliver, which the code does not promise.

## 4. What the findings say

Four are shown by runs:

1. Tags of type int8, uint8, int64, uint64, bcd, lbcd and date are written through
   `splitRegisters`, but read as their first register, unscaled by any byte order
   (`modbus_types`; `DecodedTypes`).
2. A client's write of `_Enabled` saves the device as it was when the address space
   was built: an edit of the last 250 ms is undone, a device deleted in them is back
   (`opcua_enabled`).
3. After a restart of the server the console lists old events behind new ones and
   drops new ones as duplicates (`events_restart`).
4. An agent that has published NaN publishes no number until the quality changes or it
   reconnects, whatever the deadband (`mqtt_nan`; `ExceedsDeadband`).

Others show in the definitions and have no run of their own:

* Modbus: two blocks of different scan rates that start at one register of a table get one
  node id (`flow-gen.ts:19-21`, `275`), and Node-RED keeps one of the two: the tags of the
  other are never read.
* Replacing the project commits rows whose parents the file does not have
  (`ReplaceProject`). Nothing else makes orphans: `OrphansOnlyImported`.
* OPC UA client channels (`OpcUaBridge`): of two tags of a group with one address only one
  is fed (`AddressIndex`); a polling channel never registers its items again after a full
  reconnect; tags of a disabled device are written. A tag for which no read is generated
  any more keeps its value and good quality, where `flow-gen.ts:686` says it "stays bad
  quality"; the same holds for Modbus.
* Transfer: CSV files lose the MQTT overrides and alter formula-like texts; the new id of a
  renamed row may be another tag's.
* The inspector (`EditSession`): after a save, edits that go back to the old values are not
  flagged (the snapshot stays that of the mount; `FirstEditsFlagged` speaks of the time
  before the first save for this reason); tabs and palette discard edits without asking
  (`SwitchTab`, `Jump`); a tag with a channel's id opens the channel (`Find`). A refetch
  under a mounted editor leaves its fields alone, so that a save may overwrite what another
  client changed: `NoBlindOverwrite` holds only while no other client is at work.
* Dialogs (`ProjectDialogs`): after one deletion the confirm button stays disabled,
  as the dialog outlives its target and `busy` is not reset (`ConfirmDelete`); a failed undo leaves the
  console's copy behind (`UndoFails`); two creates in a row may take one id, and POST
  overwrites (`SubmitCreate`). `MqttPage` makes the ids of new agents in the same way.
  Overlapping fetches of the project may leave an old copy (`FetchArrives`).
* Imports (`ImportDialog`): a row of a file that leaves a default out, or has its keys in
  another order, is previewed as modified even when its import changes nothing (`Diff`
  compares unparsed rows). Replacing the project removes the MQTT agents that the file does
  not have, of which the preview says nothing. So `PreviewPredicts` promises nothing of
  rows said to be modified, nor of agents. Further,
  the button that imports devices or tags waits for a
  confirmation that is only asked for a project; late answers appear in another opening of
  the dialog.
* The agents' editor (`AgentPage`) never shows that a password is stored, and tests a
  connection with an empty one.
* Writing a value (`WriteDialog`): with the browser's clock behind the server's, a value
  from just before the write is taken for its success, and with the clock ahead the echo
  can be missed (`Echoed`); other tags' changes put the time-out off; a value that
  was there already or is rounded is never confirmed; the echo of a write from a dialog
  closed before can confirm the next write of the same value.
* A tag that flaps within one burst can be told as bad last although it is good (`Flush` of
  `ServerLog`: the order is that of first appearance), and a server on which some tag flaps
  all the time logs no outage.
* A tag opted in to a connected agent is published with its next change only
  (`ConfigChange`).
* A change buffered while paused is shown over the newer snapshot of a reconnect (`Merge`,
  `OnSnapshot`), and the answer to the initial request can do the same when it comes late
  (`RestArrives`).
* A start of the OPC UA server over clashing names leaves it down until the process
  restarts (`Start`).
* Smaller ones: clamps on an inverted engineering range move values inside it to an end
  (`Clamp`); negation is skipped for an empty raw range (`ApplyScaling`); a repeated NaN is
  reported every time (`TagEngine`, NaN differs from itself); a project import emits one
  event where its comment promises one per entity (`ReplaceProject`).

## 5. Proofs

All but those about the byte orders and the operators are by invariance: an inductive invariant holds
initially, every action keeps it, and it implies the property; an action property follows
from the invariant before the step; the temporal step is left to PTL. No theorem bounds a
set, a number of steps or a queue: the bounds of section 3 are constants like any other,
of which no more is assumed than that they are numbers.

* `TagEngineProofs` (from the assumptions of `Scaling` and `TagEngine`: values of
  different types differ, deadbands are bounded by `MaxDeadband`): `TypeCorrect`,
  `IndexAlwaysConsistent`, `ClientAlwaysInStep`, `ErrorNeverWithGood`,
  `DriftAlwaysReported`, and `EngineImplementsView`, that the engine implements `TagView`
  call by call. The invariant is `EngineInv`. `ClientInStep` is not inductive: a client is
  within two deadbands of the current value because both are within one deadband of the
  reported value, which neither of them shows. `ReportedInStep` says that, and with
  it the proof goes tag by tag (`ReadInStep`, `FreshInStep`, `ReconfiguredInStep`,
  `UpdatedInStep`, `RequalifiedInStep`), each action moving each tag in one of these
  ways. A reload may put in a configuration with another deadband: this is why the
  bound is the largest deadband and not the one in force.
* `ServerCoreProofs` (on top of `TagEngineProofs`, from its assumptions and those of
  `ServerCore`): `EngineAlwaysMirrors`, `StaleFlowsAlwaysPending`, `ServedClientInStep`.
  A step of the server is a call of the engine (`LoadInv`, `UpdateRawInv`,
  `MarkQualityInv` are cited as they are), a restart, or leaves the engine alone; what is
  new is which configurations a call leaves (`LoadMirrors`, `UpdateKeepsConfigs`,
  `MarkKeepsConfigs`). `StaleFlowsArePending` is not inductive: it is content with
  `failed`, which the next deployment to take effect clears. `LastDeployIsCurrent` says
  that what takes effect last is of the present configuration, and carries it over.
* `DriverProofs`, registers: `ReorderInvolution`, `WireRoundTrip`, `ReadsDecodeWrites`.
  There is no state and no induction: a byte order is a permutation of positions
  (`Partner`), of which it is shown that it is its own inverse; registers split and
  join bytes by division with remainder; narrow types need the two's complement of
  their width. BCD types are left to TLC.
  Modbus, for any list of tags, any settings and any size of the device: `PlanCorrect`,
  `DirectReads` and `ReadsShowWrites`. The plan is a loop over a list, so its proof is an
  induction over data. The provers cannot instantiate the library's induction theorems,
  which take a predicate, but they can those about sets: of the turns of the loop at which
  something is false there would be a least one (`LeastNumber`, `SetInduction`,
  `IntervalInduction`), and that a recursive function is what its definition says
  follows in the same way (`Recursion`). `PlaceKeeps` is the invariant of the loop: the
  blocks so far hold the tags so far, each once, within their limits and gaps (`Planned`).
  Grouping assumes sorted tags, and that a finite group can be sorted is an induction on
  its size. `ReadIsDirect` does the arithmetic of a slice of a block; `MemoryStep` says
  that a write or a change of the device either leaves the registers of a tag alone or
  ends what is remembered of it. None of them assumes anything of the scan rates: blocks
  with one node id are among the layouts. `ReadsShowWrites` has the hypothesis `CombinedTypes`:
  tags have types that the read bridge combines, or are bits, and what the Buffer takes
  of the values written is a value of its type. Without it the property is false
  (finding 1). The run `data_path` evaluates it; the other two theorems do without.
  Scaling: `ClampsHold`. What is left to show after the clamps is that rounding does not
  leave a range whose ends are multiples of the step (`RoundingStays`), `Unit` for the integer
  types and `FloatStep` for float32, whatever the two are.
  OPC UA client bridges: `ValuesReachOwner`, `LossReachesEveryTag`, `WritesAreFollowed`.
  All three rest on `CachesAreFresh`: a cache that a bridge has is that of the saved
  configuration. It survives the bridge's own steps because they leave the configuration
  alone, edits because they empty every cache (`Forget`), and redeployments because new
  bridges have none. That a loss leaves the other tags alone is part of `LossReachesEveryTag`. That the last tag with an
  address is one with that address needs the last place of a set of places (`LastPlace`).
* `StoreProofs`, store: `StoreTypeCorrect` and `NoOrphans`, the latter that every step but
  a replacement of the project leaves no orphan that was none before, with no hypothesis
  about the projects. In the middle of a cascade this
  rests on `CascadeCoversChildren`: the lists still hold every child of the row to be
  deleted last, imported orphans included. For `RemovalsStayInSubtree`, all that a cascade
  still has to do is below what it was asked to remove (`CascadeInSubtree`).
  Import dialog: `PreviewAlwaysCurrent` and `PreviewsPredict`, by `ImportInv`: a read
  that is not cancelled is of what the dialog shows now, and what an import carries as its
  preview is the difference between its file and the copy it was made over. Of `Parse` only
  `ParseAssumption` is used: the stored row a file's row becomes may be any, and a row
  not listed as modified is a stored one, which parsing leaves as it is.
  Undo: `UndoIsComplete`, by `RestoreInv`. A snapshot is right until the deletion, then
  complete, then what is not left of it is restored. It needs `BusyOnce`: the button that
  confirms a deletion stays disabled after one (section 4), so no second deletion can be
  prepared while the first is being undone. If that is repaired, `Undo` has to close or
  refresh an open delete dialog for the property to stay true.
  Transfer, for files of any length: `RetryAlwaysCompletes` and `ImportsKeepEveryRow`, by
  `TransferInv`. What an import binds its rows to depends on the store only through the
  ids the device may use (`SameRebound`), and saving rows of the device under such ids
  changes none of that (`OwnAfter`): the repeated import binds each row to the id it had
  and overwrites what the first one left. No two rows get one id, because an id is usable
  only if no row before has it (`ReboundIds`), so the ids are an injection of the rows
  into the tags, and there are at least as many tags of one content as rows.
  CSV, for tables of any size: `CsvRoundTrip`. The text is a concatenation of texts; its
  parts have places in it (`FlattenParts`), of the rows, of the fields and separators in a
  row, and of the characters in a field, a quote taking two places (`TablePlaced`,
  `RowPlaced`, `QuotedPlaces`). `CsvInv` says that the parser is at one of these places,
  within a field or behind one, and has read what stands before it; a step moves
  it to the next (`FieldStep`, `CommaStep`, `LineEndStep`). That a field without quotes has
  no character that would end it is what `MustQuote` is for.
* `MqttProofs`, manager: `NoLeakedClient` and `StopIsFinal`: `stop()` ends every
  client only because none was leaked before, so the two are proved together.
  `ConnectionsKept` follows from their invariant.
  Agent (on top of `TagEngineProofs`, with `AgentAssumption` and `AgentDeadbandAssumption`):
  `SubscribersAlwaysInStep` and `TimersAlwaysMatch`, by `AgentInv`. As with the engine, what
  a subscriber has is near what the engine last reported (`PublishedNearReported`), and
  that is near the current value: the two deadbands in a row.
  Page: `PasswordsNeverMove`, from `PasswordAssumption` (an empty or omitted
  password is none): what is sent comes out of the form, so the invariant says of the
  form what the property says of the request. `QuietListIsCurrent`, by `ListInv`: unless a
  fetch is still to be asked or served, the newest answer not yet shown is what the server
  has, and the list itself if there is none.
* `ConsoleProofs`, values: `StreamAlwaysCurrent`, `FreshAlwaysInStep`,
  `PendingAlwaysShown`, from `Unknown` not being a value. `FreshInStep` alone says
  nothing of a tag a message is in flight about; `StreamCurrent` supplies what that
  message holds when it arrives, so the two are proved together (`LiveInv`).
  Write dialog: `SuccessNeverStale`, for clocks that differ in either direction and by
  another amount at each write. It says since when the tag was given the value: since the
  time the console's clock showed when the write began. `EchoInv` says of everything between engine and
  dialog that the tag was given it at the time it bears. That this time is not before the
  write is false with a clock that is behind (section 4).
  Log: `LogTellsQuality`. `BurstInv` has to say of each tag whether its last entry is told,
  collected, or neither because it flaps.
  Event list: `ListInOrder` and `NoEventForgotten`. `ListInv` says that ids climb in the
  list over restarts, that a stream holds the latest ids without a gap, and that every
  recent event is listed, in the stream, or in a fetch's answer to come (`Accounted`).
* `OpcUaServerProofs`: `SpaceMirrors` and `ChangesPushed`. Data exist for exactly the tags
  there are (`DataFollowTags`); a build copies the rows, an edit arms the timer in the
  same step, and a variable whose tag is gone is in a space that is to be rebuilt.
* `EditSessionProofs` (from the assumptions of `EditSession` and `ProjectCache`: channels
  have devices and devices tags, and no row, editor or save is `Nothing`):
  `FirstEditsAlwaysFlagged` and `SavesAreInformed`. `StoredIsCurrent` follows a row from
  the mount of its editor through each save, in particular between the answer to a save
  being served and being received, which the property does not mention.

Each invariant was checked by TLC on the instances of section 3 before it was proved, and
is defined beside the properties it is for, or in the proof module where it uses nothing
else. Exceptions are the invariants of `Modbus`, `Transfer` and `Csv`, which speak of
places and of all lists: of these TLC checks the properties only.

The undo takes any entity of the first kind that is left (`Foremost`) and not the next of
a sorted list: a sorting of entities by kind alone is no permutation that has to exist.

Only model-checked: the liveness properties (`ValuesConverge`, `AgentsConverge`,
`SpaceConverges`), as TLAPS does no liveness. Every other property of a passing run is
stated by a theorem.

## 6. Plan

Left to model: the shutdown of the server, as an extension of `ServerCore` (`stop()`
clears its timers and then awaits, while requests are still served); the count of
configuration changes per quarter second in the event log; drawing the
diagnostics and the health banner from the live values.

Theorems to add: that BCD values read back what was written (`Registers` has the
conversion, `modbus_types` the reason why it does not matter yet); that the server with
its debounce implements a store that is mirrored at once, as `TagView` is implemented.

## 7. Not modelled, and why

Authentication, TLS and URL filtering (decisions on strings, no state); topic and
payload templates (string processing); the grid, the tree, menus, diagnostics, settings
and theme of the console, validation of form fields and the rendering of all pages; the
Kepserver import plugin and the plugin loader (field-by-field translation, I/O); the
summaries of configuration changes and writes in the event log; data directory; scripts.
SQLite, mqtt.js,
Node-RED and node-opcua are external: only what this code relies on is assumed of
them, and it is named in section 2.
