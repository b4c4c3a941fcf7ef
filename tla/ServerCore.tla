----------------------------- MODULE ServerCore -----------------------------
(***************************************************************************)
(* How a saved configuration reaches the tags: the store, the tag engine,  *)
(* the debounced redeploy and the driver flows running in Node-RED         *)
(* (packages/server/src/index.ts and nodered.ts, generateFlows and the     *)
(* odi-tag-in bridge of packages/drivers).                                 *)
(*                                                                         *)
(* The store's rows are one map of tag configurations: what a disabled     *)
(* device or channel or an invalid address means for a tag is that no read *)
(* is generated for it.  The value read at an address is a word of its     *)
(* own, so that a value tells where it comes from.                         *)
(***************************************************************************)
EXTENDS TagEngine, Sequences

CONSTANTS
    Reads,          \* configuration -> the address polled for it, or Absent
    Debounce,       \* bound: ticks of the redeploy debounce
    MaxEdits,       \* bound: store mutations
    MaxCrashes,     \* bound: process deaths
    MaxFailures     \* bound: redeployments Node-RED rejects

ASSUME ReadAssumption == Reads \in [Configs -> RawValues \cup {Absent}]
ASSUME BoundAssumption ==
    /\ Debounce \in Nat \ {0}
    /\ MaxEdits \in Nat /\ MaxCrashes \in Nat /\ MaxFailures \in Nat

VARIABLES
    saved,      \* the committed configuration: tag id -> Configs, or Absent
    phase,      \* "down", "listening" (HTTP up, Node-RED not), "started", "ready"
    timer,      \* ticks left before a redeploy; 0 when none is armed
    deploys,    \* the flow sets handed to Node-RED and not settled, in order;
                \* boot tells the one startOdiServer waits for
    flows,      \* the running reads: tag id -> the configuration they were
                \* generated from, or Absent
    flowFile,   \* the flow set in flows.json, which Node-RED loads when it starts
    failed,     \* the last deployment to settle was rejected
    edits, crashes, failures

nodeRedVars == <<deploys, flows, flowFile, failed, failures>>
serverVars == <<saved, phase, timer, edits, crashes, nodeRedVars>>
allVars == <<vars, serverVars>>

NoTags == [t \in Tags |-> Absent]

\* generateFlows: tags of disabled devices and channels and tags with an
\* invalid address are skipped.
FlowsOf(configs) ==
    [t \in Tags |-> IF configs[t] # Absent /\ Reads[configs[t]] # Absent
                      THEN configs[t] ELSE Absent]

\* The device of every running read is watched by a status node.
Watched == {d \in Devices : \E t \in Tags : flows[t] # Absent /\ flows[t].device = d}

CoreInit ==
    /\ Init
    /\ saved = NoTags
    /\ phase = "down"
    /\ timer = 0
    /\ deploys = <<>>
    /\ flows = NoTags
    /\ flowFile = NoTags
    /\ failed = FALSE
    /\ edits = 0 /\ crashes = 0 /\ failures = 0

-----------------------------------------------------------------------------
(* Boot and death. *)

\* deployDriverFlows: generated from the store as it is now.
Deploy(boot) ==
    /\ deploys' = Append(deploys, [reads |-> FlowsOf(saved), boot |-> boot])
    /\ UNCHANGED <<flows, flowFile, failed, failures>>

\* startOdiServer up to httpServer.listen.
Boot ==
    /\ phase = "down"
    /\ Load(saved)
    /\ phase' = "listening"
    /\ UNCHANGED <<saved, timer, edits, crashes, nodeRedVars>>

\* RED.start and waitForInitialFlowLoad: the flows of the last run are loaded
\* from flows.json, over whatever was deployed in between.
StartNodeRed ==
    /\ phase = "listening"
    /\ phase' = "started"
    /\ flows' = flowFile
    /\ deploys' = <<>>
    /\ failed' = FALSE
    /\ UNCHANGED <<vars, saved, timer, flowFile, edits, crashes, failures>>

\* The deployment startOdiServer ends with.
BootDeploy ==
    /\ phase = "started"
    /\ phase' = "ready"
    /\ Deploy(TRUE)
    /\ UNCHANGED <<vars, saved, timer, edits, crashes>>

\* Only the store and flows.json survive; clients lose their connection.
Crash ==
    /\ phase # "down" /\ crashes < MaxCrashes
    /\ tags' = NoTags
    /\ byDevice' = [d \in Devices |-> {}]
    /\ events' = {}
    /\ seen' = Follow(tags')
    /\ phase' = "down"
    /\ timer' = 0
    /\ deploys' = <<>>
    /\ flows' = NoTags
    /\ failed' = FALSE
    /\ crashes' = crashes + 1
    /\ UNCHANGED <<saved, flowFile, edits, failures>>

-----------------------------------------------------------------------------
(* Configuration edits. *)

\* Fault: the engine is not reloaded.
CommitWithoutLoad(configs) ==
    /\ phase # "down" /\ edits < MaxEdits
    /\ saved' = configs
    /\ timer' = Debounce
    /\ edits' = edits + 1
    /\ UNCHANGED <<vars, phase, crashes, nodeRedVars>>

\* A mutation of the store and its change listener: the engine is reloaded at
\* once, the redeploy is put off by a full debounce period.
Commit(configs) ==
    /\ phase # "down" /\ edits < MaxEdits
    /\ saved' = configs
    /\ Load(configs)
    /\ timer' = Debounce
    /\ edits' = edits + 1
    /\ UNCHANGED <<phase, crashes, nodeRedVars>>

SaveTag(t, config) == Commit([saved EXCEPT ![t] = config])

DeleteTag(t) == saved[t] # Absent /\ Commit([saved EXCEPT ![t] = Absent])

ImportProject(configs) == Commit(configs)

Tick ==
    /\ timer > 1
    /\ timer' = timer - 1
    /\ UNCHANGED <<vars, saved, phase, edits, crashes, nodeRedVars>>

\* Fault: a redeploy is skipped while another one is under way.
RedeployUnlessBusy ==
    /\ timer = 1
    /\ timer' = 0
    /\ IF phase = "listening" \/ deploys # <<>> THEN UNCHANGED nodeRedVars ELSE Deploy(FALSE)
    /\ UNCHANGED <<vars, saved, phase, edits, crashes>>

\* The debounce elapses.  Before Node-RED has started the call fails, or its
\* flows are clobbered by the initial load: either way nothing comes of it.
Redeploy ==
    /\ timer = 1
    /\ timer' = 0
    /\ IF phase = "listening" THEN UNCHANGED nodeRedVars ELSE Deploy(FALSE)
    /\ UNCHANGED <<vars, saved, phase, edits, crashes>>

\* Fault: a deployment that leaves nodes already running alone.
DeployedBesideOld ==
    /\ deploys # <<>>
    /\ flows' = [t \in Tags |->
                   IF flows[t] # Absent /\ Head(deploys).reads[t] # Absent
                     THEN flows[t] ELSE Head(deploys).reads[t]]
    /\ flowFile' = Head(deploys).reads
    /\ deploys' = Tail(deploys)
    /\ failed' = FALSE
    /\ UNCHANGED <<vars, saved, phase, timer, edits, crashes, failures>>

\* RED.nodes.setFlows(flows, "full") takes effect: saved, old nodes closed,
\* new ones started.  Calls take effect in the order they were made.
Deployed ==
    /\ deploys # <<>>
    /\ flows' = Head(deploys).reads
    /\ flowFile' = Head(deploys).reads
    /\ deploys' = Tail(deploys)
    /\ failed' = FALSE
    /\ UNCHANGED <<vars, saved, phase, timer, edits, crashes, failures>>

\* setFlows rejects: the error is logged and nothing is tried again.  When the
\* deployment of the boot is rejected, so is the boot: that is a Crash.
DeployRejected ==
    /\ deploys # <<>> /\ ~ Head(deploys).boot /\ failures < MaxFailures
    /\ deploys' = Tail(deploys)
    /\ failed' = TRUE
    /\ failures' = failures + 1
    /\ UNCHANGED <<vars, saved, phase, timer, flows, flowFile, edits, crashes>>

-----------------------------------------------------------------------------
(* The running flows feed the engine. *)

\* odi-tag-in, mode "value", after a read of the address the flow was
\* generated with.  Without an engine entry the message is dropped.
ReadSucceeds(t) ==
    /\ flows[t] # Absent
    /\ UpdateRaw(t, Reads[flows[t]], "good")
    /\ UNCHANGED serverVars

ReadFails(t) ==
    /\ flows[t] # Absent
    /\ \E e \in Errors : SetQuality(t, "bad", e)
    /\ UNCHANGED serverVars

\* odi-tag-in, mode "device-quality", driven by the device's status node.
LinkLost(d) ==
    /\ d \in Watched
    /\ \E e \in Errors : SetQualityForDevice(d, "bad", e)
    /\ UNCHANGED serverVars

Poll(t) == ReadSucceeds(t) \/ ReadFails(t)

CoreNext ==
    \/ Boot \/ StartNodeRed \/ BootDeploy \/ Crash
    \/ \E t \in Tags : DeleteTag(t) \/ \E c \in Configs : SaveTag(t, c)
    \/ \E configs \in [Tags -> Configs \cup {Absent}] : ImportProject(configs)
    \/ Tick \/ Redeploy \/ Deployed \/ DeployRejected
    \/ \E t \in Tags : Poll(t)
    \/ \E d \in Devices : LinkLost(d)

\* Once up, the boot sequence goes on; timers fire; deployments settle; a
\* deployed read is polled again and again.  Nothing restarts the process.
Fairness ==
    /\ WF_allVars(StartNodeRed) /\ WF_allVars(BootDeploy)
    /\ WF_allVars(Tick) /\ WF_allVars(Redeploy)
    /\ WF_allVars(Deployed \/ DeployRejected)
    /\ \A t \in Tags : WF_allVars(Poll(t))

CoreSpec == CoreInit /\ [][CoreNext]_allVars /\ Fairness

-----------------------------------------------------------------------------
(* Properties. *)

CoreTypeOK ==
    /\ TypeOK
    /\ saved \in [Tags -> Configs \cup {Absent}]
    /\ phase \in {"down", "listening", "started", "ready"}
    /\ timer \in 0 .. Debounce
    /\ deploys \in Seq([reads : [Tags -> Configs \cup {Absent}], boot : BOOLEAN])
    /\ flows \in [Tags -> Configs \cup {Absent}]
    /\ flowFile \in [Tags -> Configs \cup {Absent}]
    /\ failed \in BOOLEAN
    /\ edits \in 0 .. MaxEdits /\ crashes \in 0 .. MaxCrashes /\ failures \in 0 .. MaxFailures

\* While the server is up the engine holds exactly the saved configuration,
\* after every event of an import, a cascade or an edit that came while
\* drivers were delivering, and after a restart (index.ts:65, 178-179).
EngineMirrorsStore == phase # "down" => ConfigsOf(tags) = saved

\* When the running flows are out of date, something is on its way to replace
\* them: an armed debounce, a deployment under way, or the rest of the boot.
\* No edit is forgotten, whenever it comes, but by a deployment that Node-RED
\* itself rejected (index.ts:176-188, 194-198).
StaleFlowsArePending ==
    \/ phase = "down"
    \/ flows = FlowsOf(saved) /\ deploys = <<>>
    \/ timer > 0
    \/ deploys # <<>> /\ deploys[Len(deploys)].reads = FlowsOf(saved)
    \/ phase \in {"listening", "started"}
    \/ failed

\* When edits stop, the good values of polled tags come from the addresses
\* configured for them, whatever older flows delivered in the meantime
\* (index.ts:176-188; odi-tag-in.js:58-98).
ValuesConverge ==
    <>[](~ failed => \A t \in Tags :
           (tags[t] # Absent /\ saved[t] # Absent /\ Reads[saved[t]] # Absent
              /\ tags[t].current.quality = "good")
           => tags[t].current.value = Reads[saved[t]])
=============================================================================
