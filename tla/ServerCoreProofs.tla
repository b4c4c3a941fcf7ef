-------------------------- MODULE ServerCoreProofs --------------------------
(***************************************************************************)
(* How a saved configuration reaches the engine and the flows, for every    *)
(* set of tags and configurations and any number of edits, crashes and      *)
(* rejected deployments.  What is proved of the engine alone is used here:  *)
(* a step of the server is a call of the engine, a restart, or neither.     *)
(***************************************************************************)
EXTENDS ServerCore, TagEngineProofs, SequenceTheorems

Maps == [Tags -> Configs \cup {Absent}]

\* Every running read, and every one about to run, has an address.
Readable(reads) == \A t \in Tags : reads[t] # Absent => Reads[reads[t]] # Absent
FlowSets == {reads \in Maps : Readable(reads)}

ServerTypes ==
    /\ saved \in Maps
    /\ phase \in {"down", "listening", "started", "ready"}
    /\ timer \in Nat
    /\ deploys \in Seq([reads : FlowSets, boot : BOOLEAN])
    /\ flows \in FlowSets
    /\ flowFile \in FlowSets

\* With no timer armed and the boot done, the last deployment under way, whatever
\* comes of it, is of the configuration as it is: what StaleFlowsArePending forgets
\* as soon as a deployment has been rejected, and needs when the next one settles.
LastDeployIsCurrent ==
    \/ timer > 0
    \/ phase # "ready"
    \/ deploys = <<>>
    \/ deploys[Len(deploys)].reads = FlowsOf(saved)

CoreInv ==
    /\ EngineInv
    /\ ServerTypes
    /\ EngineMirrorsStore
    /\ LastDeployIsCurrent
    /\ StaleFlowsArePending

-----------------------------------------------------------------------------
(* The engine's calls and the configurations in it. *)

\* load() leaves exactly the configurations it was given (tag-engine.ts:43-67).
LEMMA LoadMirrors ==
    ASSUME TypeOK, NEW configs \in Maps, Load(configs)
    PROVE  ConfigsOf(tags') = configs
<1>1. ASSUME NEW t \in Tags, configs[t] # Absent
      PROVE  tags'[t] # Absent /\ tags'[t].config = configs[t]
  <2>1. configs[t] \in Configs
    BY <1>1 DEF Maps
  <2>2. CASE tags[t] = Absent
    <3>1. tags'[t] = Fresh(configs[t])
      BY <1>1, <2>2 DEF Load, Loaded
    <3>2. Fresh(configs[t]) \in RuntimeTags
      BY <2>1 DEF Fresh, NoData, RuntimeTags, TagValues, Values, Qualities
    <3> QED
      BY <3>1, <3>2, AbsentAssumption DEF Fresh
  <2>3. CASE tags[t] # Absent
    <3>1. tags'[t] = [tags[t] EXCEPT !.config = configs[t]]
      BY <1>1, <2>3 DEF Load, Loaded
    <3>2. tags[t] \in RuntimeTags
      BY <2>3 DEF TypeOK
    <3>3. tags'[t] \in RuntimeTags /\ tags'[t].config = configs[t]
      BY <2>1, <3>1, <3>2 DEF RuntimeTags
    <3> QED
      BY <3>3, AbsentAssumption
  <2> QED
    BY <2>2, <2>3
<1>2. ASSUME NEW t \in Tags, configs[t] = Absent
      PROVE  tags'[t] = Absent
  BY <1>2 DEF Load, Loaded
<1> QED
  BY <1>1, <1>2 DEF ConfigsOf, Maps

\* What a driver delivers changes no configuration (tag-engine.ts:112-137).
LEMMA UpdateKeepsConfigs ==
    ASSUME EngineInv, NEW t \in Tags, NEW raw \in RawValues, UpdateRaw(t, raw, "good")
    PROVE  ConfigsOf(tags') = ConfigsOf(tags)
<1> DEFINE value == IF raw = NULL THEN NULL ELSE ProcessValue(tags[t].config, raw)
<1>1. /\ TypeOK /\ tags[t] # Absent /\ tags[t] \in RuntimeTags
      /\ InStep(tags[t], seen[t])
  BY EngineInvByTag, KnownType DEF UpdateRaw
<1>2. value \in Values
  <2>1. tags[t].config \in ConfigSpace /\ raw \in Primitives
    BY <1>1, KnownType, ConfigAssumption, InputAssumption
  <2> QED
    BY <2>1, ProcessValueType DEF Values
<1>3. tags' = [tags EXCEPT ![t] = Updated(tags[t], value, "good")]
  BY DEF UpdateRaw
<1> HIDE DEF value
<1>4. /\ Updated(tags[t], value, "good") \in RuntimeTags
      /\ Updated(tags[t], value, "good").config = tags[t].config
  BY <1>1, <1>2, UpdatedInStep DEF Qualities
<1> QED
  BY <1>1, <1>3, <1>4, AbsentAssumption DEF ConfigsOf, TypeOK

\* Neither does a mark, of one tag or of a device (tag-engine.ts:144-162).
LEMMA MarkKeepsConfigs ==
    ASSUME EngineInv, NEW ids, NEW e \in Errors, MarkQuality(ids, "bad", e)
    PROVE  ConfigsOf(tags') = ConfigsOf(tags)
<1>1. ASSUME NEW t \in Tags, tags[t] # Absent
      PROVE  tags'[t] # Absent /\ tags'[t].config = tags[t].config
  <2>1. tags[t] \in RuntimeTags /\ InStep(tags[t], seen[t])
    BY <1>1, EngineInvByTag, KnownType
  <2>2. /\ Requalified(tags[t], "bad", e) \in RuntimeTags
        /\ Requalified(tags[t], "bad", e).config = tags[t].config
    BY <2>1, RequalifiedInStep DEF Qualities
  <2>3. tags'[t] \in {tags[t], Requalified(tags[t], "bad", e)}
    BY DEF MarkQuality
  <2> QED
    BY <2>1, <2>2, <2>3, AbsentAssumption
<1>2. ASSUME NEW t \in Tags, tags[t] = Absent
      PROVE  tags'[t] = Absent
  BY <1>2 DEF MarkQuality
<1> QED
  BY <1>1, <1>2 DEF ConfigsOf

\* A step of the engine that keeps its configurations keeps the invariant of the server.
LEMMA FedInv ==
    ASSUME CoreInv, EngineInv', ConfigsOf(tags') = ConfigsOf(tags), UNCHANGED serverVars
    PROVE  CoreInv'
  BY DEF CoreInv, ServerTypes, EngineMirrorsStore, LastDeployIsCurrent, StaleFlowsArePending,
         serverVars, nodeRedVars

\* So does a step beside the engine, as far as the engine is concerned.
LEMMA EngineRests ==
    ASSUME EngineInv, UNCHANGED vars
    PROVE  EngineInv'
  BY NextInv

\* generateFlows reads only what has an address (flow-gen.ts:686-705).
LEMMA FlowsType ==
    ASSUME NEW configs \in Maps
    PROVE  FlowsOf(configs) \in FlowSets
  BY DEF FlowsOf, FlowSets, Readable, Maps

-----------------------------------------------------------------------------
(* The steps of the server. *)

\* startOdiServer up to listen (index.ts:65).
LEMMA BootInv ==
    ASSUME CoreInv, Boot
    PROVE  CoreInv'
<1>1. EngineInv' /\ ConfigsOf(tags') = saved
  BY LoadInv, LoadMirrors DEF CoreInv, Boot, ServerTypes, Maps, EngineInv
<1> QED
  BY <1>1 DEF CoreInv, Boot, ServerTypes, EngineMirrorsStore, LastDeployIsCurrent,
              StaleFlowsArePending, nodeRedVars

\* The loading of flows.json (nodered.ts:71).
LEMMA StartInv ==
    ASSUME CoreInv, StartNodeRed
    PROVE  CoreInv'
<1>1. EngineInv'
  BY EngineRests DEF CoreInv, StartNodeRed
<1>2. ServerTypes'
  BY DEF CoreInv, StartNodeRed, ServerTypes
<1> QED
  BY <1>1, <1>2 DEF CoreInv, StartNodeRed, EngineMirrorsStore, LastDeployIsCurrent,
                    StaleFlowsArePending, vars

\* A deployment is of the configuration as it is, and the last one under way.
LEMMA DeployInv ==
    ASSUME ServerTypes, NEW boot \in BOOLEAN, Deploy(boot), UNCHANGED saved
    PROVE  /\ deploys' \in Seq([reads : FlowSets, boot : BOOLEAN])
           /\ deploys' # <<>>
           /\ deploys'[Len(deploys')].reads = FlowsOf(saved)
           /\ flows' \in FlowSets /\ flowFile' \in FlowSets
<1> DEFINE new == [reads |-> FlowsOf(saved), boot |-> boot]
<1>1. new \in [reads : FlowSets, boot : BOOLEAN]
  BY FlowsType DEF ServerTypes
<1>2. deploys' = Append(deploys, new)
  BY DEF Deploy
<1>3. new.reads = FlowsOf(saved)
  OBVIOUS
<1> HIDE DEF new
<1> QED
  BY <1>1, <1>2, <1>3 DEF Deploy, ServerTypes

\* The deployment at the end of the boot (index.ts:194-198).
LEMMA BootDeployInv ==
    ASSUME CoreInv, BootDeploy
    PROVE  CoreInv'
<1>1. EngineInv'
  BY EngineRests DEF CoreInv, BootDeploy
<1>2. /\ deploys' \in Seq([reads : FlowSets, boot : BOOLEAN])
      /\ deploys' # <<>>
      /\ deploys'[Len(deploys')].reads = FlowsOf(saved)
      /\ flows' \in FlowSets /\ flowFile' \in FlowSets
  BY DeployInv DEF CoreInv, BootDeploy
<1>3. FlowsOf(saved)' = FlowsOf(saved)
  BY DEF FlowsOf, BootDeploy
<1> QED
  BY <1>1, <1>2, <1>3 DEF CoreInv, BootDeploy, ServerTypes, EngineMirrorsStore,
                          LastDeployIsCurrent, StaleFlowsArePending, vars

\* The death of the process: the engine is as before the first start.
LEMMA CrashInv ==
    ASSUME CoreInv, Crash
    PROVE  CoreInv'
<1>1. /\ tags' = [t \in Tags |-> Absent]
      /\ byDevice' = [d \in Devices |-> {}]
      /\ events' = {}
      /\ seen' = [t \in Tags |-> Absent]
  BY DEF Crash, NoTags, Follow
<1>2. EngineInv'
  BY <1>1, AbsentAssumption
     DEF EngineInv, TypeOK, IndexConsistent, ClientInStep, ReportedInStep,
         ErrorOnlyWhenNotGood, Known
<1>3. NoTags \in FlowSets
  BY DEF NoTags, FlowSets, Maps, Readable
<1> QED
  BY <1>2, <1>3 DEF CoreInv, Crash, ServerTypes, EngineMirrorsStore, LastDeployIsCurrent,
                    StaleFlowsArePending

\* A mutation of the store and its listener (index.ts:176-188).
LEMMA CommitInv ==
    ASSUME CoreInv, NEW configs \in Maps, Commit(configs)
    PROVE  CoreInv'
<1>1. EngineInv' /\ ConfigsOf(tags') = configs
  BY LoadInv, LoadMirrors DEF CoreInv, Commit, Maps, EngineInv
<1>2. timer' \in Nat /\ timer' > 0
  BY BoundAssumption DEF Commit
<1> QED
  BY <1>1, <1>2 DEF CoreInv, Commit, ServerTypes, EngineMirrorsStore, LastDeployIsCurrent,
                    StaleFlowsArePending, nodeRedVars

\* The debounce runs down (index.ts:184).
LEMMA TickInv ==
    ASSUME CoreInv, Tick
    PROVE  CoreInv'
<1>1. EngineInv'
  BY EngineRests DEF CoreInv, Tick
<1>2. timer' \in Nat /\ timer' > 0
  BY DEF CoreInv, ServerTypes, Tick
<1> QED
  BY <1>1, <1>2 DEF CoreInv, Tick, ServerTypes, EngineMirrorsStore, LastDeployIsCurrent,
                    StaleFlowsArePending, nodeRedVars, vars

\* The redeploy, of the configuration at this moment and not of the one that armed it
\* (index.ts:184-188).
LEMMA RedeployInv ==
    ASSUME CoreInv, Redeploy
    PROVE  CoreInv'
<1>1. EngineInv'
  BY EngineRests DEF CoreInv, Redeploy
<1>2. CASE phase = "listening"
  BY <1>1, <1>2 DEF CoreInv, Redeploy, ServerTypes, EngineMirrorsStore, LastDeployIsCurrent,
                    StaleFlowsArePending, nodeRedVars, vars
<1>3. CASE phase # "listening"
  <2>1. /\ deploys' \in Seq([reads : FlowSets, boot : BOOLEAN])
        /\ deploys' # <<>>
        /\ deploys'[Len(deploys')].reads = FlowsOf(saved)
        /\ flows' \in FlowSets /\ flowFile' \in FlowSets
    BY <1>3, DeployInv DEF CoreInv, Redeploy
  <2>2. FlowsOf(saved)' = FlowsOf(saved)
    BY DEF FlowsOf, Redeploy
  <2> QED
    BY <1>1, <2>1, <2>2 DEF CoreInv, Redeploy, ServerTypes, EngineMirrorsStore,
                            LastDeployIsCurrent, StaleFlowsArePending, vars
<1> QED
  BY <1>2, <1>3

\* When a deployment settles, those behind it stay, the last of them still last.
LEMMA TailKeepsLast ==
    ASSUME NEW S, NEW s \in Seq(S), s # <<>>
    PROVE  /\ Tail(s) \in Seq(S) /\ Head(s) \in S
           /\ Tail(s) # <<>> => Tail(s)[Len(Tail(s))] = s[Len(s)]
           /\ Tail(s) = <<>> => Head(s) = s[Len(s)]
<1>1. /\ Len(s) \in Nat \ {0}
      /\ Head(s) = s[1]
  BY EmptySeq
<1>2. /\ Head(s) \in S /\ Tail(s) \in Seq(S) /\ Len(Tail(s)) = Len(s) - 1
      /\ \A i \in 1 .. Len(Tail(s)) : Tail(s)[i] = s[i + 1]
  BY HeadTailProperties
<1>3. Tail(s) # <<>> => Len(Tail(s)) \in Nat \ {0}
  BY <1>2, EmptySeq
<1>4. Tail(s) # <<>> => Tail(s)[Len(Tail(s))] = s[Len(s)]
  BY <1>1, <1>2, <1>3
<1>5. Tail(s) = <<>> => Head(s) = s[Len(s)]
  <2>1. Tail(s) = <<>> => Len(Tail(s)) = 0
    BY EmptySeq
  <2>2. Len(s) - 1 = 0 => Len(s) = 1
    BY <1>1
  <2> QED
    BY <1>1, <1>2, <2>1, <2>2
<1> QED
  BY <1>2, <1>4, <1>5

\* setFlows takes effect (nodered.ts:85-89).
LEMMA DeployedInv ==
    ASSUME CoreInv, Deployed
    PROVE  CoreInv'
<1>1. EngineInv'
  BY EngineRests DEF CoreInv, Deployed
<1>2. /\ deploys' \in Seq([reads : FlowSets, boot : BOOLEAN])
      /\ Head(deploys) \in [reads : FlowSets, boot : BOOLEAN]
      /\ deploys' # <<>> => deploys'[Len(deploys')] = deploys[Len(deploys)]
      /\ deploys' = <<>> => Head(deploys) = deploys[Len(deploys)]
  BY TailKeepsLast DEF CoreInv, ServerTypes, Deployed
<1>3. FlowsOf(saved)' = FlowsOf(saved)
  BY DEF FlowsOf, Deployed
<1>4. ServerTypes'
  BY <1>2 DEF CoreInv, ServerTypes, Deployed
<1>5. LastDeployIsCurrent'
  BY <1>2, <1>3 DEF CoreInv, LastDeployIsCurrent, Deployed
<1>6. StaleFlowsArePending'
  BY <1>2, <1>3 DEF CoreInv, ServerTypes, LastDeployIsCurrent, StaleFlowsArePending, Deployed
<1> QED
  BY <1>1, <1>4, <1>5, <1>6 DEF CoreInv, Deployed, EngineMirrorsStore, vars

\* setFlows rejects (index.ts:186).
LEMMA RejectedInv ==
    ASSUME CoreInv, DeployRejected
    PROVE  CoreInv'
<1>1. EngineInv'
  BY EngineRests DEF CoreInv, DeployRejected
<1>2. /\ deploys' \in Seq([reads : FlowSets, boot : BOOLEAN])
      /\ deploys' # <<>> => deploys'[Len(deploys')] = deploys[Len(deploys)]
  BY TailKeepsLast DEF CoreInv, ServerTypes, DeployRejected
<1>3. FlowsOf(saved)' = FlowsOf(saved)
  BY DEF FlowsOf, DeployRejected
<1> QED
  BY <1>1, <1>2, <1>3 DEF CoreInv, ServerTypes, DeployRejected, EngineMirrorsStore,
                          LastDeployIsCurrent, StaleFlowsArePending, vars

\* A read of a running flow and a mark of its tag or device (odi-tag-in.js:58-98).
LEMMA FeedInv ==
    ASSUME CoreInv,
           \/ \E t \in Tags : Poll(t)
           \/ \E d \in Devices : LinkLost(d)
    PROVE  CoreInv'
<1>1. ASSUME NEW t \in Tags, ReadSucceeds(t)
      PROVE  CoreInv'
  <2>1. Reads[flows[t]] \in RawValues
    BY <1>1, ReadAssumption DEF ReadSucceeds, CoreInv, ServerTypes, FlowSets, Maps, Readable
  <2>2. UpdateRaw(t, Reads[flows[t]], "good") /\ UNCHANGED serverVars
    BY <1>1 DEF ReadSucceeds
  <2> QED
    BY <2>1, <2>2, UpdateRawInv, UpdateKeepsConfigs, FedInv DEF CoreInv
<1>2. ASSUME NEW t \in Tags, ReadFails(t)
      PROVE  CoreInv'
  <2>1. PICK e \in Errors : SetQuality(t, "bad", e)
    BY <1>2 DEF ReadFails
  <2> QED
    BY <1>2, <2>1, MarkQualityInv, MarkKeepsConfigs, FedInv
       DEF ReadFails, SetQuality, CoreInv, Qualities
<1>3. ASSUME NEW d \in Devices, LinkLost(d)
      PROVE  CoreInv'
  <2>1. PICK e \in Errors : SetQualityForDevice(d, "bad", e)
    BY <1>3 DEF LinkLost
  <2>2. byDevice[d] \in SUBSET Tags
    BY DEF CoreInv, EngineInv, TypeOK
  <2> QED
    BY <1>3, <2>1, <2>2, MarkQualityInv, MarkKeepsConfigs, FedInv
       DEF LinkLost, SetQualityForDevice, CoreInv, Qualities
<1> QED
  BY <1>1, <1>2, <1>3 DEF Poll

-----------------------------------------------------------------------------
(* The induction. *)

LEMMA CoreInitInv == CoreInit => CoreInv
<1> SUFFICES ASSUME CoreInit PROVE CoreInv
  OBVIOUS
<1>1. NoTags \in FlowSets /\ NoTags \in Maps
  BY DEF NoTags, FlowSets, Maps, Readable
<1> QED
  BY <1>1, InitInv DEF CoreInit, CoreInv, ServerTypes, EngineMirrorsStore, LastDeployIsCurrent,
                       StaleFlowsArePending

LEMMA CoreNextInv == CoreInv /\ [CoreNext]_allVars => CoreInv'
<1> SUFFICES ASSUME CoreInv, [CoreNext]_allVars PROVE CoreInv'
  OBVIOUS
<1>1. ASSUME NEW t \in Tags, DeleteTag(t) PROVE CoreInv'
  <2>1. [saved EXCEPT ![t] = Absent] \in Maps
    BY DEF CoreInv, ServerTypes, Maps
  <2> QED
    BY <1>1, <2>1, CommitInv DEF DeleteTag
<1>2. ASSUME NEW t \in Tags, NEW c \in Configs, SaveTag(t, c) PROVE CoreInv'
  <2>1. [saved EXCEPT ![t] = c] \in Maps
    BY DEF CoreInv, ServerTypes, Maps
  <2> QED
    BY <1>2, <2>1, CommitInv DEF SaveTag
<1>3. ASSUME NEW configs \in [Tags -> Configs \cup {Absent}], ImportProject(configs)
      PROVE  CoreInv'
  BY <1>3, CommitInv DEF ImportProject, Maps
<1>4. CASE UNCHANGED allVars
  <2>1. EngineInv'
    BY <1>4, EngineRests DEF CoreInv, allVars
  <2> QED
    BY <1>4, <2>1, FedInv DEF allVars, vars
<1> QED
  BY <1>1, <1>2, <1>3, <1>4, BootInv, StartInv, BootDeployInv, CrashInv, TickInv, RedeployInv,
     DeployedInv, RejectedInv, FeedInv DEF CoreNext

\* While the server is up the engine holds exactly the saved configuration, however edits,
\* deliveries, lost links, deployments and restarts fall (index.ts:65, 178-179).
THEOREM EngineAlwaysMirrors == CoreSpec => []EngineMirrorsStore
<1>1. CoreInv => EngineMirrorsStore
  BY DEF CoreInv
<1> QED
  BY <1>1, CoreInitInv, CoreNextInv, PTL DEF CoreSpec

\* No edit is forgotten: flows that are out of date are about to be replaced, unless
\* Node-RED itself rejected their successor (index.ts:176-188, 194-198).
THEOREM StaleFlowsAlwaysPending == CoreSpec => []StaleFlowsArePending
<1>1. CoreInv => StaleFlowsArePending
  BY DEF CoreInv
<1> QED
  BY <1>1, CoreInitInv, CoreNextInv, PTL DEF CoreSpec

\* A client in step with the engine alone is in step with the engine of the running
\* server, whatever the flows deliver and across restarts (tag-engine.ts:123-155).
THEOREM ServedClientInStep == CoreSpec => []ClientInStep
<1>1. CoreInv => ClientInStep
  BY DEF CoreInv, EngineInv
<1> QED
  BY <1>1, CoreInitInv, CoreNextInv, PTL DEF CoreSpec
=============================================================================
