--------------------------- MODULE PathReconfig ---------------------------
(***************************************************************************)
(* Versioned path (re)configuration of time-triggered streams: talkers,    *)
(* edge switches and the three controller applications                     *)
(* (RequestHandlerControllerApp, OPCE2, ConfigurationEngine), connected by *)
(* one FIFO (TCP) channel per switch and direction.                        *)
(*                                                                         *)
(*   talker   --TalkerAdvertise-->  ingress switch  -->  controller        *)
(*   controller: the optimiser answers with paths; every switch of a new   *)
(*     or changed path gets a FlowMod tagged with a fresh version, the     *)
(*     talker gets its ListenerReady                                       *)
(*   switch   --ACKforFlowMod-->  controller; after the last ACK           *)
(*   controller  --ActivationMessage-->  ingress switch, which from then   *)
(*     on tags the stream's frames with the version                        *)
(*                                                                         *)
(* A handler of the controller runs to its end before the next one: the    *)
(* call chain receiveSignal -> requestPathforTalker -> configureDataPlane  *)
(* -> sendListenerReady is one action.  The model starts after topology    *)
(* extraction, when every agent is connected.                              *)
(***************************************************************************)
EXTENDS EdgeSwitch

CONSTANTS
    Ingress,        \* stream -> the switch of its talker
    CandidatePaths, \* stream -> the paths the optimiser may assign
    Moves,          \* which assigned streams the optimiser may move: "none"
                    \* (the assignment_constraint of OPCE2), "settled" (those
                    \* without a pending version) or "any"
    LastVersion,    \* bound: no answer is processed beyond this version
    RulesExpire,    \* do the uninitialised timeouts of the FlowMods let
                    \* rules expire?
    Observed,       \* the streams whose data frames are followed
    NoFrame

ASSUME IngressAssumption == Ingress \in [Streams -> Switches]
ASSUME CandidatePathsAssumption ==
    /\ CandidatePaths \in [Streams -> SUBSET Paths]
    /\ \A s \in Streams : \A p \in CandidatePaths[s] :
          /\ Len(p) >= 2 /\ p[1] = Ingress[s]
          /\ \A i, j \in 1 .. Len(p) : p[i] = p[j] => i = j
ASSUME ModesAssumption ==
    /\ Moves \in {"none", "settled", "any"}
    /\ RulesExpire \in BOOLEAN
    /\ Observed \subseteq Streams
ASSUME LastVersionAssumption == LastVersion \in Nat /\ LastVersion < VersionSpace

VARIABLES
    toSwitch,       \* controller -> switch
    toController,   \* switch -> controller
    streaming,      \* the talkers that have received their ListenerReady
    frame,          \* the frame in flight of each observed stream
    route           \* history: the stream and the path a version was used for

vars == << ce, switchVars, toSwitch, toController, streaming, frame, route >>

TalkerAdvertise(s) == [type |-> "TalkerAdvertise", sid |-> s]
Ack(v)             == [type |-> "ACKforFlowMod", version |-> v]
ListenerReady(s)   == [type |-> "ListenerReady", sid |-> s]
Activation(s, v)   == [type |-> "ActivationMessage", sid |-> s, version |-> v]

Init ==
    /\ EngineInit
    /\ SwitchInit
    /\ toSwitch = [sw \in Switches |-> << >>]
    /\ toController = [sw \in Switches |-> << >>]
    /\ streaming = {}
    /\ frame = [s \in Observed |-> NoFrame]
    /\ route = [v \in Versions |-> [sid |-> 0, path |-> << >>]]

-----------------------------------------------------------------------------
(* A talker advertises its stream (once); its switch forwards the message. *)
Advertise(s) ==
    LET sw == Ingress[s] IN
    /\ s \notin SeenStreams[sw]
    /\ RelayTalkerAdvertise(sw, s)
    /\ toController' = [toController EXCEPT ![sw] = Append(@, TalkerAdvertise(s))]
    /\ UNCHANGED << ce, toSwitch, streaming, frame, route >>

NextFrom(sw, type) == toController[sw] # << >> /\ Head(toController[sw]).type = type

ConsumeFrom(sw) == toController' = [toController EXCEPT ![sw] = Tail(@)]

(* The optimiser answers an empty list (no feasible path, or talker and    *)
(* listener on one switch, when it is not called at all).                  *)
RejectTalker(sw) ==
    /\ NextFrom(sw, "TalkerAdvertise")
    /\ ConsumeFrom(sw)
    /\ UNCHANGED << ce, switchVars, toSwitch, streaming, frame, route >>

(* What the accepted talker's own switch gets after the rules: the answer, *)
(* sent without waiting for any ACK.                                       *)
sendListenerReady(s, sw) == IF sw = Ingress[s] THEN << ListenerReady(s) >> ELSE << >>

(* The optimiser assigns a path to the new stream and leaves the others.   *)
AcceptTalker(sw) ==
    /\ NextFrom(sw, "TalkerAdvertise")
    /\ ce.OF_match_version_number < LastVersion
    /\ LET s == Head(toController[sw]).sid IN
       \E p \in CandidatePaths[s] :
          /\ ce' = assign(ce, s, p)
          /\ toSwitch' = [x \in Switches |->
                            toSwitch[x] \o assignSends(ce, s, p, x)
                            \o sendListenerReady(s, x)]
          /\ route' = [route EXCEPT ![match_version(ce)] = [sid |-> s, path |-> p]]
    /\ ConsumeFrom(sw)
    /\ UNCHANGED << switchVars, streaming, frame >>

MayMove(t) ==
    /\ Assigned(ce, t)
    /\ \/ Moves = "any"
       \/ Moves = "settled" /\ ~ Pending(ce, t)

(* The optimiser also gives the assigned stream t another path: the loop   *)
(* of configureDataPlane meets t first (answers are in demand order).      *)
AcceptAndMove(sw) ==
    /\ NextFrom(sw, "TalkerAdvertise")
    /\ ce.OF_match_version_number + 1 < LastVersion
    /\ LET s == Head(toController[sw]).sid IN
       \E p \in CandidatePaths[s], t \in Streams \ {s} : \E q \in CandidatePaths[t] :
          LET e == assign(ce, t, q) IN
          /\ MayMove(t) /\ q # ce.prevAssignments[t]
          /\ ce' = assign(e, s, p)
          /\ toSwitch' = [x \in Switches |->
                            toSwitch[x] \o assignSends(ce, t, q, x)
                            \o assignSends(e, s, p, x)
                            \o sendListenerReady(s, x)]
          /\ route' = [route EXCEPT ![match_version(ce)] = [sid |-> t, path |-> q],
                                    ![match_version(e)]  = [sid |-> s, path |-> p]]
    /\ ConsumeFrom(sw)
    /\ UNCHANGED << switchVars, streaming, frame >>

(* The ConfigurationEngine receives an ACK; the last one for a version     *)
(* makes it send the ActivationMessage to the ingress switch.              *)
ReceiveAck(sw) ==
    /\ NextFrom(sw, "ACKforFlowMod")
    /\ LET v == Head(toController[sw]).version IN
       /\ ce' = receiveAck(ce, v, sw)
       /\ IF StillWaiting(ce, v, sw) # {} THEN UNCHANGED toSwitch
          ELSE \E s \in ActivatedStreams(ce, v) :
                 toSwitch' = [toSwitch EXCEPT ![ce.IngressSwTable[v]] =
                                                  Append(@, Activation(s, v))]
    /\ ConsumeFrom(sw)
    /\ UNCHANGED << switchVars, streaming, frame, route >>

-----------------------------------------------------------------------------
NextAt(sw, type) == toSwitch[sw] # << >> /\ Head(toSwitch[sw]).type = type

ConsumeAt(sw) == toSwitch' = [toSwitch EXCEPT ![sw] = Tail(@)]

(* The agent installs a rule and acknowledges it, whatever the flow table  *)
(* made of it.                                                             *)
HandleFlowMod(sw) ==
    /\ NextAt(sw, "FlowMod")
    /\ LET entry == Head(toSwitch[sw]).entry IN
       /\ handleFlowMod(sw, entry)
       /\ toController' = [toController EXCEPT ![sw] =
                             IF isTaggingEnabled THEN Append(@, Ack(entry.tag)) ELSE @]
    /\ ConsumeAt(sw)
    /\ UNCHANGED << ce, streaming, frame, route >>

(* The ListenerReady reaches the talker, which starts to stream.           *)
HandleListenerReady(sw) ==
    /\ NextAt(sw, "ListenerReady")
    /\ streaming' = streaming \cup {Head(toSwitch[sw]).sid}
    /\ ConsumeAt(sw)
    /\ UNCHANGED << ce, switchVars, toController, frame, route >>

HandleActivation(sw) ==
    /\ NextAt(sw, "ActivationMessage")
    /\ LET m == Head(toSwitch[sw]) IN handleMatchVersionMessage(sw, m.sid, m.version)
    /\ ConsumeAt(sw)
    /\ UNCHANGED << ce, toController, streaming, frame, route >>

(* A rule times out: _idleTimeout and _hardTimeout are never initialised.  *)
ExpireRule(sw) ==
    /\ RulesExpire
    /\ \E pos \in DOMAIN entries[sw] : AgeEntry(sw, pos)
    /\ UNCHANGED << ce, toSwitch, toController, streaming, frame, route >>

-----------------------------------------------------------------------------
(* A streaming talker emits a frame (one in flight per stream).            *)
SendFrame(s) ==
    /\ s \in streaming /\ frame[s] = NoFrame
    /\ frame' = [frame EXCEPT ![s] = [at |-> Ingress[s], from |-> "talker", tag |-> 0]]
    /\ UNCHANGED << ce, switchVars, toSwitch, toController, streaming, route >>

RuleFor(s) == lookup(entries[frame[s].at], FlowOf[s], frame[s].from)

(* The switch tags and forwards the frame; a miss reaches the controller,  *)
(* whose applications ignore it.                                           *)
RelayFrame(s) ==
    /\ frame[s] # NoFrame
    /\ LET sw == frame[s].at
           out == entries[sw][RuleFor(s)].outport IN
       frame' = [frame EXCEPT ![s] =
                   IF RuleFor(s) = 0 \/ out = "listener" THEN NoFrame
                   ELSE [at |-> out, from |-> sw, tag |-> TagAt(sw, s, @.tag)]]
    /\ UNCHANGED << ce, switchVars, toSwitch, toController, streaming, route >>

Controller(sw) == RejectTalker(sw) \/ AcceptTalker(sw) \/ AcceptAndMove(sw) \/ ReceiveAck(sw)

Agent(sw) == HandleFlowMod(sw) \/ HandleListenerReady(sw) \/ HandleActivation(sw)

Next ==
    \/ \E s \in Streams : Advertise(s)
    \/ \E sw \in Switches : Controller(sw) \/ Agent(sw) \/ ExpireRule(sw)
    \/ \E s \in Observed : SendFrame(s) \/ RelayFrame(s)

Spec == Init /\ [][Next]_vars

(* Every queued message is eventually served (the service queues of the    *)
(* controller and of the agents are FIFO with a finite service time).      *)
Fairness == \A sw \in Switches : WF_vars(Controller(sw)) /\ WF_vars(Agent(sw))

FairSpec == Spec /\ Fairness

-----------------------------------------------------------------------------
ToControllerMsg == [type : {"TalkerAdvertise"}, sid : Streams]
                   \cup [type : {"ACKforFlowMod"}, version : Versions]

ToSwitchMsg == [type : {"FlowMod"}, entry : Entry]
               \cup [type : {"ListenerReady"}, sid : Streams]
               \cup [type : {"ActivationMessage"}, sid : Streams \cup {0}, version : Versions]

(* Types of all the state.                                                 *)
TypeOK ==
    /\ ce \in EngineState
    /\ entries \in [Switches -> Seq(Entry)]
    /\ SeenStreams \in [Switches -> SUBSET Streams]
    /\ StreamActiveMatchVersionMap \in [Switches -> [Streams -> Versions]]
    /\ toSwitch \in [Switches -> Seq(ToSwitchMsg)]
    /\ toController \in [Switches -> Seq(ToControllerMsg)]
    /\ streaming \subseteq Streams
    /\ frame \in [Observed -> {NoFrame} \cup [at : Switches, from : InPorts, tag : Versions]]
    /\ route \in [Versions -> [sid : Streams \cup {0}, path : Paths]]

Holds(queue, m) == \E i \in DOMAIN queue : queue[i] = m

ActiveVersion(s) == StreamActiveMatchVersionMap[Ingress[s]][s]

(* A version is released to tag frames: its ActivationMessage is under way *)
(* or the ingress switch uses it.                                          *)
Released(v) ==
    \/ \E sw \in Switches, s \in Streams \cup {0} : Holds(toSwitch[sw], Activation(s, v))
    \/ \E s \in Streams : v # 0 /\ ActiveVersion(s) = v

(* A version is released only when every switch of its path has its rule:  *)
(* the claim of the ACK handler of the ConfigurationEngine                 *)
(* (ConfigurationEngine.cc:53, 59-61).                                     *)
ReleasedOnlyWhenDeployed ==
    \A v \in Versions : Released(v) =>
        \A sw \in SwitchesOn(route[v].path) : Installed(sw, route[v].sid, v)

(* A version tags the frames of the stream it was reserved for and of no   *)
(* other: no ActivationMessage with a stale or uninitialised stream id     *)
(* (activateMatchVersion) ever takes effect.                               *)
VersionsBelongToTheirStream ==
    \A s \in Streams : ActiveVersion(s) # 0 => route[ActiveVersion(s)].sid = s

(* No two streams hold the same version, pending or current: the counter   *)
(* of addMatchVersiontoStream hands every number out once.                 *)
VersionsOf(s) == {ce.StreamFlowVersionTable[s].next, ce.StreamFlowVersionTable[s].current} \ {0}

VersionsUnique ==
    \A s, t \in Streams : s # t => VersionsOf(s) \cap VersionsOf(t) = {}

(* The ingress switch never falls back to an older version of a stream:    *)
(* activations are applied in the order the versions were handed out.      *)
ActivationInOrder ==
    [][\A s \in Streams : ActiveVersion(s)' >= ActiveVersion(s)]_vars

(* A tagged frame finds a rule at every switch it comes to, unless a move  *)
(* of its stream is under way: although lookups ignore the tag and rules   *)
(* of old versions stay, a stream loses no frame once it has settled.      *)
NoMissOnceActive ==
    \A s \in Observed :
        /\ frame[s] # NoFrame /\ TagAt(frame[s].at, s, frame[s].tag) # 0
        /\ ~ Pending(ce, s)
        => RuleFor(s) # 0

(* The stream runs on the path of its last assignment.                     *)
OnAssignedPath(s) ==
    /\ ActiveVersion(s) # 0
    /\ route[ActiveVersion(s)] = [sid |-> s, path |-> ce.prevAssignments[s]]

(* Every assigned stream eventually runs on its assigned path: no ACK is   *)
(* lost count of and no activation is swallowed.                           *)
AssignmentsTakeEffect ==
    \A s \in Streams : Assigned(ce, s) ~> OnAssignedPath(s)

(* What the relay's comment says of a frame at its ingress point: the      *)
(* rules of its path are loaded (Edge_OF_RelayUnit.cc:79).                 *)
RulesLoadedAtIngress ==
    \A s \in Observed : frame[s] # NoFrame /\ frame[s].from = "talker" =>
        \A sw \in SwitchesOn(ce.prevAssignments[s]) :
            \E v \in Versions : Installed(sw, s, v)

(* The tag is a match field that is not wildcarded                         *)
(* (ConfigurationEngine.cc:283-301): a frame that carries a version is     *)
(* forwarded by a rule of that version.                                    *)
ForwardedByItsVersion ==
    \A s \in Observed : frame[s] # NoFrame =>
        LET tag == TagAt(frame[s].at, s, frame[s].tag) IN
        tag # 0 => RuleFor(s) # 0 /\ entries[frame[s].at][RuleFor(s)].tag = tag

-----------------------------------------------------------------------------
(* The inductive invariant behind ReleasedOnlyWhenDeployed.  It holds when *)
(* tables are unlimited, rules do not expire, tagging is enabled and no    *)
(* stream is moved while a version of it is pending.                       *)

Issued(v) == v \in 1 .. ce.OF_match_version_number - 1

(* The counter has not wrapped to 0, the value of "no version".            *)
NumberInRange == ce.OF_match_version_number \in 1 .. VersionSpace - 1

(* A queued rule carries an issued version and the flow of its stream.     *)
QueuedRulesIssued ==
    \A sw \in Switches : \A i \in DOMAIN toSwitch[sw] :
        LET m == toSwitch[sw][i] IN
        m.type = "FlowMod" =>
            Issued(m.entry.tag) /\ m.entry.flow = FlowOf[route[m.entry.tag].sid]

(* An ACK on its way stands for an installed rule.                         *)
AcksTruthful ==
    \A sw \in Switches, v \in Versions :
        Holds(toController[sw], Ack(v)) => Issued(v) /\ Installed(sw, route[v].sid, v)

(* A switch of the path that is no longer waited for has its rule.         *)
AckedInstalled ==
    \A v \in Versions : Issued(v) =>
        \A sw \in SwitchesOn(route[v].path) \ ce.AckWaitingPaths[v] :
            Installed(sw, route[v].sid, v)

(* A released version waits for no switch.                                 *)
ReleasedComplete ==
    \A v \in Versions : Released(v) => Issued(v) /\ ce.AckWaitingPaths[v] = {}

(* The request of a stream reaches the engine once, before it is assigned. *)
Once(queue, m) == \A i, j \in DOMAIN queue : queue[i] = m /\ queue[j] = m => i = j

AdvertisedOnce ==
    \A sw \in Switches, s \in Streams :
        /\ Once(toController[sw], TalkerAdvertise(s))
        /\ Holds(toController[sw], TalkerAdvertise(s)) =>
               /\ sw = Ingress[s] /\ s \in SeenStreams[sw]
               /\ ~ Assigned(ce, s) /\ ~ Pending(ce, s)

UnadvertisedIdle ==
    \A s \in Streams : s \notin SeenStreams[Ingress[s]] =>
        ~ Assigned(ce, s) /\ ~ Pending(ce, s)

DeployInv ==
    /\ TypeOK
    /\ NumberInRange
    /\ QueuedRulesIssued
    /\ AcksTruthful
    /\ AckedInstalled
    /\ ReleasedComplete
    /\ AdvertisedOnce
    /\ UnadvertisedIdle
=============================================================================
