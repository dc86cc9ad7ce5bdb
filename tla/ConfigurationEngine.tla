------------------------ MODULE ConfigurationEngine ------------------------
(***************************************************************************)
(* The controller application that turns path assignments into versioned   *)
(* flow rules (ConfigurationEngine.cc).  Its state is the record ce, whose *)
(* fields carry the names of the C++ members:                              *)
(*   OF_match_version_number  the next version to hand out (uint16_t)      *)
(*   StreamFlowVersionTable   per stream the active and the pending one    *)
(*   AckWaitingPaths          per version the switches that still owe an   *)
(*                            ACK.  operator[] of std::map creates an      *)
(*                            empty path for a missing key, so "absent"    *)
(*                            and "empty" are the same value, {}           *)
(*   IngressSwTable           per version the switch that tags the frames  *)
(*   prevAssignments          per stream its last assigned path, << >> if  *)
(*                            it has none                                  *)
(* One talker advertises one stream once, so a demand index is identified  *)
(* with its stream (DemandtoStreamIdMap is the identity).                  *)
(***************************************************************************)
EXTENDS Integers, Sequences

CONSTANTS
    Streams,            \* stream ids
    Switches,           \* the OpenFlow switches
    NoSwitch,           \* the value of a missing IngressSwTable entry
    FlowOf,             \* stream -> its addresses and VLAN id
    VersionSpace,       \* number of values of a version: 65536 for uint16_t
    isTaggingEnabled    \* the parameter, equal on controller and switches

ASSUME StreamsAssumption == Streams \subseteq Nat \ {0}
ASSUME NoSwitchAssumption == NoSwitch \notin Switches
ASSUME VersionSpaceAssumption == VersionSpace \in Nat /\ VersionSpace > 1
ASSUME TaggingAssumption == isTaggingEnabled \in BOOLEAN

VARIABLE ce

Versions == 0 .. VersionSpace - 1

Paths == Seq(Switches)

SwitchesOn(path) == {path[i] : i \in DOMAIN path}

versionInfo == [next : Versions, current : Versions]

EngineState ==
    [OF_match_version_number : Versions,
     StreamFlowVersionTable : [Streams -> versionInfo],
     AckWaitingPaths : [Versions -> SUBSET Switches],
     IngressSwTable : [Versions -> Switches \cup {NoSwitch}],
     prevAssignments : [Streams -> Paths]]

EngineInit ==
    ce = [OF_match_version_number |-> 1 % VersionSpace,
          StreamFlowVersionTable |-> [s \in Streams |-> [next |-> 0, current |-> 0]],
          AckWaitingPaths |-> [v \in Versions |-> {}],
          IngressSwTable |-> [v \in Versions |-> NoSwitch],
          prevAssignments |-> [s \in Streams |-> << >>]]

Assigned(e, s) == e.prevAssignments[s] # << >>

(* A stream whose new version waits for ACKs.                              *)
Pending(e, s) == e.StreamFlowVersionTable[s].next # 0

-----------------------------------------------------------------------------
(* The version the rules of the next (re)assignment carry.                 *)
match_version(e) == IF isTaggingEnabled THEN e.OF_match_version_number ELSE 0

(* Mutant: the number is reserved but not advanced.                        *)
addMatchVersiontoStream_NotAdvanced(e, s) ==
    IF ~ isTaggingEnabled \/ Pending(e, s) THEN e
    ELSE [e EXCEPT !.StreamFlowVersionTable[s].next = e.OF_match_version_number]

(* Reserve the number for stream s, unless one is pending for it already:  *)
(* then nothing is reserved and the number is not advanced.                *)
addMatchVersiontoStream(e, s) ==
    IF ~ isTaggingEnabled \/ Pending(e, s) THEN e
    ELSE [e EXCEPT
            !.StreamFlowVersionTable[s] = [next |-> e.OF_match_version_number,
                                           current |-> @.current],
            !.OF_match_version_number = (@ + 1) % VersionSpace]

(* Mutant: the ports of the rule are swapped.                              *)
createDesiredMatch_SwappedPorts(s, path, i, version) ==
    [flow    |-> FlowOf[s],
     inport  |-> IF i = Len(path) THEN "listener" ELSE path[i + 1],
     outport |-> IF i = 1 THEN "talker" ELSE path[i - 1],
     tag     |-> version]

(* Mutant: every switch expects the frame from the ingress switch.         *)
createDesiredMatch_FromIngress(s, path, i, version) ==
    [flow    |-> FlowOf[s],
     inport  |-> IF i = 1 THEN "talker" ELSE path[1],
     outport |-> IF i = Len(path) THEN "listener" ELSE path[i + 1],
     tag     |-> version]

(* The FlowMod for the i-th switch of path.                                *)
createDesiredMatch(s, path, i, version) ==
    [flow    |-> FlowOf[s],
     inport  |-> IF i = 1 THEN "talker" ELSE path[i - 1],
     outport |-> IF i = Len(path) THEN "listener" ELSE path[i + 1],
     tag     |-> version]

FlowMod(s, path, i, version) ==
    [type |-> "FlowMod", entry |-> createDesiredMatch(s, path, i, version)]

(* What insertAssignedPath sends to switch sw.                             *)
insertAssignedPath(s, path, version, sw) ==
    IF sw \notin SwitchesOn(path) THEN << >>
    ELSE << FlowMod(s, path, CHOOSE i \in DOMAIN path : path[i] = sw, version) >>

(* One iteration of the loop of configureDataPlane for a stream that is    *)
(* new or whose path differs: the engine afterwards, and what it sent.     *)
assign(e, s, path) ==
    LET v == match_version(e) IN
    [addMatchVersiontoStream(e, s) EXCEPT
        !.prevAssignments[s] = path,
        !.AckWaitingPaths[v] = SwitchesOn(path),
        !.IngressSwTable[v]  = path[1]]

assignSends(e, s, path, sw) == insertAssignedPath(s, path, match_version(e), sw)

-----------------------------------------------------------------------------
(* Mutant: the version of the entry is not compared.                       *)
WaitingFor_AnyPending(e, version) == {s \in Streams : Assigned(e, s) /\ Pending(e, s)}

(* The streams activateMatchVersion finds waiting for this version; it     *)
(* takes the first in the order of the map.                                *)
WaitingFor(e, version) ==
    {s \in Streams : Assigned(e, s) /\ e.StreamFlowVersionTable[s].next = version}

FirstWaitingFor(e, version) ==
    CHOOSE s \in WaitingFor(e, version) :
        \A t \in WaitingFor(e, version) : s <= t

(* The stream id the ActivationMessage may carry: with no stream waiting,  *)
(* the local variable streamID is sent uninitialised and is any number,    *)
(* 0 standing for the ids of no stream.                                    *)
ActivatedStreams(e, version) ==
    IF WaitingFor(e, version) = {} THEN Streams \cup {0}
    ELSE {FirstWaitingFor(e, version)}

activateMatchVersion(e, version) ==
    IF WaitingFor(e, version) = {} THEN e
    ELSE [e EXCEPT !.StreamFlowVersionTable[FirstWaitingFor(e, version)] =
                        [next |-> 0, current |-> version]]

(* Mutants: the first ACK completes the path; the ACK is not ticked off.   *)
StillWaiting_FirstAckCompletes(e, version, sw) == {}

StillWaiting_NotErased(e, version, sw) == e.AckWaitingPaths[version]

(* An ACK of switch sw for version: the engine afterwards.                 *)
StillWaiting(e, version, sw) == e.AckWaitingPaths[version] \ {sw}

receiveAck(e, version, sw) ==
    IF StillWaiting(e, version, sw) # {}
    THEN [e EXCEPT !.AckWaitingPaths[version] = StillWaiting(e, version, sw)]
    ELSE [activateMatchVersion(e, version) EXCEPT !.AckWaitingPaths[version] = {}]
=============================================================================
