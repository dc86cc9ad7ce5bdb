--------------------------- MODULE ConnectionSetup ---------------------------
(***************************************************************************)
(* How switch agents and the OpenFlow controller find each other, and how  *)
(* the controller learns which connection leads to which switch of the     *)
(* topology (OF_SwitchAgent.cc, OF_Controller.cc), up to the first paths   *)
(* that are configured with what it learned (OPCE2.cc,                     *)
(* ConfigurationEngine.cc).                                                *)
(*                                                                         *)
(* Three start-up times are parameters of independent modules and one is   *)
(* fixed in the code: the controller boots (bootTime), the topology is     *)
(* extracted (1.5 s), agents connect (connectAt), hosts start.  Any order  *)
(* of them is a configuration; ExampleSchedule is the order of the example *)
(* network (0 s, 0.8 s, 1.5 s, 2.3 s), in which every step has settled     *)
(* before the next begins.                                                 *)
(*                                                                         *)
(* A switch is named by its index in the topology.  A cRuntimeError, an    *)
(* exception of the library or an access to what does not exist yet ends   *)
(* the simulation: aborted.                                                *)
(***************************************************************************)
EXTENDS Integers, Sequences, FiniteSets, SequencesExt

CONSTANTS
    N,              \* switches, in the order of the topology
    Talkers,        \* switches that have a talker, which asks for one path
    HostSwitches,   \* switches that have a host, a talker or not
    ExampleSchedule \* the schedule of the example network, or any

Switches == 1 .. N
Unset == 0

(* A Switch_Info that no connection has filled in: socket and index are    *)
(* not initialised.                                                        *)
Blank == -1

ASSUME ConnectionAssumption ==
    /\ N \in Nat \ {0, 1}
    /\ Talkers \subseteq HostSwitches /\ HostSwitches \subseteq Switches
    /\ ExampleSchedule \in BOOLEAN

VARIABLES
    agents,         \* agents[s]: has it called connect, hasController
    toController,   \* toController[s]: messages of s on their way
    toSwitch,       \* toSwitch[s]: messages for the agent of s
    booted,
    msgList,        \* messages the controller has yet to process
    switchesList,   \* Switch_Info of the connections, in the order of their Hello
    extracted,      \* the topology has been extracted
    SwitchInfoTable,\* SwitchInfoTable[s]: the switch whose Switch_Info is filed under s
    requests,       \* requests[s]: what became of the advertise of the talker at s
    waiting,        \* waiting[s]: switches of its path that have not acknowledged
    aborted

controllerVars == << booted, msgList, switchesList, extracted, SwitchInfoTable, waiting >>
connectionVars == << agents, toController, toSwitch, controllerVars, requests, aborted >>

Message(id, s) == [id |-> id, for |-> s]

-----------------------------------------------------------------------------
Init ==
    /\ agents = [s \in Switches |-> [connecting |-> FALSE, hasController |-> FALSE]]
    /\ toController = [s \in Switches |-> << >>]
    /\ toSwitch = [s \in Switches |-> << >>]
    /\ booted = FALSE /\ extracted = FALSE /\ aborted = FALSE
    /\ msgList = << >> /\ switchesList = << >>
    /\ SwitchInfoTable = [s \in Switches |-> Unset]
    /\ requests = [s \in Talkers |-> "none"]
    /\ waiting = [s \in Talkers |-> {}]

Entries == ToSet(switchesList)

Registered(s) == \E e \in Entries : e.sw = s

(* All switches have said hello and told their MAC address.                *)
AllSwitchesKnown == \A s \in Switches : \E e \in Entries : e.sw = s /\ e.mac

(* Agent: connect opens the socket and sends the Hello, once.              *)
connect(s) ==
    /\ ~ aborted /\ ~ agents[s].connecting
    /\ ExampleSchedule => booted
    /\ agents' = [agents EXCEPT ![s].connecting = TRUE]
    /\ toController' = [toController EXCEPT ![s] = Append(@, Message("Hello", s))]
    /\ UNCHANGED << toSwitch, controllerVars, requests, aborted >>

(* Controller: the booted message.                                         *)
boot ==
    /\ ~ aborted /\ ~ booted
    /\ booted' = TRUE
    /\ UNCHANGED << agents, toController, toSwitch, msgList, switchesList, extracted,
                    SwitchInfoTable, requests, waiting, aborted >>

(* Controller: a message arrives; before it is booted it is deleted.       *)
handleMessage(s) ==
    /\ ~ aborted /\ toController[s] # << >>
    /\ toController' = [toController EXCEPT ![s] = Tail(@)]
    /\ msgList' = IF booted THEN Append(msgList, [from |-> s, msg |-> Head(toController[s])])
                  ELSE msgList
    /\ UNCHANGED << agents, toSwitch, booted, switchesList, extracted, SwitchInfoTable,
                    requests, waiting, aborted >>

-----------------------------------------------------------------------------
(* Controller: the first queued message is of this kind.                   *)
ProcessNext(id) ==
    /\ ~ aborted /\ msgList # << >>
    /\ Head(msgList).msg.id = id
    /\ msgList' = Tail(msgList)

(* Mutant: nobody is registered once the topology is known.                *)
registerConnection_Early(s) ==
    IF Registered(s) \/ extracted THEN switchesList
    ELSE Append(switchesList, [sw |-> s, mac |-> FALSE, topo_index |-> Unset])

(* A connection that is new gets an entry at the end of the list; its      *)
(* topology index is not initialised.                                      *)
registerConnection(s) ==
    IF Registered(s) THEN switchesList
    ELSE Append(switchesList, [sw |-> s, mac |-> FALSE, topo_index |-> Unset])

ProcessHello ==
    /\ ProcessNext("Hello")
    /\ LET s == Head(msgList).from IN
       /\ switchesList' = registerConnection(s)
       /\ toSwitch' = [toSwitch EXCEPT ![s] = @ \o << Message("Hello", s), Message("FeaturesRequest", s) >>]
    /\ UNCHANGED << agents, toController, booted, extracted, SwitchInfoTable, requests, waiting, aborted >>

handleFeaturesReply ==
    /\ ProcessNext("FeaturesReply")
    /\ switchesList' = [i \in DOMAIN switchesList |->
                           IF switchesList[i].sw = Head(msgList).from
                           THEN [switchesList[i] EXCEPT !.mac = TRUE] ELSE switchesList[i]]
    /\ UNCHANGED << agents, toController, toSwitch, booted, extracted, SwitchInfoTable, requests,
                    waiting, aborted >>

(* Mutant: the entry found is a copy, the list keeps its indexes.          *)
setTopo_index_Unset(i) == switchesList[i]

(* Mutant: indexes are counted from one.                                   *)
setTopo_index_OffByOne(i) == [switchesList[i] EXCEPT !.topo_index = switchesList[i].sw + 1]

(* extractTopology finds the entry of a switch by its MAC address.         *)
setTopo_index(i) == [switchesList[i] EXCEPT !.topo_index = switchesList[i].sw]

(* Mutant: the last connection is forgotten.                               *)
extractSwitchInfoTable_SkipsLast ==
    [s \in Switches |-> IF s < Len(switchesList) THEN switchesList[s].sw ELSE Unset]

(* The i-th connection is filed under the i-th switch of the topology.     *)
extractSwitchInfoTable ==
    [s \in Switches |-> IF s \in DOMAIN switchesList THEN switchesList[s].sw ELSE Unset]

(* Writing the file of the hosts reads the row of each host's switch with  *)
(* operator[], which adds the one that is missing.                         *)
extractHostSwMacTable(table) ==
    [s \in Switches |-> IF s \in HostSwitches /\ table[s] = Unset THEN Blank ELSE table[s]]

(* The MAC address of every entry is parsed; an empty one is an error.     *)
extractTopology ==
    /\ ~ aborted /\ ~ extracted
    /\ ExampleSchedule => AllSwitchesKnown
    /\ extracted' = TRUE
    /\ IF \A e \in Entries : e.mac
       THEN /\ switchesList' = [i \in DOMAIN switchesList |-> setTopo_index(i)]
            /\ SwitchInfoTable' = extractHostSwMacTable(extractSwitchInfoTable)
            /\ UNCHANGED aborted
       ELSE aborted' = TRUE /\ UNCHANGED << switchesList, SwitchInfoTable >>
    /\ UNCHANGED << agents, toController, toSwitch, booted, msgList, requests, waiting >>

(* What a path request reads as the index of the talker's switch: the      *)
(* uninitialised one may be any.                                           *)
SourceIndex(s) ==
    {i \in Switches : \E e \in Entries : e.sw = s /\ e.topo_index \in {i, Unset}}

(* The connection over which the rules for a switch of the topology go.    *)
findRelatedSwitchSocket(m) == SwitchInfoTable[m]

(* The rules of the path of request s; the table is read with at(), which  *)
(* throws for a row that is missing, and a blank row has no valid socket   *)
(* to send with.                                                           *)
configureDataPlane(s, path) ==
    IF \E m \in path : findRelatedSwitchSocket(m) \notin Switches
    THEN aborted' = TRUE /\ UNCHANGED << toSwitch, requests, waiting >>
    ELSE /\ toSwitch' = [t \in Switches |->
                IF \E m \in path : findRelatedSwitchSocket(m) = t
                THEN Append(toSwitch[t], Message("FlowMod", s)) ELSE toSwitch[t]]
         /\ waiting' = [waiting EXCEPT ![s] = path]
         /\ requests' = [requests EXCEPT ![s] = "waiting"]
         /\ UNCHANGED aborted

(* A path request needs the topology and the MAC address of the talker's   *)
(* switch; the optimiser finds a path from that switch or none.            *)
ProcessPacketIn ==
    /\ ProcessNext("PacketIn")
    /\ LET s == Head(msgList).from
           known == extracted /\ \E e \in Entries : e.sw = s /\ e.mac
       IN \/ ~ known /\ aborted' = TRUE /\ UNCHANGED << toSwitch, requests, waiting >>
          \/ /\ known
             /\ requests' = [requests EXCEPT ![s] = "rejected"]
             /\ UNCHANGED << toSwitch, waiting, aborted >>
          \/ /\ known
             /\ \E src \in SourceIndex(s), path \in SUBSET Switches :
                   /\ src \in path /\ Cardinality(path) >= 2
                   /\ configureDataPlane(s, path)
    /\ UNCHANGED << agents, toController, booted, switchesList, extracted, SwitchInfoTable >>

(* An ACK counts for the index in the entry of the switch that sent it.    *)
ProcessAck ==
    /\ ProcessNext("Ack")
    /\ LET s == Head(msgList).msg.for
           left == waiting[s] \ {e.topo_index : e \in {f \in Entries : f.sw = Head(msgList).from}}
       IN /\ waiting' = [waiting EXCEPT ![s] = left]
          /\ requests' = [requests EXCEPT ![s] = IF left = {} THEN "released" ELSE @]
    /\ UNCHANGED << agents, toController, toSwitch, booted, switchesList, extracted,
                    SwitchInfoTable, aborted >>

processQueuedMsg ==
    ProcessHello \/ handleFeaturesReply \/ ProcessPacketIn \/ ProcessAck

-----------------------------------------------------------------------------
(* Mutant: the features request is left to somebody else.                  *)
processControlPlanePacket_NoFeatures(s) ==
    /\ ~ aborted /\ toSwitch[s] # << >>
    /\ LET m == Head(toSwitch[s]) IN
       /\ agents' = IF m.id = "Hello" THEN [agents EXCEPT ![s].hasController = TRUE] ELSE agents
       /\ toController' = IF m.id = "FlowMod"
                          THEN [toController EXCEPT ![s] = Append(@, Message("Ack", m.for))]
                          ELSE toController
    /\ toSwitch' = [toSwitch EXCEPT ![s] = Tail(@)]
    /\ UNCHANGED << controllerVars, requests, aborted >>

(* Agent: hello, features request, and a rule, which it acknowledges.      *)
processControlPlanePacket(s) ==
    /\ ~ aborted /\ toSwitch[s] # << >>
    /\ LET m == Head(toSwitch[s])
           answer == CASE m.id = "Hello"           -> << >>
                       [] m.id = "FeaturesRequest" -> << Message("FeaturesReply", s) >>
                       [] m.id = "FlowMod"         -> << Message("Ack", m.for) >>
       IN /\ agents' = IF m.id = "Hello" THEN [agents EXCEPT ![s].hasController = TRUE] ELSE agents
          /\ toController' = [toController EXCEPT ![s] = @ \o answer]
    /\ toSwitch' = [toSwitch EXCEPT ![s] = Tail(@)]
    /\ UNCHANGED << controllerVars, requests, aborted >>

(* The talker's only TalkerAdvertise; an agent that has no controller yet  *)
(* drops it.  hasController implies that the socket is connected.          *)
forwardSRPtoController(s) ==
    /\ ~ aborted /\ requests[s] = "none"
    /\ ExampleSchedule => extracted
    /\ IF agents[s].hasController
       THEN /\ requests' = [requests EXCEPT ![s] = "sent"]
            /\ toController' = [toController EXCEPT ![s] = Append(@, Message("PacketIn", s))]
       ELSE requests' = [requests EXCEPT ![s] = "dropped"] /\ UNCHANGED toController
    /\ UNCHANGED << agents, toSwitch, controllerVars, aborted >>

Next ==
    \/ boot \/ extractTopology \/ processQueuedMsg
    \/ \E s \in Switches : connect(s) \/ handleMessage(s) \/ processControlPlanePacket(s)
    \/ \E s \in Talkers : forwardSRPtoController(s)

Spec == Init /\ [][Next]_connectionVars

(* Events that are scheduled are executed and TCP delivers.                *)
FairSpec ==
    /\ Spec
    /\ WF_connectionVars(boot) /\ WF_connectionVars(extractTopology)
    /\ WF_connectionVars(processQueuedMsg)
    /\ \A s \in Switches :
          /\ WF_connectionVars(connect(s)) /\ WF_connectionVars(handleMessage(s))
          /\ WF_connectionVars(processControlPlanePacket(s))
    /\ \A s \in Talkers : WF_connectionVars(forwardSRPtoController(s))

-----------------------------------------------------------------------------
(* Types of the agents, the controller's tables and the requests.          *)
ConnectionTypeOK ==
    /\ agents \in [Switches -> [connecting : BOOLEAN, hasController : BOOLEAN]]
    /\ Entries \subseteq [sw : Switches, mac : BOOLEAN, topo_index : Switches \cup {Unset}]
    /\ Len(switchesList) <= N
    /\ SwitchInfoTable \in [Switches -> Switches \cup {Unset, Blank}]
    /\ requests \in [Talkers -> {"none", "dropped", "sent", "rejected", "waiting", "released"}]
    /\ waiting \in [Talkers -> SUBSET Switches]

(* An agent that believes to have a controller is in the controller's list,*)
(* once: findSwitchInfoFor never fails for what such an agent sends.       *)
HasControllerIsRegistered ==
    \A s \in Switches : agents[s].hasController =>
        Cardinality({i \in DOMAIN switchesList : switchesList[i].sw = s}) = 1

(* Every rule goes to a switch whose ACK will count for it: whose          *)
(* connection is in the table has the index of its own switch, however     *)
(* late others connect.                                                    *)
AcksAreAttributed ==
    \A m \in Switches : SwitchInfoTable[m] \in Switches =>
        \E e \in Entries : e.sw = SwitchInfoTable[m] /\ e.mac /\ e.topo_index = e.sw

(* A start-up in which every switch was known when the topology was        *)
(* extracted ends the simulation no more, whatever is requested then.      *)
FailsOnlyInSetup ==
    [][~ aborted /\ aborted' =>
          ~ (extracted /\ \A s \in Switches : \E e \in Entries : e.sw = s /\ e.topo_index = s)
      ]_connectionVars

(* The Hello of an agent that meets a booted controller leads to both      *)
(* knowing each other, unless the simulation ends.                         *)
HandshakesComplete ==
    \A s \in Switches :
        booted /\ toController[s] # << >> ~>
            aborted \/ (agents[s].hasController /\ \E e \in Entries : e.sw = s /\ e.mac)

(* A request that reached the controller is answered: its path is refused  *)
(* or every rule of it acknowledged, if the switches said hello in the     *)
(* order of the topology.                                                  *)
RequestsAnswered ==
    \A s \in Talkers :
        requests[s] = "sent" ~>
            \/ aborted \/ requests[s] \in {"rejected", "released"}
            \/ \E m \in Switches : SwitchInfoTable[m] \in Switches \ {m}

(* The comment of extractSwitchInfoTable (OF_Controller.cc:451) calls it   *)
(* the "switchID-moduleID table": under a switch of the topology stands    *)
(* the connection of that switch.                                          *)
TablePairsSwitches ==
    \A m \in Switches : SwitchInfoTable[m] \in {m, Unset, Blank}
=============================================================================
