-------------------------- MODULE StreamReservation --------------------------
(***************************************************************************)
(* Stream reservation in an AVB network with OpenFlow switches: the SRP    *)
(* tables and protocol entities of CoRE4INET (SRPTable.cc, SRProtocol.cc), *)
(* the applications at both ends (AVBTrafficSourceApp.cc,                  *)
(* AVBTrafficSinkApp.cc), the switches that hand every SRP frame to the    *)
(* controller first (AVB_OF_RelayUnit.cc, AVB_OF_SwitchAgent.cc) and the   *)
(* controller that installs the forwarding of the streams                  *)
(* (AVBLearningControllerApp.cc, SRPTableManagement.cc).                   *)
(*                                                                         *)
(* A port is named by the neighbour behind it; the module of a table entry *)
(* is a port or the application of the host (App).  All streams share one  *)
(* VLAN.  agingTime is 0, "disabled" (SRPTable.ned): SRPTableAging has the *)
(* ageing.  All agents are connected to the controller.                    *)
(*                                                                         *)
(* The frames a refusal produces (ListenerReadyFailed,                     *)
(* ListenerAskingFailed) never leave the node that refuses: a switch's     *)
(* relay only passes advertises and listener frames on, and a host with    *)
(* the talker has no port to send them to.                                 *)
(***************************************************************************)
EXTENDS OF_FlowTable, FiniteSets, FiniteSetsExt

CONSTANTS
    Hosts, Switches,
    Links,          \* pairs of nodes, a tree
    Streams,
    TalkerOf,       \* TalkerOf[st]: the host with the source of st
    SinksOf,        \* SinksOf[st]: the hosts with a sink of st
    Bandwidth,      \* Bandwidth[st]: what st needs on a port
    Reservable,     \* what may be reserved on a port
    MaxRenewals,    \* bound: subscriptions that are renewed
    App, NoModule

Nodes == Hosts \cup Switches
Ports(n) == {p \in Nodes : {n, p} \in Links}
Wires == {w \in Nodes \X Nodes : w[2] \in Ports(w[1])}

ASSUME ReservationAssumption ==
    /\ Hosts \cap Switches = {} /\ IsFiniteSet(Nodes) /\ IsFiniteSet(Streams)
    /\ \A h \in Hosts : Cardinality(Ports(h)) = 1
    /\ TalkerOf \in [Streams -> Hosts]
    /\ SinksOf \in [Streams -> SUBSET Hosts]
    /\ \A st \in Streams : TalkerOf[st] \notin SinksOf[st]
    /\ Bandwidth \in [Streams -> Nat \ {0}] /\ Reservable \in Nat /\ MaxRenewals \in Nat
    /\ {App, NoModule} \cap Nodes = {} /\ App # NoModule

(* What of a tree matters here: seen from the talker of a stream, a link   *)
(* leads up at one end and down at the other, and from every other node    *)
(* one link leads up.                                                      *)
LeadsUp(st, up) ==
    /\ up[TalkerOf[st]] = App
    /\ \A n \in Nodes \ {TalkerOf[st]} : up[n] \in Ports(n)
    /\ \A a \in Nodes : \A b \in Ports(a) : up[a] = b <=> up[b] # a

ASSUME TreeAssumption ==
    \A st \in Streams : \E up \in [Nodes -> Nodes \cup {App}] : LeadsUp(st, up)

VARIABLES
    srpTable,       \* srpTable[n][st]: module of the talker, modules of the listeners
    srpManager,     \* srpManager[s]: the same table as the controller knows it
    entries,        \* entries[s]: the flow table of s
    wire,           \* wire[<<a, b>>]: frames on their way from a to b
    packetIns,      \* packetIns[s]: frames on their way from s to the controller
    toSwitch,       \* toSwitch[s]: rules and frames on their way to s
    isStreaming,    \* isStreaming[st]: the source sends frames
    renewals,
    aborted         \* an exception ended the simulation

srpVars == << srpTable, wire, isStreaming, aborted >>
controlVars == << srpManager, packetIns, toSwitch >>
reservationVars == << srpVars, controlVars, entries, renewals >>

Frame(id, st) == [id |-> id, stream |-> st]

Rule(st, in, outports) == [flow |-> st, inport |-> in, outport |-> outports, tag |-> 0]

Init ==
    LET NoEntries == [st \in Streams |-> [talker |-> NoModule, listeners |-> {}]] IN
    /\ srpTable = [n \in Nodes |-> NoEntries] /\ srpManager = [s \in Switches |-> NoEntries]
    /\ entries = [s \in Switches |-> << >>]
    /\ wire = [w \in Wires |-> << >>]
    /\ packetIns = [s \in Switches |-> << >>] /\ toSwitch = [s \in Switches |-> << >>]
    /\ isStreaming = [st \in Streams |-> FALSE]
    /\ renewals = 0 /\ aborted = FALSE

-----------------------------------------------------------------------------
(* One table and the protocol entity that listens to it.                   *)

(* Mutant: only advertises leave a switch.                                 *)
Send_OnlyAdvertises(wires, n, frame, ports) ==
    [w \in Wires |-> IF w[1] = n /\ w[2] \in ports /\ (frame.id = "TalkerAdvertise" \/ n \in Hosts)
                     THEN Append(wires[w], frame) ELSE wires[w]]

Send(wires, n, frame, ports) ==
    [w \in Wires |-> IF w[1] = n /\ w[2] \in ports THEN Append(wires[w], frame) ELSE wires[w]]

Throw == aborted' = TRUE /\ UNCHANGED << srpTable, wire, isStreaming >>

(* Mutant: a ready is sent to every port.                                  *)
ReadyTo_Everybody(n, st) == Ports(n)

(* The ready goes to the talker, if that is not a local application.       *)
ReadyTo(n, st) == {srpTable[n][st].talker} \cap Ports(n)

(* The listener is entered and SRProtocol hears of it, registered or       *)
(* updated; the source hears of a new one.                                 *)
updateListenerWithStreamId(wires, n, st, module) ==
    IF srpTable[n][st].talker = NoModule THEN Throw
    ELSE /\ srpTable' = [srpTable EXCEPT ![n][st].listeners = @ \cup {module}]
         /\ wire' = Send(wires, n, Frame("ListenerReady", st), ReadyTo(n, st))
         /\ isStreaming' = [isStreaming EXCEPT ![st] =
                               @ \/ (srpTable[n][st].talker = App /\ module \notin srpTable[n][st].listeners)]
         /\ UNCHANGED aborted

(* Mutant: the advertise is sent back as well.                             *)
AdvertiseTo_Everybody(n, module) == Ports(n)

(* The advertise goes to all ports but the one it came from.               *)
AdvertiseTo(n, module) == Ports(n) \ {module}

(* A new talker is advertised, and a sink for its stream subscribes.       *)
updateTalkerWithStreamId(wires, n, st, module) ==
    LET advertised == Send(wires, n, Frame("TalkerAdvertise", st), AdvertiseTo(n, module))
    IN CASE srpTable[n][st].talker = NoModule ->
              /\ srpTable' = [srpTable EXCEPT ![n][st] =
                     [talker |-> module, listeners |-> IF n \in SinksOf[st] THEN {App} ELSE {}]]
              /\ wire' = IF n \in SinksOf[st]
                         THEN Send(advertised, n, Frame("ListenerReady", st), {module})
                         ELSE advertised
              /\ UNCHANGED << isStreaming, aborted >>
         [] srpTable[n][st].talker = module ->
              wire' = wires /\ UNCHANGED << srpTable, isStreaming, aborted >>
         [] OTHER -> Throw

getBandwidthForModule(n, port) ==
    MapThenSumSet(LAMBDA st : Bandwidth[st],
                  {st \in Streams : port \in srpTable[n][st].listeners})

(* Mutant: the stream counts as an update whatever the port.               *)
Reserved_AnyPort(n, st, port) == srpTable[n][st].listeners # {}

Reserved(n, st, port) == port \in srpTable[n][st].listeners

Fits(n, st, port) == getBandwidthForModule(n, port) + Bandwidth[st] <= Reservable

(* Mutant: a ready that is refused goes on to the talker.                  *)
SRProtocol_RefusalPassedOn(wires, n, frame, port) ==
    LET st == frame.stream IN
    CASE frame.id = "TalkerAdvertise" -> updateTalkerWithStreamId(wires, n, st, port)
      [] frame.id = "ListenerReady" /\ srpTable[n][st].talker = NoModule -> Throw
      [] OTHER -> IF Reserved(n, st, port) \/ Fits(n, st, port)
                  THEN updateListenerWithStreamId(wires, n, st, port)
                  ELSE /\ wire' = Send(wires, n, frame, ReadyTo(n, st))
                       /\ UNCHANGED << srpTable, isStreaming, aborted >>

(* A frame reaches the protocol entity of n; a listener gets its bandwidth *)
(* or is refused.                                                          *)
SRProtocol(wires, n, frame, port) ==
    LET st == frame.stream IN
    CASE frame.id = "TalkerAdvertise" -> updateTalkerWithStreamId(wires, n, st, port)
      [] frame.id = "ListenerReady" /\ srpTable[n][st].talker = NoModule -> Throw
      [] OTHER -> IF Reserved(n, st, port) \/ Fits(n, st, port)
                  THEN updateListenerWithStreamId(wires, n, st, port)
                  ELSE wire' = wires /\ UNCHANGED << srpTable, isStreaming, aborted >>

-----------------------------------------------------------------------------
(* The applications.                                                       *)

(* Source: the start message.                                              *)
StartTalker(st) ==
    /\ ~ aborted /\ srpTable[TalkerOf[st]][st].talker = NoModule
    /\ updateTalkerWithStreamId(wire, TalkerOf[st], st, App)
    /\ UNCHANGED << controlVars, entries, renewals >>

(* Sink: the update timer.                                                 *)
UpdateSubscription(h, st) ==
    /\ ~ aborted /\ App \in srpTable[h][st].listeners /\ renewals < MaxRenewals
    /\ renewals' = renewals + 1
    /\ updateListenerWithStreamId(wire, h, st, App)
    /\ UNCHANGED << controlVars, entries >>

Taken(w) == [wire EXCEPT ![w] = Tail(@)]

ReceiveAtHost(h, port) ==
    LET w == << port, h >> IN
    /\ ~ aborted /\ wire[w] # << >>
    /\ SRProtocol(Taken(w), h, Head(wire[w]), port)
    /\ UNCHANGED << controlVars, entries, renewals >>

(* Relay and agent of a switch: the frame goes to the controller.          *)
ForwardSRPToController(s, port) ==
    LET w == << port, s >> IN
    /\ ~ aborted /\ wire[w] # << >>
    /\ wire' = Taken(w)
    /\ packetIns' = [packetIns EXCEPT ![s] = Append(@, [frame |-> Head(wire[w]), port |-> port])]
    /\ UNCHANGED << srpTable, isStreaming, aborted, srpManager, toSwitch, entries, renewals >>

-----------------------------------------------------------------------------
(* The controller.                                                         *)

registerTalker(s, st, port) == [srpManager EXCEPT ![s][st].talker = port]

registerListener(s, st, port) == [srpManager EXCEPT ![s][st].listeners = @ \cup {port}]

(* A talker or listener the controller's table refuses with an exception.  *)
Unacceptable(s, frame, port) ==
    LET talker == srpManager[s][frame.stream].talker IN
    IF frame.id = "TalkerAdvertise" THEN talker \notin {NoModule, port}
    ELSE talker = NoModule /\ \E st \in Streams : srpManager[s][st].talker # NoModule

(* Mutant: the frame is returned before the rule is sent.                  *)
Answer_FrameFirst(s, frame, port, manager) ==
    LET entry == manager[s][frame.stream]
        back  == [id |-> "VENDOR", frame |-> frame, port |-> port]
        rule  == [id |-> "FlowMod", entry |-> Rule(frame.stream, entry.talker, entry.listeners)]
    IN IF frame.id = "ListenerReady" /\ entry.talker # NoModule THEN << back, rule >> ELSE << back >>

(* For a listener, the rule for all of them, then the frame.               *)
Answer(s, frame, port, manager) ==
    LET entry == manager[s][frame.stream]
        back  == [id |-> "VENDOR", frame |-> frame, port |-> port]
        rule  == [id |-> "FlowMod", entry |-> Rule(frame.stream, entry.talker, entry.listeners)]
    IN IF frame.id = "ListenerReady" /\ entry.talker # NoModule THEN << rule, back >> ELSE << back >>

doSRP(s) ==
    /\ ~ aborted /\ packetIns[s] # << >>
    /\ packetIns' = [packetIns EXCEPT ![s] = Tail(@)]
    /\ LET frame == Head(packetIns[s]).frame
           port  == Head(packetIns[s]).port
           st    == frame.stream
       IN IF Unacceptable(s, frame, port)
          THEN aborted' = TRUE /\ UNCHANGED << srpManager, toSwitch >>
          ELSE /\ srpManager' = IF frame.id = "TalkerAdvertise" THEN registerTalker(s, st, port)
                                ELSE IF srpManager[s][st].talker # NoModule
                                THEN registerListener(s, st, port) ELSE srpManager
               /\ toSwitch' = [toSwitch EXCEPT ![s] = @ \o Answer(s, frame, port, srpManager')]
               /\ UNCHANGED aborted
    /\ UNCHANGED << srpTable, wire, isStreaming, entries, renewals >>

(* Agent: a rule is entered in the flow table.                             *)
HandleFlowMod(s) ==
    /\ ~ aborted /\ toSwitch[s] # << >> /\ Head(toSwitch[s]).id = "FlowMod"
    /\ toSwitch' = [toSwitch EXCEPT ![s] = Tail(@)]
    /\ \E table \in addEntry(entries[s], Head(toSwitch[s]).entry) :
          entries' = [entries EXCEPT ![s] = table]
    /\ UNCHANGED << srpVars, srpManager, packetIns, renewals >>

(* Agent: a frame that was seen by the controller reaches SRProtocol.      *)
handleSRPFromController(s) ==
    /\ ~ aborted /\ toSwitch[s] # << >> /\ Head(toSwitch[s]).id = "VENDOR"
    /\ toSwitch' = [toSwitch EXCEPT ![s] = Tail(@)]
    /\ SRProtocol(wire, s, Head(toSwitch[s]).frame, Head(toSwitch[s]).port)
    /\ UNCHANGED << srpManager, packetIns, entries, renewals >>

Next ==
    \/ \E st \in Streams : StartTalker(st)
    \/ \E h \in Hosts, st \in Streams : UpdateSubscription(h, st)
    \/ \E h \in Hosts : \E port \in Ports(h) : ReceiveAtHost(h, port)
    \/ \E s \in Switches : \E port \in Ports(s) : ForwardSRPToController(s, port)
    \/ \E s \in Switches : doSRP(s) \/ HandleFlowMod(s) \/ handleSRPFromController(s)

Spec == Init /\ [][Next]_reservationVars

(* Every source starts; frames and messages arrive and are handled.        *)
FairSpec ==
    /\ Spec
    /\ \A st \in Streams : WF_reservationVars(StartTalker(st))
    /\ \A h \in Hosts : \A port \in Ports(h) : WF_reservationVars(ReceiveAtHost(h, port))
    /\ \A s \in Switches :
          /\ \A port \in Ports(s) : WF_reservationVars(ForwardSRPToController(s, port))
          /\ WF_reservationVars(doSRP(s)) /\ WF_reservationVars(HandleFlowMod(s))
          /\ WF_reservationVars(handleSRPFromController(s))

-----------------------------------------------------------------------------
(* Types; the module of a talker is never a listener of its stream.        *)
ReservationTypeOK ==
    /\ \A n \in Nodes, st \in Streams :
          /\ srpTable[n][st].talker \in Ports(n) \cup {App, NoModule}
          /\ srpTable[n][st].listeners \subseteq (Ports(n) \cup {App}) \ {srpTable[n][st].talker}
    /\ \A s \in Switches, st \in Streams :
          srpManager[s][st] \in [talker : Ports(s) \cup {NoModule}, listeners : SUBSET Ports(s)]
    /\ \A s \in Switches : \A i \in DOMAIN entries[s] :
          entries[s][i] \in [flow : Streams, inport : Ports(s), outport : SUBSET Ports(s), tag : {0}]
    /\ isStreaming \in [Streams -> BOOLEAN]

(* In a tree no exception is thrown: neither "Talker already exists on     *)
(* another port" nor a listener of an unknown talker, in whatever order    *)
(* the frames of both directions reach controller and switch.              *)
NeverThrows == ~ aborted

(* No port is reserved beyond its bandwidth, though readies of several     *)
(* streams pass the controller, which does not check, at once.             *)
WithinCapacity ==
    \A n \in Nodes : \A p \in Ports(n) : getBandwidthForModule(n, p) <= Reservable

(* When a switch reserves bandwidth for a listener, hence before the ready *)
(* travels on and the source can start, the listener has its rule.         *)
RuleBeforeReady ==
    \A s \in Switches, st \in Streams : \A p \in srpTable[s][st].listeners :
        \E i \in DOMAIN entries[s] :
            /\ tryMatch(entries[s][i], st, srpTable[s][st].talker)
            /\ p \in entries[s][i].outport

(* Bandwidth is reserved only where a listener follows: a port's neighbour *)
(* has the node as talker and a listener of its own, and a source streams  *)
(* only with a listener.  So each reservation leads to a sink.             *)
ReservationsReachASink ==
    \A st \in Streams :
        /\ \A n \in Nodes : \A p \in srpTable[n][st].listeners \cap Nodes :
              srpTable[p][st].talker = n /\ srpTable[p][st].listeners # {}
        /\ isStreaming[st] => srpTable[TalkerOf[st]][st].listeners # {}

(* Every sink subscribes in the end, and its subscription has climbed to   *)
(* the source, hop by hop, or to a port without the bandwidth for it; both *)
(* for good, and no frame is lost on the way through the controller.       *)
SubscriptionsClimb ==
    <>[] \A st \in Streams :
            /\ \A h \in SinksOf[st] : App \in srpTable[h][st].listeners
            /\ \A w \in Wires :
                  srpTable[w[2]][st].talker = w[1] /\ srpTable[w[2]][st].listeners # {} =>
                      Reserved(w[1], st, w[2]) \/ ~ Fits(w[1], st, w[2])

(* OF_FlowTable.h:54, "Inserts the entry into the table if it does not     *)
(* already exist": no two entries of a table are the same.                 *)
NoEntryTwice ==
    \A s \in Switches : \A i, j \in DOMAIN entries[s] : entries[s][i] = entries[s][j] => i = j
=============================================================================
