--------------------------- MODULE TimeAwareShaper ---------------------------
(***************************************************************************)
(* One port with IEEE 802.1Qbv gates (CoRE4INET, linklayer/shaper): the    *)
(* gate control list that NETCONF replaces at run time                     *)
(* (IEEE8021QbvGateControlList.cc), the gates, the queues of the traffic   *)
(* classes, the transmission selection (IEEE8021QbvSelection.cc) and the   *)
(* MAC that fetches frames from it.                                        *)
(*                                                                         *)
(* Time is counted in ticks of the port's oscillator, which runs without   *)
(* corrections; the rows of a list lie on ticks.  A message scheduled for  *)
(* the present moment is taken at any point before the clock moves, since  *)
(* modules post such messages in no fixed order.  Every class uses the     *)
(* plain selection algorithm, which is always open.  The queues are        *)
(* infinite (size = -1, BGQueueBuffer.ned).                                *)
(***************************************************************************)
EXTENDS Integers, Sequences, FiniteSets, FiniteSetsExt

CONSTANTS
    numPCP,         \* traffic classes 1..numPCP, the last has the highest priority
    cycle_ticks,    \* length of the period
    Lists,          \* the control lists the port may be given
    FrameTicks,     \* the longest frame occupies the wire so many ticks, gap included
    MaxQueued,      \* bound: frames of a class waiting
    MaxConfigs      \* bound: values of configNo

Classes == 1 .. numPCP

ASSUME ShaperAssumption ==
    /\ numPCP \in Nat \ {0} /\ cycle_ticks \in Nat \ {0} /\ FrameTicks \in Nat \ {0}
    /\ MaxQueued \in Nat \ {0} /\ MaxConfigs \in Nat \ {0}
    /\ \A list \in Lists :
        /\ list \in Seq([open : SUBSET Classes, time : 0 .. cycle_ticks - 1]) /\ list # << >>
        /\ \A k \in 1 .. Len(list) - 1 : list[k].time < list[k + 1].time

VARIABLES
    ticks,              \* the clock, within the period
    gateControlList, gateControlElement, configNo,
    events,             \* the timer's events: [config, left], due when left = 0
    transmissionGate,   \* the classes with an open gate
    queue,              \* queue[i]: frames of class i waiting
    framesRequested,    \* the MAC waits for a frame
    selfMessage,        \* the selection has a message to itself
    sending, left,      \* class on the wire (0: none), ticks until the MAC is free
    sinceLoad           \* ticks since the list was set, up to FrameTicks

listVars == << gateControlList, gateControlElement, configNo, sinceLoad >>
macVars == << queue, framesRequested, sending, left >>
shaperVars == << ticks, listVars, events, transmissionGate, macVars, selfMessage >>

---------------------------------------------------------------------------
(* The control list *)

NextElement(list, k) == IF k = Len(list) THEN 1 ELSE k + 1
PrecedingElement(list, k) == IF k = 1 THEN Len(list) ELSE k - 1

\* The first row that does not lie in the past of the period, else the first.
FirstElement(list) ==
    LET ahead == {k \in 1 .. Len(list) : list[k].time >= ticks}
    IN  IF ahead = {} THEN 1 ELSE Min(ahead)

\* How far the timer puts an action time away: later in this period or in the next.
Distance(time) == IF time < ticks THEN time - ticks + cycle_ticks ELSE time - ticks

EventFor(list, k, config) == [config |-> config, left |-> Distance(list[k].time)]

(* Mutant: the gates change without telling the selection.                 *)
propagate_Silent(open) == transmissionGate' = open /\ UNCHANGED selfMessage

(* Mutant: gates are opened and never closed.                              *)
propagate_OpenOnly(open) ==
    /\ transmissionGate' = transmissionGate \cup open
    /\ selfMessage' = (selfMessage \/ open \ transmissionGate # {})

\* Gates that open tell the selection, which posts itself a message.
propagate(open) ==
    /\ transmissionGate' = open
    /\ selfMessage' = (selfMessage \/ open \ transmissionGate # {})

\* The parameter changes twice: setStringValue notifies the module, which is
\* then also called directly.  Each time the list gets a number and an event;
\* the events of earlier numbers stay with the timer.
Load(list) ==
    LET first == FirstElement(list)
    IN  /\ gateControlList' = list
        /\ gateControlElement' = first
        /\ configNo' = configNo + 2
        /\ sinceLoad' = 0
        /\ events' = events \cup {EventFor(list, first, c) : c \in {configNo + 1, configNo + 2}}
        /\ IF list[first].time = ticks
           THEN UNCHANGED << transmissionGate, selfMessage >>
           ELSE propagate(list[PrecedingElement(list, first)].open)

setGateControlList ==
    /\ configNo + 2 <= MaxConfigs
    /\ \E list \in Lists : Load(list)
    /\ UNCHANGED << ticks, macVars >>

Due == {e \in events : e.left = 0}

(* Mutant: events of a replaced list are obeyed.                           *)
IsCurrent_Any(e) == e.config \in 1 .. configNo

\* An event carries the number of its list in its name; another's is discarded.
IsCurrent(e) == e.config = configNo

\* A list of one row is not scheduled again: its gates stay.
GateEvent ==
    \E e \in Due :
        /\ IF IsCurrent(e)
           THEN LET next == NextElement(gateControlList, gateControlElement)
                IN  /\ propagate(gateControlList[gateControlElement].open)
                    /\ IF Len(gateControlList) > 1
                       THEN /\ gateControlElement' = next
                            /\ events' = (events \ {e})
                                   \cup {EventFor(gateControlList, next, configNo)}
                       ELSE events' = events \ {e} /\ UNCHANGED gateControlElement
           ELSE /\ events' = events \ {e}
                /\ UNCHANGED << gateControlElement, transmissionGate, selfMessage >>
        /\ UNCHANGED << ticks, gateControlList, configNo, sinceLoad, macVars >>

---------------------------------------------------------------------------
(* Queues, selection and MAC *)

(* Mutant: the selection does not ask the gates.                           *)
Eligible_AnyGate == {i \in Classes : queue[i] > 0}

Eligible == {i \in Classes : queue[i] > 0 /\ i \in transmissionGate}

\* The frame goes through the selection to the MAC, which starts at once.
selectFrame(requested) ==
    IF requested > 0 /\ Eligible # {}
    THEN LET i == Max(Eligible)
         IN  /\ queue' = [queue EXCEPT ![i] = @ - 1]
             /\ framesRequested' = requested - 1
             /\ sending' = i
             /\ left' \in 1 .. FrameTicks
    ELSE framesRequested' = requested /\ UNCHANGED << queue, sending, left >>

(* Mutant: the queue reports its size before the frame is in it.           *)
Arrive_SizeBefore(i) ==
    /\ queue[i] < MaxQueued
    /\ queue' = [queue EXCEPT ![i] = @ + 1]
    /\ selfMessage' = (selfMessage \/ queue[i] > 0)
    /\ UNCHANGED << ticks, listVars, events, transmissionGate, framesRequested, sending, left >>

Arrive(i) ==
    /\ queue[i] < MaxQueued
    /\ queue' = [queue EXCEPT ![i] = @ + 1]
    /\ selfMessage' = TRUE
    /\ UNCHANGED << ticks, listVars, events, transmissionGate, framesRequested, sending, left >>

Wakeup ==
    /\ selfMessage
    /\ selfMessage' = FALSE
    /\ selectFrame(framesRequested)
    /\ UNCHANGED << ticks, listVars, events, transmissionGate >>

(* Mutant: the MAC asks whether or not it waits already.                   *)
requestPacket_Again ==
    /\ left = 0
    /\ selectFrame(framesRequested + 1)
    /\ UNCHANGED << ticks, listVars, events, transmissionGate, selfMessage >>

\* The MAC asks when it is free and has no request outstanding.
requestPacket ==
    /\ left = 0 /\ framesRequested = 0
    /\ selectFrame(framesRequested + 1)
    /\ UNCHANGED << ticks, listVars, events, transmissionGate, selfMessage >>

---------------------------------------------------------------------------
(* Time passes when nothing is left to do at the present moment. *)

Tick ==
    /\ Due = {} /\ ~selfMessage /\ (left > 0 \/ framesRequested > 0)
    /\ ticks' = (ticks + 1) % cycle_ticks
    /\ events' = {[e EXCEPT !.left = @ - 1] : e \in events}
    /\ left' = IF left > 0 THEN left - 1 ELSE 0
    /\ sending' = IF left > 1 THEN sending ELSE 0
    /\ sinceLoad' = IF sinceLoad < FrameTicks THEN sinceLoad + 1 ELSE FrameTicks
    /\ UNCHANGED << gateControlList, gateControlElement, configNo, transmissionGate, queue,
                    framesRequested, selfMessage >>

\* All gates are open before the list of the configuration is first read, at tick 0.
Init ==
    /\ ticks = 0 /\ configNo = 1 /\ sinceLoad = 0
    /\ \E list \in Lists :
        LET first == FirstElement(list)
        IN  /\ gateControlList = list /\ gateControlElement = first
            /\ events = {EventFor(list, first, 1)}
            /\ transmissionGate = IF list[first].time = 0 THEN Classes
                                  ELSE list[PrecedingElement(list, first)].open
    /\ queue = [i \in Classes |-> 0] /\ framesRequested = 0 /\ selfMessage = FALSE
    /\ sending = 0 /\ left = 0

Next ==
    \/ setGateControlList
    \/ GateEvent
    \/ \E i \in Classes : Arrive(i)
    \/ Wakeup
    \/ requestPacket
    \/ Tick

Spec == Init /\ [][Next]_shaperVars

\* The simulation runs on: what is scheduled for now is executed and time passes.
FairSpec ==
    Spec /\ WF_shaperVars(GateEvent) /\ WF_shaperVars(Wakeup) /\ WF_shaperVars(requestPacket)
         /\ WF_shaperVars(Tick)

---------------------------------------------------------------------------
(* Properties *)

ShaperTypeOK ==
    /\ ticks \in 0 .. cycle_ticks - 1
    /\ gateControlList \in Lists /\ gateControlElement \in 1 .. Len(gateControlList)
    /\ configNo \in 1 .. MaxConfigs /\ sinceLoad \in 0 .. FrameTicks
    /\ events \subseteq [config : 1 .. configNo, left : 0 .. cycle_ticks - 1]
    /\ transmissionGate \subseteq Classes
    /\ queue \in [Classes -> 0 .. MaxQueued]
    /\ framesRequested \in 0 .. 1 /\ selfMessage \in BOOLEAN
    /\ sending \in 0 .. numPCP /\ left \in 0 .. FrameTicks /\ (sending = 0 <=> left = 0)

\* The row that governs the present moment: the last one that has begun, in
\* this period or in the one before.
RowInForce ==
    LET begun == {k \in 1 .. Len(gateControlList) : gateControlList[k].time <= ticks}
    IN  IF begun = {} THEN Len(gateControlList) ELSE Max(begun)

InForce == gateControlList[RowInForce].open

Settled == ~ \E e \in Due : IsCurrent(e)

\* The gates always stand as the newest list says for this moment of the
\* period, whatever lists came before and when they were replaced; only an
\* event that is due right now may still be on its way (handleMessage of
\* IEEE8021QbvGateControlList and switchToFirstGateControlElement).
GatesFollowList == Settled => transmissionGate = InForce

\* Row k has a guard: all gates are closed before it for as long as a frame may take.
Guarded(k) ==
    LET before == PrecedingElement(gateControlList, k)
    IN  /\ gateControlList[before].open = {}
        /\ (gateControlList[k].time - gateControlList[before].time + cycle_ticks) % cycle_ticks
               >= FrameTicks

\* The selection never looks at what the wire will be doing when a gate closes,
\* so a list reserves a window by closing all gates before it, as the lists of
\* the example networks do.  Then no frame of a class without a gate in the
\* window is on the wire, once the list has been in force as long as a frame
\* takes (selectFrame, scheduleCurrentGateControlElementTime).
GuardedWindowIsFree ==
    Settled /\ Guarded(RowInForce) /\ sinceLoad = FrameTicks => sending \in InForce \cup {0}

\* When the MAC waits for a frame and one may go, the selection has been told
\* and looks again before time passes: a gate that opens and a frame that
\* arrives in any order with the MAC's request (receiveSignal, requestPacket).
NoEligibleFrameWaits == framesRequested > 0 /\ Eligible # {} => selfMessage

\* The list has a row that leaves the wire to class i for longer than a frame takes.
HasOwnWindow(i) ==
    \E k \in 1 .. Len(gateControlList) :
        LET row == gateControlList[k]
            until == gateControlList[NextElement(gateControlList, k)].time
        IN  /\ i \in row.open /\ \A j \in row.open : j <= i
            /\ until <= row.time => until + cycle_ticks - row.time > FrameTicks
            /\ until > row.time => until - row.time > FrameTicks

\* A class with a window to itself is served in it, wherever in the period its
\* list was put in force and whatever was on the wire then: its queue does not
\* stay full (handleMessage of IEEE8021QbvGateControlList, selectFrame).
EveryClassIsServed ==
    \A i \in Classes :
        queue[i] = MaxQueued /\ HasOwnWindow(i) ~> queue[i] < MaxQueued \/ ~HasOwnWindow(i)

=============================================================================
