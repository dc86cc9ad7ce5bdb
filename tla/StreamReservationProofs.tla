----------------------- MODULE StreamReservationProofs -----------------------
(* Reservations in a tree of any size, with any streams and sinks: nothing *)
(* is thrown, nothing is overbooked, every reservation leads to a sink and *)
(* has its rule.                                                           *)
EXTENDS StreamReservation, FiniteSetTheorems, WellFoundedInduction, TLAPS

-----------------------------------------------------------------------------
(* The way to the talker.                                                  *)
Up(st) == CHOOSE up \in [Nodes -> Nodes \cup {App}] : LeadsUp(st, up)

Above(st, n) == Up(st)[n]

LEMMA Names ==
    /\ \A st \in Streams : TalkerOf[st] \in Hosts /\ TalkerOf[st] \in Nodes
    /\ \A st \in Streams : SinksOf[st] \subseteq Hosts /\ TalkerOf[st] \notin SinksOf[st]
    /\ \A s \in Switches : s \in Nodes /\ s \notin Hosts
    /\ \A h \in Hosts : h \in Nodes
    /\ App \notin Nodes /\ NoModule \notin Nodes /\ App # NoModule
BY ReservationAssumption DEF Nodes

LEMMA PortsAreNodes ==
    /\ \A n \in Nodes : \A p \in Ports(n) : p \in Nodes /\ n \in Ports(p)
    /\ \A n \in Nodes : App \notin Ports(n) /\ NoModule \notin Ports(n)
<1>1. ASSUME NEW n \in Nodes, NEW p \in Ports(n)
      PROVE  p \in Nodes /\ n \in Ports(p)
  <2>1. {n, p} = {p, n}
      OBVIOUS
  <2> QED BY <1>1, <2>1 DEF Ports
<1> QED BY <1>1, Names DEF Ports

LEMMA WireEnds ==
    /\ \A w \in Wires : w[1] \in Nodes /\ w[2] \in Nodes /\ w[2] \in Ports(w[1])
                        /\ w[1] \in Ports(w[2]) /\ w = << w[1], w[2] >>
    /\ \A n \in Nodes : \A p \in Ports(n) : << n, p >> \in Wires /\ << p, n >> \in Wires
<1>1. \A w \in Wires : w[1] \in Nodes /\ w[2] \in Nodes /\ w[2] \in Ports(w[1])
                       /\ w = << w[1], w[2] >>
    BY DEF Wires
<1>2. \A n \in Nodes : \A p \in Ports(n) : << n, p >> \in Wires
    BY PortsAreNodes DEF Wires
<1> QED BY <1>1, <1>2, PortsAreNodes

(* A link leads up at one of its ends; only the talker is at the top.      *)
LEMMA TheWayUp ==
    ASSUME NEW st \in Streams
    PROVE  /\ \A n \in Nodes : Above(st, n) \in Ports(n) \cup {App} /\ Above(st, n) # NoModule
           /\ \A n \in Nodes : Above(st, n) = App <=> n = TalkerOf[st]
           /\ \A s \in Switches : Above(st, s) \in Ports(s)
           /\ \A a \in Nodes : \A b \in Ports(a) : Above(st, a) = b <=> Above(st, b) # a
<1>1. LeadsUp(st, Up(st))
    BY TreeAssumption DEF Up
<1>2. PICK up : up = Up(st)
    OBVIOUS
<1>3. \A n : Above(st, n) = up[n]
    BY <1>2 DEF Above
<1>4. /\ up[TalkerOf[st]] = App
      /\ \A n \in Nodes \ {TalkerOf[st]} : up[n] \in Ports(n)
      /\ \A a \in Nodes : \A b \in Ports(a) : up[a] = b <=> up[b] # a
    BY <1>1, <1>2 DEF LeadsUp
<1>5. \A n \in Nodes : n # TalkerOf[st] => up[n] \in Ports(n) /\ up[n] # App /\ up[n] # NoModule
    BY <1>4, PortsAreNodes
<1>6. \A s \in Switches : s \in Nodes /\ s # TalkerOf[st]
    BY Names
<1>7. \A n \in Nodes : Above(st, n) \in Ports(n) \cup {App} /\ Above(st, n) # NoModule
    BY <1>3, <1>4, <1>5, Names
<1>8. \A n \in Nodes : Above(st, n) = App <=> n = TalkerOf[st]
    BY <1>3, <1>4, <1>5
<1>9. \A s \in Switches : Above(st, s) \in Ports(s)
    BY <1>3, <1>4, <1>6
<1> QED BY <1>3, <1>4, <1>7, <1>8, <1>9

-----------------------------------------------------------------------------
(* Tables and frames.                                                      *)
Modules == Nodes \cup {App}
Entry == [talker : Modules \cup {NoModule}, listeners : SUBSET Modules]
Tables == [Nodes -> [Streams -> Entry]]
Frames == [id : {"TalkerAdvertise", "ListenerReady"}, stream : Streams]

(* Nobody who has a talker forgets it, and no listener is forgotten.       *)
Grows(T, U) ==
    \A n \in Nodes, st \in Streams :
        /\ T[n][st].talker # NoModule => U[n][st].talker = T[n][st].talker
        /\ T[n][st].listeners \subseteq U[n][st].listeners

(* The talker of an entry is above, and it was told by somebody who knows  *)
(* it; the listeners are below, and have a listener of their own; a sink   *)
(* listens at its own host only.                                           *)
TalkersAbove(T) ==
    \A n \in Nodes, st \in Streams : T[n][st].talker # NoModule =>
        /\ T[n][st].talker = Above(st, n)
        /\ T[n][st].talker \in Nodes => T[T[n][st].talker][st].talker # NoModule

ListenersBelow(T) ==
    \A n \in Nodes, st \in Streams : \A p \in T[n][st].listeners :
        /\ T[n][st].talker # NoModule
        /\ p = App => n \in SinksOf[st]
        /\ p # App => /\ p \in Ports(n) /\ T[p][st].talker = n /\ T[p][st].listeners # {}

(* A frame that comes to n through a port: an advertise from above, sent   *)
(* by somebody who knows the talker; a ready from below, sent by somebody  *)
(* with a listener.                                                        *)
Credible(T, frame, port, n) ==
    /\ frame \in Frames
    /\ port \in Ports(n)
    /\ frame.id = "TalkerAdvertise" =>
          /\ Above(frame.stream, n) = port
          /\ T[port][frame.stream].talker # NoModule
    /\ frame.id = "ListenerReady" =>
          /\ T[port][frame.stream].talker = n
          /\ T[port][frame.stream].listeners # {}

WiresCredible(T, wires) ==
    \A w \in Wires : \A i \in DOMAIN wires[w] : Credible(T, wires[w][i], w[1], w[2])

StreamsForAListener(T, streaming) ==
    \A st \in Streams : streaming[st] => T[TalkerOf[st]][st].listeners # {}

SrpTypes(T, wires, streaming) ==
    /\ T \in Tables
    /\ wires \in [Wires -> Seq(Frames)]
    /\ streaming \in [Streams -> BOOLEAN]

SrpInv(T, wires, streaming) ==
    /\ SrpTypes(T, wires, streaming)
    /\ TalkersAbove(T) /\ ListenersBelow(T)
    /\ WiresCredible(T, wires)
    /\ StreamsForAListener(T, streaming)

LEMMA FrameTypes ==
    ASSUME NEW st \in Streams, NEW id \in {"TalkerAdvertise", "ListenerReady"}
    PROVE  /\ Frame(id, st) \in Frames
           /\ Frame(id, st).id = id /\ Frame(id, st).stream = st
BY DEF Frame, Frames

(* What was credible remains so while tables grow.                         *)
LEMMA StaysCredible ==
    ASSUME NEW T, NEW U, Grows(T, U), NEW frame, NEW n \in Nodes, NEW port,
           Credible(T, frame, port, n)
    PROVE  Credible(U, frame, port, n)
<1>1. frame \in Frames /\ port \in Ports(n) /\ port \in Nodes /\ frame.stream \in Streams /\ n # NoModule
    BY PortsAreNodes, Names DEF Credible, Frames
<1>2. PICK st \in Streams : st = frame.stream
    BY <1>1
<1>3. /\ T[port][st].talker # NoModule => U[port][st].talker = T[port][st].talker
      /\ T[port][st].listeners \subseteq U[port][st].listeners
    BY <1>1 DEF Grows
<1> QED BY <1>1, <1>2, <1>3 DEF Credible

(* Frames that are sent out of a node.                                     *)
LEMMA SendKeeps ==
    ASSUME NEW T, NEW wires \in [Wires -> Seq(Frames)], WiresCredible(T, wires),
           NEW n \in Nodes, NEW frame \in Frames, NEW ports,
           \A p \in ports : p \in Ports(n) => Credible(T, frame, n, p)
    PROVE  /\ Send(wires, n, frame, ports) \in [Wires -> Seq(Frames)]
           /\ WiresCredible(T, Send(wires, n, frame, ports))
<1>1. PICK new : new = Send(wires, n, frame, ports)
    OBVIOUS
<1>2. ASSUME NEW w \in Wires
      PROVE  /\ new[w] \in Seq(Frames)
             /\ \A i \in DOMAIN new[w] : Credible(T, new[w][i], w[1], w[2])
  <2>1. PICK q \in Seq(Frames) : q = wires[w]
      OBVIOUS
  <2>2. \A i \in DOMAIN q : Credible(T, q[i], w[1], w[2])
      BY <2>1 DEF WiresCredible
  <2>3. CASE w[1] = n /\ w[2] \in ports
    <3>1. new[w] = Append(q, frame)
        BY <1>1, <2>1, <2>3 DEF Send
    <3>2. Credible(T, frame, w[1], w[2])
        BY <2>3, WireEnds
    <3>3. /\ Append(q, frame) \in Seq(Frames)
          /\ \A i \in DOMAIN Append(q, frame) :
                (i \in DOMAIN q /\ Append(q, frame)[i] = q[i]) \/ Append(q, frame)[i] = frame
        OBVIOUS
    <3> QED BY <2>2, <3>1, <3>2, <3>3
  <2>4. CASE ~ (w[1] = n /\ w[2] \in ports)
    <3>1. new[w] = q
        BY <1>1, <2>1, <2>4 DEF Send
    <3> QED BY <2>2, <3>1
  <2> QED BY <2>3, <2>4
<1>3. new = [w \in Wires |-> new[w]]
    BY <1>1 DEF Send
<1>4. new \in [Wires -> Seq(Frames)]
    BY <1>2, <1>3
<1> QED BY <1>1, <1>2, <1>4 DEF WiresCredible

-----------------------------------------------------------------------------
(* What the operations of a table do to it.                                *)
SameBut(T, U, n, st) ==
    \A m \in Nodes, s \in Streams : ~ (m = n /\ s = st) => U[m][s] = T[m][s]

LEMMA NewEntry ==
    ASSUME NEW T \in Tables, NEW n \in Nodes, NEW st \in Streams, NEW e \in Entry,
           NEW new, new = [T[n] EXCEPT ![st] = e], NEW U, U = [T EXCEPT ![n] = new]
    PROVE  /\ U \in Tables /\ U[n][st] = e
           /\ SameBut(T, U, n, st)
<1>1. PICK row \in [Streams -> Entry] : row = T[n]
    BY DEF Tables
<1>2. /\ new \in [Streams -> Entry] /\ new[st] = e
      /\ \A s \in Streams : s # st => new[s] = row[s]
    BY <1>1
<1>3. U \in Tables /\ U[n] = new /\ \A m \in Nodes : m # n => U[m] = T[m]
    BY <1>2 DEF Tables
<1> QED BY <1>1, <1>2, <1>3 DEF SameBut

LEMMA TalkerEntered ==
    ASSUME NEW T \in Tables, TalkersAbove(T), ListenersBelow(T),
           NEW n \in Nodes, NEW st \in Streams, NEW module, module = Above(st, n),
           T[n][st].talker = NoModule,
           module \in Nodes => T[module][st].talker # NoModule,
           NEW U \in Tables,
           U[n][st].talker = module,
           U[n][st].listeners = IF n \in SinksOf[st] THEN {App} ELSE {},
           SameBut(T, U, n, st)
    PROVE  Grows(T, U) /\ TalkersAbove(U) /\ ListenersBelow(U)
<1> USE DEF SameBut
<1>1. module # NoModule
    BY TheWayUp
<1>2. T[n][st].listeners = {}
    BY DEF ListenersBelow
<1>3. Grows(T, U)
  <2> SUFFICES ASSUME NEW m \in Nodes, NEW s \in Streams
               PROVE  /\ T[m][s].talker # NoModule => U[m][s].talker = T[m][s].talker
                      /\ T[m][s].listeners \subseteq U[m][s].listeners
      BY DEF Grows
  <2>1. CASE m = n /\ s = st
      BY <1>2, <2>1
  <2>2. CASE ~ (m = n /\ s = st)
      BY <2>2
  <2> QED BY <2>1, <2>2
<1>4. TalkersAbove(U)
  <2> SUFFICES ASSUME NEW m \in Nodes, NEW s \in Streams, U[m][s].talker # NoModule
               PROVE  /\ U[m][s].talker = Above(s, m)
                      /\ U[m][s].talker \in Nodes => U[U[m][s].talker][s].talker # NoModule
      BY DEF TalkersAbove
  <2>1. CASE m = n /\ s = st
      BY <1>3, <2>1 DEF Grows
  <2>2. CASE ~ (m = n /\ s = st)
    <3>1. PICK t : t = T[m][s].talker /\ t = U[m][s].talker
        BY <2>2
    <3>2. t = Above(s, m) /\ (t \in Nodes => T[t][s].talker # NoModule)
        BY <3>1 DEF TalkersAbove
    <3>3. t \in Nodes => U[t][s].talker # NoModule
        BY <1>3, <3>2 DEF Grows
    <3> QED BY <3>1, <3>2, <3>3
  <2> QED BY <2>1, <2>2
<1>5. ListenersBelow(U)
  <2> SUFFICES ASSUME NEW m \in Nodes, NEW s \in Streams, NEW p \in U[m][s].listeners
               PROVE  /\ U[m][s].talker # NoModule
                      /\ p = App => m \in SinksOf[s]
                      /\ p # App => /\ p \in Ports(m) /\ U[p][s].talker = m
                                    /\ U[p][s].listeners # {}
      BY DEF ListenersBelow
  <2>1. CASE m = n /\ s = st
      BY <1>1, <2>1
  <2>2. CASE ~ (m = n /\ s = st)
    <3>1. /\ U[m][s].talker # NoModule
          /\ p = App => m \in SinksOf[s]
          /\ p # App => p \in Ports(m) /\ T[p][s].talker = m /\ T[p][s].listeners # {}
        BY <2>2 DEF ListenersBelow
    <3>2. p # App => p \in Nodes /\ m # NoModule
        BY <3>1, PortsAreNodes, Names
    <3>3. p # App => U[p][s].talker = m /\ U[p][s].listeners # {}
        BY <1>3, <3>1, <3>2 DEF Grows
    <3> QED BY <3>1, <3>3
  <2> QED BY <2>1, <2>2
<1> QED BY <1>3, <1>4, <1>5

LEMMA ListenerEntered ==
    ASSUME NEW T \in Tables, TalkersAbove(T), ListenersBelow(T),
           NEW n \in Nodes, NEW st \in Streams, NEW module,
           T[n][st].talker # NoModule,
           module = App => n \in SinksOf[st],
           module # App => /\ module \in Ports(n) /\ T[module][st].talker = n
                           /\ T[module][st].listeners # {},
           NEW U \in Tables,
           U[n][st].talker = T[n][st].talker,
           U[n][st].listeners = T[n][st].listeners \cup {module},
           SameBut(T, U, n, st)
    PROVE  Grows(T, U) /\ TalkersAbove(U) /\ ListenersBelow(U)
<1> USE DEF SameBut
<1>1. \A m \in Nodes, s \in Streams : U[m][s].talker = T[m][s].talker
    OBVIOUS
<1>2. \A m \in Nodes, s \in Streams : T[m][s].listeners \subseteq U[m][s].listeners
    OBVIOUS
<1>3. Grows(T, U)
    BY <1>1, <1>2 DEF Grows
<1>4. TalkersAbove(U)
    BY <1>1 DEF TalkersAbove
<1>5. ListenersBelow(U)
  <2> SUFFICES ASSUME NEW m \in Nodes, NEW s \in Streams, NEW p \in U[m][s].listeners
               PROVE  /\ U[m][s].talker # NoModule
                      /\ p = App => m \in SinksOf[s]
                      /\ p # App => /\ p \in Ports(m) /\ U[p][s].talker = m
                                    /\ U[p][s].listeners # {}
      BY DEF ListenersBelow
  <2>1. p \in T[m][s].listeners \/ (m = n /\ s = st /\ p = module)
      OBVIOUS
  <2>2. /\ T[m][s].talker # NoModule
        /\ p = App => m \in SinksOf[s]
        /\ p # App => p \in Ports(m) /\ T[p][s].talker = m /\ T[p][s].listeners # {}
      BY <2>1 DEF ListenersBelow
  <2>3. p # App => p \in Nodes
      BY <2>2, PortsAreNodes
  <2> QED BY <1>1, <1>2, <2>2, <2>3
<1> QED BY <1>3, <1>4, <1>5

(* Tables that grow leave credible what is on the wires and the source     *)
(* with its listeners.                                                     *)
LEMMA WiresStayCredible ==
    ASSUME NEW T, NEW U, Grows(T, U), NEW wires, WiresCredible(T, wires)
    PROVE  WiresCredible(U, wires)
BY StaysCredible, WireEnds DEF WiresCredible

LEMMA StreamsStill ==
    ASSUME NEW T, NEW U, Grows(T, U), NEW streaming, StreamsForAListener(T, streaming)
    PROVE  StreamsForAListener(U, streaming)
BY Names DEF StreamsForAListener, Grows

-----------------------------------------------------------------------------
(* A new talker, or one that is known, from where the talker is.           *)
LEMMA TalkerUpdate ==
    ASSUME NEW wires, SrpInv(srpTable, wires, isStreaming), ~ aborted,
           NEW n \in Nodes, NEW st \in Streams, NEW module, module = Above(st, n),
           module \in Nodes => srpTable[module][st].talker # NoModule,
           updateTalkerWithStreamId(wires, n, st, module)
    PROVE  /\ SrpInv(srpTable', wire', isStreaming') /\ ~ aborted'
           /\ Grows(srpTable, srpTable')
           /\ \A m \in Nodes, s \in Streams : srpTable'[m][s].talker # NoModule =>
                 srpTable[m][s].talker # NoModule \/ (m = n /\ s = st)
           /\ \A m \in Nodes, s \in Streams :
                 srpTable'[m][s].listeners \subseteq srpTable[m][s].listeners \cup {App}
<1>1. /\ srpTable \in Tables /\ wires \in [Wires -> Seq(Frames)]
      /\ isStreaming \in [Streams -> BOOLEAN]
      /\ TalkersAbove(srpTable) /\ ListenersBelow(srpTable)
      /\ WiresCredible(srpTable, wires) /\ StreamsForAListener(srpTable, isStreaming)
    BY DEF SrpInv, SrpTypes
<1>2. module \in Ports(n) \cup {App} /\ module \in Modules /\ module # NoModule
    BY TheWayUp, PortsAreNodes DEF Modules
<1>3. CASE srpTable[n][st].talker = NoModule
  <2>1. PICK e : e = [talker |-> module, listeners |-> IF n \in SinksOf[st] THEN {App} ELSE {}]
      OBVIOUS
  <2>2. /\ e \in Entry /\ e.talker = module
        /\ e.listeners = IF n \in SinksOf[st] THEN {App} ELSE {}
      BY <1>2, <2>1 DEF Entry, Modules
  <2>3. PICK advertised : advertised = Send(wires, n, Frame("TalkerAdvertise", st), AdvertiseTo(n, module))
      OBVIOUS
  <2>4. /\ srpTable' = [srpTable EXCEPT ![n][st] = e]
        /\ wire' = IF n \in SinksOf[st]
                   THEN Send(advertised, n, Frame("ListenerReady", st), {module})
                   ELSE advertised
        /\ UNCHANGED << isStreaming, aborted >>
    <3>1. /\ srpTable' = [srpTable EXCEPT ![n][st] =
                [talker |-> module, listeners |-> IF n \in SinksOf[st] THEN {App} ELSE {}]]
          /\ wire' = IF n \in SinksOf[st]
                     THEN Send(Send(wires, n, Frame("TalkerAdvertise", st), AdvertiseTo(n, module)),
                               n, Frame("ListenerReady", st), {module})
                     ELSE Send(wires, n, Frame("TalkerAdvertise", st), AdvertiseTo(n, module))
          /\ UNCHANGED << isStreaming, aborted >>
        BY <1>2, <1>3, Zenon DEF updateTalkerWithStreamId
    <3> QED BY <2>1, <2>3, <3>1
  <2>5. /\ srpTable' \in Tables /\ srpTable'[n][st] = e
        /\ SameBut(srpTable, srpTable', n, st)
    <3>1. PICK new : new = [srpTable[n] EXCEPT ![st] = e] /\ srpTable' = [srpTable EXCEPT ![n] = new]
        BY <2>4
    <3>2. srpTable \in Tables /\ e \in Entry
        BY <1>1, <2>2
    <3>3. new[st] = e /\ srpTable'[n] = new
        BY <3>1, <3>2 DEF Tables
    <3>4. srpTable' \in Tables /\ SameBut(srpTable, srpTable', n, st)
        BY <3>1, <3>2, NewEntry
    <3> QED BY <3>3, <3>4
  <2>6. Grows(srpTable, srpTable') /\ TalkersAbove(srpTable') /\ ListenersBelow(srpTable')
    <3>1. /\ srpTable'[n][st].talker = module
          /\ srpTable'[n][st].listeners = IF n \in SinksOf[st] THEN {App} ELSE {}
        BY <2>2, <2>5
    <3>2. /\ srpTable \in Tables /\ TalkersAbove(srpTable) /\ ListenersBelow(srpTable)
          /\ srpTable' \in Tables
          /\ SameBut(srpTable, srpTable', n, st)
        BY <1>1, <2>5
    <3> QED BY <1>3, <3>1, <3>2, TalkerEntered
  <2>7. WiresCredible(srpTable', wires)
      BY <1>1, <2>6, WiresStayCredible
  <2>8. advertised \in [Wires -> Seq(Frames)] /\ WiresCredible(srpTable', advertised)
    <3>1. PICK frame \in Frames : /\ frame = Frame("TalkerAdvertise", st)
                                  /\ frame.id = "TalkerAdvertise" /\ frame.stream = st
        BY FrameTypes
    <3>2. ASSUME NEW p \in AdvertiseTo(n, module), p \in Ports(n)
          PROVE  Credible(srpTable', frame, n, p)
      <4>1. p \in Nodes /\ n \in Ports(p) /\ p # module
          BY <3>2, PortsAreNodes DEF AdvertiseTo
      <4>2. Above(st, p) = n
          BY <3>2, <4>1, TheWayUp
      <4>3. srpTable'[n][st].talker # NoModule
          BY <1>2, <2>2, <2>5
      <4> QED BY <3>1, <4>1, <4>2, <4>3 DEF Credible
    <3> QED BY <1>1, <2>3, <2>7, <3>1, <3>2, SendKeeps
  <2>9. wire' \in [Wires -> Seq(Frames)] /\ WiresCredible(srpTable', wire')
    <3>1. CASE n \notin SinksOf[st]
        BY <2>4, <2>8, <3>1
    <3>2. CASE n \in SinksOf[st]
      <4>1. PICK frame \in Frames : /\ frame = Frame("ListenerReady", st)
                                    /\ frame.id = "ListenerReady" /\ frame.stream = st
          BY FrameTypes
      <4>2. ASSUME NEW p \in {module}, p \in Ports(n)
            PROVE  Credible(srpTable', frame, n, p)
        <5>1. n \in Ports(p)
            BY <4>2, PortsAreNodes
        <5>2. srpTable'[n][st].talker = p /\ srpTable'[n][st].listeners # {}
            BY <2>2, <2>5, <3>2
        <5> QED BY <4>1, <5>1, <5>2 DEF Credible
      <4>3. wire' = Send(advertised, n, frame, {module})
          BY <2>4, <3>2, <4>1
      <4> QED BY <2>8, <4>2, <4>3, SendKeeps
    <3> QED BY <3>1, <3>2
  <2>10. StreamsForAListener(srpTable', isStreaming')
      BY <1>1, <2>4, <2>6, StreamsStill
  <2>11. SrpInv(srpTable', wire', isStreaming') /\ ~ aborted'
      BY <1>1, <2>4, <2>5, <2>6, <2>9, <2>10 DEF SrpInv, SrpTypes
  <2>12. \A m \in Nodes, s \in Streams :
           srpTable'[m][s].listeners \subseteq srpTable[m][s].listeners \cup {App}
    <3> SUFFICES ASSUME NEW m \in Nodes, NEW s \in Streams
                 PROVE  srpTable'[m][s].listeners \subseteq srpTable[m][s].listeners \cup {App}
        OBVIOUS
    <3>1. CASE m = n /\ s = st
        BY <2>2, <2>5, <3>1
    <3>2. CASE ~ (m = n /\ s = st)
        BY <2>5, <3>2 DEF SameBut
    <3> QED BY <3>1, <3>2
  <2>13. \A m \in Nodes, s \in Streams : srpTable'[m][s].talker # NoModule =>
            srpTable[m][s].talker # NoModule \/ (m = n /\ s = st)
      BY <2>5 DEF SameBut
  <2> QED BY <2>6, <2>11, <2>12, <2>13
<1>4. CASE srpTable[n][st].talker # NoModule
  <2>1. srpTable[n][st].talker = module
      BY <1>1, <1>4 DEF TalkersAbove
  <2>2. wire' = wires /\ UNCHANGED << srpTable, isStreaming, aborted >>
      BY <1>2, <2>1 DEF updateTalkerWithStreamId
  <2>3. Grows(srpTable, srpTable')
      BY <2>2 DEF Grows
  <2> QED BY <2>2, <2>3
<1> QED BY <1>3, <1>4

(* A listener for a talker that is known.                                  *)
LEMMA ListenerUpdate ==
    ASSUME NEW wires, SrpInv(srpTable, wires, isStreaming), ~ aborted,
           NEW n \in Nodes, NEW st \in Streams, NEW module,
           srpTable[n][st].talker # NoModule,
           module = App => n \in SinksOf[st],
           module # App => /\ module \in Ports(n) /\ srpTable[module][st].talker = n
                           /\ srpTable[module][st].listeners # {},
           updateListenerWithStreamId(wires, n, st, module)
    PROVE  /\ SrpInv(srpTable', wire', isStreaming') /\ ~ aborted'
           /\ Grows(srpTable, srpTable')
           /\ \A m \in Nodes, s \in Streams : srpTable'[m][s].talker = srpTable[m][s].talker
           /\ \A m \in Nodes, s \in Streams : \A p \in srpTable'[m][s].listeners :
                 p \in srpTable[m][s].listeners \/ (m = n /\ s = st /\ p = module)
<1>1. /\ srpTable \in Tables /\ wires \in [Wires -> Seq(Frames)]
      /\ isStreaming \in [Streams -> BOOLEAN]
      /\ TalkersAbove(srpTable) /\ ListenersBelow(srpTable)
      /\ WiresCredible(srpTable, wires) /\ StreamsForAListener(srpTable, isStreaming)
    BY DEF SrpInv, SrpTypes
<1>2. module \in Modules
    BY PortsAreNodes DEF Modules
<1>3. PICK frame \in Frames : /\ frame = Frame("ListenerReady", st)
                              /\ frame.id = "ListenerReady" /\ frame.stream = st
    BY FrameTypes
<1>4. /\ srpTable' = [srpTable EXCEPT ![n][st].listeners = @ \cup {module}]
      /\ wire' = Send(wires, n, frame, ReadyTo(n, st))
      /\ isStreaming' = [isStreaming EXCEPT ![st] =
             @ \/ (srpTable[n][st].talker = App /\ module \notin srpTable[n][st].listeners)]
      /\ UNCHANGED aborted
    BY <1>3 DEF updateListenerWithStreamId
<1>5. PICK e : e = [srpTable[n][st] EXCEPT !.listeners = @ \cup {module}]
    OBVIOUS
<1>6. /\ e \in Entry /\ e.talker = srpTable[n][st].talker
      /\ e.listeners = srpTable[n][st].listeners \cup {module}
  <2>1. PICK old \in Entry : old = srpTable[n][st]
      BY <1>1 DEF Tables
  <2> QED BY <1>2, <1>5, <2>1 DEF Entry
<1>7. PICK new : new = [srpTable[n] EXCEPT ![st] = e] /\ srpTable' = [srpTable EXCEPT ![n] = new]
    BY <1>4, <1>5
<1>8. new[st] = e /\ srpTable'[n] = new
    BY <1>1, <1>7 DEF Tables
<1>9. srpTable' \in Tables /\ SameBut(srpTable, srpTable', n, st)
    BY <1>1, <1>6, <1>7, NewEntry
<1>10. /\ srpTable'[n][st].talker = srpTable[n][st].talker
       /\ srpTable'[n][st].listeners = srpTable[n][st].listeners \cup {module}
    BY <1>6, <1>8
<1>11. Grows(srpTable, srpTable') /\ TalkersAbove(srpTable') /\ ListenersBelow(srpTable')
    BY <1>1, <1>9, <1>10, ListenerEntered
<1>12. WiresCredible(srpTable', wires)
    BY <1>1, <1>11, WiresStayCredible
<1>13. wire' \in [Wires -> Seq(Frames)] /\ WiresCredible(srpTable', wire')
  <2>1. ASSUME NEW p \in ReadyTo(n, st), p \in Ports(n)
        PROVE  Credible(srpTable', frame, n, p)
    <3>1. n \in Ports(p) /\ srpTable'[n][st].talker = p
        BY <1>10, <2>1, PortsAreNodes DEF ReadyTo
    <3>2. srpTable'[n][st].listeners # {}
        BY <1>10
    <3> QED BY <1>3, <3>1, <3>2 DEF Credible
  <2> QED BY <1>1, <1>4, <1>12, <2>1, SendKeeps
<1>14. isStreaming' \in [Streams -> BOOLEAN] /\ StreamsForAListener(srpTable', isStreaming')
  <2>1. isStreaming' \in [Streams -> BOOLEAN]
      BY <1>1, <1>4
  <2>2. ASSUME NEW s \in Streams, isStreaming'[s]
        PROVE  srpTable'[TalkerOf[s]][s].listeners # {}
    <3>1. CASE isStreaming[s]
      <4>1. StreamsForAListener(srpTable', isStreaming)
          BY <1>1, <1>11, StreamsStill
      <4> QED BY <3>1, <4>1 DEF StreamsForAListener
    <3>2. CASE ~ isStreaming[s]
      <4>1. s = st /\ srpTable[n][st].talker = App
          BY <1>1, <1>4, <2>2, <3>2
      <4>2. n = TalkerOf[st]
          BY <1>1, <4>1, TheWayUp, Names DEF TalkersAbove
      <4> QED BY <1>10, <4>1, <4>2
    <3> QED BY <3>1, <3>2
  <2> QED BY <2>1, <2>2 DEF StreamsForAListener
<1>15. SrpInv(srpTable', wire', isStreaming') /\ ~ aborted'
    BY <1>4, <1>9, <1>11, <1>13, <1>14 DEF SrpInv, SrpTypes
<1>16. ASSUME NEW m \in Nodes, NEW s \in Streams
       PROVE  /\ srpTable'[m][s].talker = srpTable[m][s].talker
              /\ \A p \in srpTable'[m][s].listeners :
                    p \in srpTable[m][s].listeners \/ (m = n /\ s = st /\ p = module)
  <2>1. CASE m = n /\ s = st
      BY <1>10, <2>1
  <2>2. CASE ~ (m = n /\ s = st)
      BY <1>9, <2>2 DEF SameBut
  <2> QED BY <2>1, <2>2
<1> QED BY <1>11, <1>15, <1>16

(* A frame that is credible is handled without an exception.  Only a port  *)
(* that has the bandwidth, and the application, become listeners.          *)
OnlyAdds(T, U, n, frame, port) ==
    \A m \in Nodes, s \in Streams :
        /\ U[m][s].talker # NoModule =>
              T[m][s].talker # NoModule \/ (m = n /\ s = frame.stream)
        /\ \A p \in U[m][s].listeners :
              \/ p \in T[m][s].listeners \/ p = App
              \/ /\ m = n /\ s = frame.stream /\ p = port
                 /\ frame.id = "ListenerReady" /\ Fits(n, s, port)

LEMMA FrameHandled ==
    ASSUME NEW wires, SrpInv(srpTable, wires, isStreaming), ~ aborted,
           NEW n \in Nodes, NEW frame, NEW port, Credible(srpTable, frame, port, n),
           SRProtocol(wires, n, frame, port)
    PROVE  /\ SrpInv(srpTable', wire', isStreaming') /\ ~ aborted'
           /\ Grows(srpTable, srpTable')
           /\ OnlyAdds(srpTable, srpTable', n, frame, port)
<1>1. /\ frame \in Frames /\ port \in Ports(n) /\ port \in Nodes /\ port # App
      /\ frame.id \in {"TalkerAdvertise", "ListenerReady"}
    BY PortsAreNodes DEF Credible, Frames
<1>2. PICK st \in Streams : st = frame.stream
    BY <1>1 DEF Frames
<1>3. CASE frame.id = "TalkerAdvertise"
  <2>1. port = Above(st, n) /\ srpTable[port][st].talker # NoModule
      BY <1>2, <1>3 DEF Credible
  <2>2. updateTalkerWithStreamId(wires, n, st, port)
      BY <1>2, <1>3 DEF SRProtocol
  <2>3. /\ SrpInv(srpTable', wire', isStreaming') /\ ~ aborted'
        /\ Grows(srpTable, srpTable')
        /\ \A m \in Nodes, s \in Streams : srpTable'[m][s].talker # NoModule =>
              srpTable[m][s].talker # NoModule \/ (m = n /\ s = st)
        /\ \A m \in Nodes, s \in Streams :
              srpTable'[m][s].listeners \subseteq srpTable[m][s].listeners \cup {App}
      BY <2>1, <2>2, TalkerUpdate
  <2> QED BY <1>2, <2>3 DEF OnlyAdds
<1>4. CASE frame.id = "ListenerReady"
  <2>1. srpTable[port][st].talker = n /\ srpTable[port][st].listeners # {} /\ n # NoModule
      BY <1>2, <1>4, Names DEF Credible
  <2>2. srpTable[n][st].talker # NoModule
      BY <1>1, <2>1 DEF SrpInv, TalkersAbove
  <2>3. IF Reserved(n, st, port) \/ Fits(n, st, port)
        THEN updateListenerWithStreamId(wires, n, st, port)
        ELSE wire' = wires /\ UNCHANGED << srpTable, isStreaming, aborted >>
      BY <1>2, <1>4, <2>2, Zenon DEF SRProtocol
  <2>4. CASE updateListenerWithStreamId(wires, n, st, port) /\ (Reserved(n, st, port) \/ Fits(n, st, port))
    <3>1. /\ SrpInv(srpTable', wire', isStreaming') /\ ~ aborted'
          /\ Grows(srpTable, srpTable')
          /\ \A m \in Nodes, s \in Streams : srpTable'[m][s].talker = srpTable[m][s].talker
          /\ \A m \in Nodes, s \in Streams : \A p \in srpTable'[m][s].listeners :
                p \in srpTable[m][s].listeners \/ (m = n /\ s = st /\ p = port)
        BY <1>1, <2>1, <2>2, <2>4, ListenerUpdate
    <3>2. Reserved(n, st, port) => port \in srpTable[n][st].listeners
        BY DEF Reserved
    <3> QED BY <1>2, <1>4, <2>4, <3>1, <3>2 DEF OnlyAdds
  <2>5. CASE wire' = wires /\ UNCHANGED << srpTable, isStreaming, aborted >>
      BY <2>5 DEF Grows, OnlyAdds
  <2> QED BY <2>3, <2>4, <2>5
<1> QED BY <1>1, <1>3, <1>4

(* A frame is taken from its wire.                                         *)
LEMMA FrameTaken ==
    ASSUME SrpInv(srpTable, wire, isStreaming), NEW w \in Wires, wire[w] # << >>
    PROVE  /\ SrpInv(srpTable, Taken(w), isStreaming)
           /\ Credible(srpTable, Head(wire[w]), w[1], w[2])
<1>1. PICK new : new = Taken(w)
    OBVIOUS
<1>2. PICK q \in Seq(Frames) : q = wire[w] /\ q # << >>
    BY DEF SrpInv, SrpTypes
<1>3. /\ Tail(q) \in Seq(Frames) /\ 1 \in DOMAIN q /\ Head(q) = q[1]
      /\ \A i \in DOMAIN Tail(q) : i + 1 \in DOMAIN q /\ Tail(q)[i] = q[i + 1]
    BY <1>2
<1>4. /\ new \in [Wires -> Seq(Frames)] /\ new[w] = Tail(q)
      /\ \A v \in Wires : v # w => new[v] = wire[v]
    BY <1>1, <1>2, <1>3 DEF Taken, SrpInv, SrpTypes
<1>5. WiresCredible(srpTable, wire)
    BY DEF SrpInv
<1>6. WiresCredible(srpTable, new)
  <2> SUFFICES ASSUME NEW v \in Wires, NEW i \in DOMAIN new[v]
               PROVE  Credible(srpTable, new[v][i], v[1], v[2])
      BY DEF WiresCredible
  <2>1. CASE v = w
    <3>1. i + 1 \in DOMAIN wire[w] /\ new[v][i] = wire[w][i + 1]
        BY <1>2, <1>3, <1>4, <2>1
    <3> QED BY <1>5, <2>1, <3>1 DEF WiresCredible
  <2>2. CASE v # w
      BY <1>4, <1>5, <2>2 DEF WiresCredible
  <2> QED BY <2>1, <2>2
<1>7. Credible(srpTable, Head(wire[w]), w[1], w[2])
    BY <1>2, <1>3, <1>5 DEF WiresCredible
<1> QED BY <1>1, <1>4, <1>6, <1>7 DEF SrpInv, SrpTypes

-----------------------------------------------------------------------------
(* The controller and its switches.                                        *)
Rules == [flow : Streams, inport : Nodes, outport : SUBSET Nodes, tag : {0}]
RulesOf(s) == [flow : Streams, inport : Ports(s), outport : SUBSET Ports(s), tag : {0}]
PacketIns == [frame : Frames, port : Nodes]
AgentMessages == [id : {"VENDOR"}, frame : Frames, port : Nodes] \cup [id : {"FlowMod"}, entry : Rules]
ManagerEntry == [talker : Nodes \cup {NoModule}, listeners : SUBSET Nodes]
Managers == [Switches -> [Streams -> ManagerEntry]]

ControlTypes(M, P, Q, E) ==
    /\ M \in Managers
    /\ P \in [Switches -> Seq(PacketIns)]
    /\ Q \in [Switches -> Seq(AgentMessages)]
    /\ E \in [Switches -> Seq(Rules)]

(* The controller knows every talker a switch knows, and where it is.      *)
KnowsTalkers(T, M) ==
    \A s \in Switches, st \in Streams :
        /\ M[s][st].talker \in {NoModule, Above(st, s)}
        /\ M[s][st].listeners \subseteq Ports(s)
        /\ T[s][st].talker # NoModule => M[s][st].talker # NoModule

RequestsCredible(T, P) ==
    \A s \in Switches : \A i \in DOMAIN P[s] : Credible(T, P[s][i].frame, P[s][i].port, s)

Answered(T, M, s, m) ==
    IF m.id = "FlowMod" THEN m.entry \in RulesOf(s)
    ELSE Credible(T, m.frame, m.port, s) /\ M[s][m.frame.stream].talker # NoModule

AnswersCredible(T, M, Q) ==
    \A s \in Switches : \A i \in DOMAIN Q[s] : Answered(T, M, s, Q[s][i])

RulesFit(E) ==
    \A s \in Switches : \A i \in DOMAIN E[s] : E[s][i] \in RulesOf(s)

ControlInv(T, M, P, Q, E) ==
    /\ ControlTypes(M, P, Q, E)
    /\ KnowsTalkers(T, M)
    /\ RequestsCredible(T, P)
    /\ AnswersCredible(T, M, Q)
    /\ RulesFit(E)

ReservationInv ==
    /\ SrpInv(srpTable, wire, isStreaming)
    /\ ControlInv(srpTable, srpManager, packetIns, toSwitch, entries)
    /\ ~ aborted

LEMMA ReservationInit == Init => ReservationInv
<1> SUFFICES ASSUME Init PROVE ReservationInv
    OBVIOUS
<1>1. PICK none : none = [talker |-> NoModule, listeners |-> {}]
    OBVIOUS
<1>2. none \in Entry /\ none \in ManagerEntry /\ none.talker = NoModule /\ none.listeners = {}
    BY <1>1 DEF Entry, ManagerEntry
<1>3. /\ srpTable = [n \in Nodes |-> [st \in Streams |-> none]]
      /\ srpManager = [s \in Switches |-> [st \in Streams |-> none]]
      /\ entries = [s \in Switches |-> << >>] /\ wire = [w \in Wires |-> << >>]
      /\ packetIns = [s \in Switches |-> << >>] /\ toSwitch = [s \in Switches |-> << >>]
      /\ isStreaming = [st \in Streams |-> FALSE] /\ aborted = FALSE
    BY <1>1 DEF Init
<1>4. /\ << >> \in Seq(Frames) /\ << >> \in Seq(PacketIns) /\ << >> \in Seq(AgentMessages)
      /\ << >> \in Seq(Rules) /\ DOMAIN << >> = {}
    OBVIOUS
<1>5. SrpTypes(srpTable, wire, isStreaming)
    BY <1>2, <1>3, <1>4 DEF SrpTypes, Tables
<1>6. \A n \in Nodes, st \in Streams : srpTable[n][st].talker = NoModule /\ srpTable[n][st].listeners = {}
    BY <1>2, <1>3
<1>7. TalkersAbove(srpTable) /\ ListenersBelow(srpTable)
    BY <1>6 DEF TalkersAbove, ListenersBelow
<1>8. WiresCredible(srpTable, wire) /\ StreamsForAListener(srpTable, isStreaming)
    BY <1>3, <1>4 DEF WiresCredible, StreamsForAListener
<1>9. ControlTypes(srpManager, packetIns, toSwitch, entries)
    BY <1>2, <1>3, <1>4 DEF ControlTypes, Managers
<1>10. \A s \in Switches, st \in Streams : /\ srpManager[s][st].talker = NoModule
                                           /\ srpManager[s][st].listeners = {}
    BY <1>2, <1>3
<1>11. KnowsTalkers(srpTable, srpManager)
    BY <1>6, <1>10, Names DEF KnowsTalkers
<1>12. /\ RequestsCredible(srpTable, packetIns) /\ AnswersCredible(srpTable, srpManager, toSwitch)
       /\ RulesFit(entries)
    BY <1>3, <1>4 DEF RequestsCredible, AnswersCredible, RulesFit
<1> QED BY <1>3, <1>5, <1>7, <1>8, <1>9, <1>11, <1>12 DEF ReservationInv, SrpInv, ControlInv

(* Queues of messages, one for each switch.                                *)
LEMMA QueueAppend ==
    ASSUME NEW S, NEW queues \in [Switches -> Seq(S)], NEW s \in Switches, NEW x \in S,
           NEW new, new = [queues EXCEPT ![s] = Append(@, x)]
    PROVE  /\ new \in [Switches -> Seq(S)]
           /\ \A t \in Switches : \A i \in DOMAIN new[t] :
                 (i \in DOMAIN queues[t] /\ new[t][i] = queues[t][i]) \/ (t = s /\ new[t][i] = x)
<1>1. PICK q \in Seq(S) : q = queues[s]
    OBVIOUS
<1>2. /\ Append(q, x) \in Seq(S)
      /\ \A i \in DOMAIN Append(q, x) :
            (i \in DOMAIN q /\ Append(q, x)[i] = q[i]) \/ Append(q, x)[i] = x
    OBVIOUS
<1>3. new \in [Switches -> Seq(S)] /\ new[s] = Append(q, x)
      /\ \A t \in Switches : t # s => new[t] = queues[t]
    BY <1>1, <1>2
<1> QED BY <1>1, <1>2, <1>3

LEMMA QueueTail ==
    ASSUME NEW S, NEW queues \in [Switches -> Seq(S)], NEW s \in Switches, queues[s] # << >>,
           NEW new, new = [queues EXCEPT ![s] = Tail(@)]
    PROVE  /\ new \in [Switches -> Seq(S)]
           /\ Head(queues[s]) \in S /\ 1 \in DOMAIN queues[s] /\ Head(queues[s]) = queues[s][1]
           /\ \A i \in DOMAIN new[s] : i \in Nat /\ i + 1 \in DOMAIN queues[s]
                                       /\ new[s][i] = queues[s][i + 1]
           /\ \A t \in Switches : t # s => new[t] = queues[t]
<1>1. PICK q \in Seq(S) : q = queues[s] /\ q # << >>
    OBVIOUS
<1>2. /\ Tail(q) \in Seq(S) /\ Head(q) \in S /\ 1 \in DOMAIN q /\ Head(q) = q[1]
      /\ \A i \in DOMAIN Tail(q) : i \in Nat /\ i + 1 \in DOMAIN q /\ Tail(q)[i] = q[i + 1]
    BY <1>1
<1>3. new \in [Switches -> Seq(S)] /\ new[s] = Tail(q)
      /\ \A t \in Switches : t # s => new[t] = queues[t]
    BY <1>1, <1>2
<1> QED BY <1>1, <1>2, <1>3

LEMMA QueueConcat ==
    ASSUME NEW S, NEW queues \in [Switches -> Seq(S)], NEW s \in Switches, NEW batch \in Seq(S),
           NEW new, new = [queues EXCEPT ![s] = @ \o batch]
    PROVE  /\ new \in [Switches -> Seq(S)]
           /\ \A t \in Switches : t # s => new[t] = queues[t]
           /\ Len(queues[s]) \in Nat /\ DOMAIN queues[s] = 1 .. Len(queues[s])
           /\ DOMAIN new[s] = 1 .. Len(queues[s]) + Len(batch)
           /\ \A i \in DOMAIN queues[s] : new[s][i] = queues[s][i]
           /\ \A j \in DOMAIN batch : new[s][Len(queues[s]) + j] = batch[j]
           /\ \A i \in DOMAIN new[s] : i \in DOMAIN queues[s] \/ i - Len(queues[s]) \in DOMAIN batch
<1>1. PICK q \in Seq(S) : q = queues[s]
    OBVIOUS
<1>2. /\ q \o batch \in Seq(S)
      /\ Len(q) \in Nat /\ DOMAIN q = 1 .. Len(q) /\ Len(batch) \in Nat
      /\ DOMAIN (q \o batch) = 1 .. Len(q) + Len(batch)
      /\ \A i \in DOMAIN q : (q \o batch)[i] = q[i]
      /\ \A j \in DOMAIN batch : (q \o batch)[Len(q) + j] = batch[j]
      /\ \A i \in DOMAIN (q \o batch) : i \in DOMAIN q \/ i - Len(q) \in DOMAIN batch
    OBVIOUS
<1>3. new \in [Switches -> Seq(S)] /\ new[s] = q \o batch
      /\ \A t \in Switches : t # s => new[t] = queues[t]
    BY <1>1, <1>2
<1> QED BY <1>1, <1>2, <1>3

(* Tables that grow, by talkers the controller knows, leave credible what  *)
(* controller and switches tell each other.                                *)
LEMMA ControlStays ==
    ASSUME NEW T, NEW U, NEW M, NEW P, NEW Q, NEW E, ControlInv(T, M, P, Q, E), Grows(T, U),
           \A s \in Switches, st \in Streams : U[s][st].talker # NoModule =>
              T[s][st].talker # NoModule \/ M[s][st].talker # NoModule
    PROVE  ControlInv(U, M, P, Q, E)
<1>1. KnowsTalkers(U, M)
    BY DEF ControlInv, KnowsTalkers
<1>2. RequestsCredible(U, P)
    BY StaysCredible, Names DEF ControlInv, RequestsCredible
<1>3. AnswersCredible(U, M, Q)
  <2> SUFFICES ASSUME NEW s \in Switches, NEW i \in DOMAIN Q[s]
               PROVE  Answered(U, M, s, Q[s][i])
      BY DEF AnswersCredible
  <2>1. Answered(T, M, s, Q[s][i])
      BY DEF ControlInv, AnswersCredible
  <2>2. Credible(T, Q[s][i].frame, Q[s][i].port, s) => Credible(U, Q[s][i].frame, Q[s][i].port, s)
      BY StaysCredible, Names
  <2> QED BY <2>1, <2>2 DEF Answered
<1> QED BY <1>1, <1>2, <1>3 DEF ControlInv

-----------------------------------------------------------------------------
(* The invariant, operation by operation.                                  *)
LEMMA StartKeeps ==
    ASSUME ReservationInv, NEW st \in Streams, StartTalker(st)
    PROVE  /\ ReservationInv'
           /\ Grows(srpTable, srpTable')
           /\ \A m \in Nodes, s \in Streams :
                 srpTable'[m][s].listeners \subseteq srpTable[m][s].listeners \cup {App}
           /\ UNCHANGED << controlVars, entries >>
<1>1. PICK n \in Nodes : n = TalkerOf[st] /\ n \notin Switches
    BY Names
<1>2. updateTalkerWithStreamId(wire, n, st, App) /\ UNCHANGED << controlVars, entries >>
    BY <1>1 DEF StartTalker
<1>3. App = Above(st, n) /\ App \notin Nodes
    BY <1>1, TheWayUp, Names
<1>4. /\ SrpInv(srpTable', wire', isStreaming') /\ ~ aborted'
      /\ Grows(srpTable, srpTable')
      /\ \A m \in Nodes, s \in Streams : srpTable'[m][s].talker # NoModule =>
            srpTable[m][s].talker # NoModule \/ (m = n /\ s = st)
      /\ \A m \in Nodes, s \in Streams :
            srpTable'[m][s].listeners \subseteq srpTable[m][s].listeners \cup {App}
    BY <1>2, <1>3, TalkerUpdate DEF ReservationInv
<1>5. ControlInv(srpTable', srpManager, packetIns, toSwitch, entries)
    BY <1>1, <1>4, Names, ControlStays DEF ReservationInv
<1> QED BY <1>2, <1>4, <1>5 DEF ReservationInv, controlVars

LEMMA RenewKeeps ==
    ASSUME ReservationInv, NEW h \in Hosts, NEW st \in Streams, UpdateSubscription(h, st)
    PROVE  /\ ReservationInv'
           /\ Grows(srpTable, srpTable')
           /\ \A m \in Nodes, s \in Streams :
                 srpTable'[m][s].listeners \subseteq srpTable[m][s].listeners \cup {App}
           /\ UNCHANGED << controlVars, entries >>
<1>1. /\ App \in srpTable[h][st].listeners /\ h \in Nodes
      /\ updateListenerWithStreamId(wire, h, st, App)
      /\ UNCHANGED << controlVars, entries >>
    BY Names DEF UpdateSubscription
<1>2. srpTable[h][st].talker # NoModule /\ h \in SinksOf[st]
    BY <1>1 DEF ReservationInv, SrpInv, ListenersBelow
<1>3. /\ SrpInv(srpTable', wire', isStreaming') /\ ~ aborted'
      /\ Grows(srpTable, srpTable')
      /\ \A m \in Nodes, s \in Streams : srpTable'[m][s].talker = srpTable[m][s].talker
      /\ \A m \in Nodes, s \in Streams : \A p \in srpTable'[m][s].listeners :
            p \in srpTable[m][s].listeners \/ (m = h /\ s = st /\ p = App)
    BY <1>1, <1>2, ListenerUpdate DEF ReservationInv
<1>4. ControlInv(srpTable', srpManager, packetIns, toSwitch, entries)
    BY <1>3, Names, ControlStays DEF ReservationInv
<1> QED BY <1>1, <1>3, <1>4 DEF ReservationInv, controlVars

LEMMA ReceiveKeeps ==
    ASSUME ReservationInv, NEW h \in Hosts, NEW port \in Ports(h), ReceiveAtHost(h, port)
    PROVE  /\ ReservationInv'
           /\ Grows(srpTable, srpTable')
           /\ OnlyAdds(srpTable, srpTable', h, Head(wire[<< port, h >>]), port)
           /\ UNCHANGED << controlVars, entries >>
<1>1. PICK w \in Wires : w = << port, h >> /\ w[1] = port /\ w[2] = h
    BY WireEnds, Names
<1>2. PICK frame : frame = Head(wire[w])
    OBVIOUS
<1>3. /\ wire[w] # << >> /\ h \in Nodes /\ h \notin Switches
      /\ SRProtocol(Taken(w), h, frame, port)
      /\ UNCHANGED << controlVars, entries >>
    BY <1>1, <1>2, Names DEF ReceiveAtHost
<1>4. SrpInv(srpTable, Taken(w), isStreaming) /\ Credible(srpTable, frame, port, h)
    BY <1>1, <1>2, <1>3, FrameTaken DEF ReservationInv
<1>5. /\ SrpInv(srpTable', wire', isStreaming') /\ ~ aborted'
      /\ Grows(srpTable, srpTable')
      /\ OnlyAdds(srpTable, srpTable', h, frame, port)
    BY <1>3, <1>4, FrameHandled DEF ReservationInv
<1>6. \A s \in Switches, st \in Streams : srpTable'[s][st].talker # NoModule =>
         srpTable[s][st].talker # NoModule
    BY <1>3, <1>5, Names DEF OnlyAdds
<1>7. ControlInv(srpTable', srpManager, packetIns, toSwitch, entries)
    BY <1>5, <1>6, ControlStays DEF ReservationInv
<1> QED BY <1>1, <1>2, <1>3, <1>5, <1>7 DEF ReservationInv, controlVars

LEMMA ForwardKeeps ==
    ASSUME ReservationInv, NEW s \in Switches, NEW port \in Ports(s), ForwardSRPToController(s, port)
    PROVE  ReservationInv' /\ UNCHANGED << srpTable, toSwitch, entries >>
<1>1. PICK w \in Wires : w = << port, s >> /\ w[1] = port /\ w[2] = s
    BY WireEnds, Names
<1>2. PICK x : x = [frame |-> Head(wire[w]), port |-> port]
    OBVIOUS
<1>3. /\ wire[w] # << >> /\ ~ aborted
      /\ wire' = Taken(w)
      /\ packetIns' = [packetIns EXCEPT ![s] = Append(@, x)]
      /\ UNCHANGED << srpTable, isStreaming, aborted, srpManager, toSwitch, entries >>
    BY <1>1, <1>2 DEF ForwardSRPToController
<1>4. SrpInv(srpTable, Taken(w), isStreaming) /\ Credible(srpTable, x.frame, x.port, s)
    BY <1>1, <1>2, <1>3, FrameTaken DEF ReservationInv
<1>5. x \in PacketIns
    BY <1>2, <1>4, PortsAreNodes, Names DEF PacketIns, Credible
<1>6. /\ packetIns' \in [Switches -> Seq(PacketIns)]
      /\ \A t \in Switches : \A i \in DOMAIN packetIns'[t] :
            (i \in DOMAIN packetIns[t] /\ packetIns'[t][i] = packetIns[t][i])
            \/ (t = s /\ packetIns'[t][i] = x)
    BY <1>3, <1>5, QueueAppend DEF ReservationInv, ControlInv, ControlTypes
<1>7. RequestsCredible(srpTable, packetIns')
    BY <1>4, <1>6 DEF ReservationInv, ControlInv, RequestsCredible
<1>8. ControlInv(srpTable, srpManager, packetIns', toSwitch, entries)
    BY <1>6, <1>7 DEF ReservationInv, ControlInv, ControlTypes
<1> QED BY <1>3, <1>4, <1>8 DEF ReservationInv

(* A credible frame back from the controller: the agent's next message.    *)
LEMMA AgentTakes ==
    ASSUME ReservationInv, NEW s \in Switches, toSwitch[s] # << >>,
           NEW new, new = [toSwitch EXCEPT ![s] = Tail(@)]
    PROVE  /\ ControlInv(srpTable, srpManager, packetIns, new, entries)
           /\ Head(toSwitch[s]) \in AgentMessages
           /\ Answered(srpTable, srpManager, s, Head(toSwitch[s]))
<1>1. /\ toSwitch \in [Switches -> Seq(AgentMessages)]
      /\ AnswersCredible(srpTable, srpManager, toSwitch)
    BY DEF ReservationInv, ControlInv, ControlTypes
<1>2. /\ new \in [Switches -> Seq(AgentMessages)]
      /\ Head(toSwitch[s]) \in AgentMessages
      /\ 1 \in DOMAIN toSwitch[s] /\ Head(toSwitch[s]) = toSwitch[s][1]
      /\ \A i \in DOMAIN new[s] : i + 1 \in DOMAIN toSwitch[s] /\ new[s][i] = toSwitch[s][i + 1]
      /\ \A t \in Switches : t # s => new[t] = toSwitch[t]
    BY <1>1, QueueTail
<1>3. AnswersCredible(srpTable, srpManager, new)
  <2> SUFFICES ASSUME NEW t \in Switches, NEW i \in DOMAIN new[t]
               PROVE  Answered(srpTable, srpManager, t, new[t][i])
      BY DEF AnswersCredible
  <2>1. CASE t = s
      BY <1>1, <1>2, <2>1 DEF AnswersCredible
  <2>2. CASE t # s
      BY <1>1, <1>2, <2>2 DEF AnswersCredible
  <2> QED BY <2>1, <2>2
<1>4. Answered(srpTable, srpManager, s, Head(toSwitch[s]))
    BY <1>1, <1>2 DEF AnswersCredible
<1>5. ControlInv(srpTable, srpManager, packetIns, new, entries)
    BY <1>2, <1>3 DEF ReservationInv, ControlInv, ControlTypes
<1> QED BY <1>2, <1>4, <1>5

LEMMA AgentHandlesKeeps ==
    ASSUME ReservationInv, NEW s \in Switches, handleSRPFromController(s)
    PROVE  /\ ReservationInv'
           /\ Grows(srpTable, srpTable')
           /\ OnlyAdds(srpTable, srpTable', s, Head(toSwitch[s]).frame, Head(toSwitch[s]).port)
           /\ UNCHANGED << srpManager, entries >>
<1>1. PICK m : m = Head(toSwitch[s])
    OBVIOUS
<1>2. /\ toSwitch[s] # << >> /\ m.id = "VENDOR" /\ s \in Nodes
      /\ toSwitch' = [toSwitch EXCEPT ![s] = Tail(@)]
      /\ SRProtocol(wire, s, m.frame, m.port)
      /\ UNCHANGED << srpManager, packetIns, entries >>
    BY <1>1, Names DEF handleSRPFromController
<1>3. /\ ControlInv(srpTable, srpManager, packetIns, toSwitch', entries)
      /\ Answered(srpTable, srpManager, s, m)
    BY <1>1, <1>2, AgentTakes
<1>4. /\ Credible(srpTable, m.frame, m.port, s)
      /\ srpManager[s][m.frame.stream].talker # NoModule
    BY <1>2, <1>3 DEF Answered
<1>5. /\ SrpInv(srpTable', wire', isStreaming') /\ ~ aborted'
      /\ Grows(srpTable, srpTable')
      /\ OnlyAdds(srpTable, srpTable', s, m.frame, m.port)
    BY <1>2, <1>4, FrameHandled DEF ReservationInv
<1>6. \A t \in Switches, st \in Streams : srpTable'[t][st].talker # NoModule =>
         srpTable[t][st].talker # NoModule \/ srpManager[t][st].talker # NoModule
    BY <1>4, <1>5, Names DEF OnlyAdds
<1>7. ControlInv(srpTable', srpManager, packetIns, toSwitch', entries)
    BY <1>3, <1>5, <1>6, ControlStays
<1> QED BY <1>1, <1>2, <1>5, <1>7 DEF ReservationInv

(* The controller's table with one entry changed, and one in which no      *)
(* talker is forgotten.                                                    *)
SameManagerBut(M, M2, s, st) ==
    \A t \in Switches, u \in Streams : ~ (t = s /\ u = st) => M2[t][u] = M[t][u]

Remembers(M, M2) ==
    \A t \in Switches, u \in Streams : M[t][u].talker # NoModule => M2[t][u].talker # NoModule

(* What the controller answers to a frame whose talker it has entered.     *)
AnswerRule(st, e) == [id |-> "FlowMod", entry |-> Rule(st, e.talker, e.listeners)]
AnswerBack(frame, port) == [id |-> "VENDOR", frame |-> frame, port |-> port]

LEMMA AnswerOf ==
    ASSUME NEW M, NEW s, NEW frame, NEW port, NEW e, e = M[s][frame.stream], e.talker # NoModule
    PROVE  Answer(s, frame, port, M) =
              IF frame.id = "ListenerReady"
              THEN << AnswerRule(frame.stream, e), AnswerBack(frame, port) >>
              ELSE << AnswerBack(frame, port) >>
BY DEF Answer, AnswerRule, AnswerBack

(* The controller enters what a credible frame tells it.                   *)
Registration(s, frame, port) ==
    IF frame.id = "TalkerAdvertise" THEN registerTalker(s, frame.stream, port)
    ELSE IF srpManager[s][frame.stream].talker # NoModule
    THEN registerListener(s, frame.stream, port) ELSE srpManager

LEMMA ControllerEnters ==
    ASSUME ReservationInv, NEW s \in Switches, NEW frame, NEW port, NEW st, st = frame.stream,
           Credible(srpTable, frame, port, s),
           ~ Unacceptable(s, frame, port),
           srpManager' = Registration(s, frame, port)
    PROVE  /\ srpManager' \in Managers
           /\ KnowsTalkers(srpTable, srpManager')
           /\ Remembers(srpManager, srpManager')
           /\ srpManager'[s][st].talker = Above(st, s)
           /\ frame.id = "ListenerReady" => port \in srpManager'[s][st].listeners
<1>1. /\ frame \in Frames /\ port \in Ports(s) /\ port \in Nodes /\ s \in Nodes /\ st \in Streams
      /\ frame.id \in {"TalkerAdvertise", "ListenerReady"}
    BY PortsAreNodes, Names DEF Credible, Frames
<1>2. /\ srpManager \in Managers
      /\ KnowsTalkers(srpTable, srpManager)
    BY DEF ReservationInv, ControlInv, ControlTypes
<1>3. PICK old \in ManagerEntry : old = srpManager[s][st]
    BY <1>1, <1>2 DEF Managers
<1>4. PICK e \in ManagerEntry :
        /\ srpManager' = [srpManager EXCEPT ![s] = [srpManager[s] EXCEPT ![st] = e]]
        /\ e.talker = Above(st, s) /\ e.talker # NoModule
        /\ e.listeners \subseteq Ports(s)
        /\ frame.id = "ListenerReady" => port \in e.listeners
  <2>1. CASE frame.id = "TalkerAdvertise"
    <3>1. PICK e : e = [old EXCEPT !.talker = port]
        OBVIOUS
    <3>2. e \in ManagerEntry /\ e.talker = port /\ e.listeners = old.listeners
        BY <1>1, <3>1 DEF ManagerEntry
    <3>3. srpManager' = registerTalker(s, st, port)
        BY <2>1 DEF Registration
    <3>4. srpManager' = [srpManager EXCEPT ![s] = [srpManager[s] EXCEPT ![st] = e]]
        BY <1>3, <3>1, <3>3 DEF registerTalker
    <3>5. port = Above(st, s) /\ port # NoModule
        BY <1>1, <2>1, TheWayUp DEF Credible
    <3>6. old.listeners \subseteq Ports(s)
        BY <1>1, <1>2, <1>3 DEF KnowsTalkers
    <3> QED BY <2>1, <3>2, <3>4, <3>5, <3>6
  <2>2. CASE frame.id = "ListenerReady"
    <3>1. srpTable[port][st].talker = s /\ s # NoModule
        BY <1>1, <2>2, Names DEF Credible
    <3>2. srpTable[s][st].talker # NoModule
        BY <1>1, <3>1 DEF ReservationInv, SrpInv, TalkersAbove
    <3>3. /\ srpManager[s][st].talker # NoModule
          /\ old.talker = Above(st, s) /\ old.listeners \subseteq Ports(s)
        BY <1>1, <1>2, <1>3, <3>2 DEF KnowsTalkers
    <3>4. PICK e : e = [old EXCEPT !.listeners = @ \cup {port}]
        OBVIOUS
    <3>5. e \in ManagerEntry /\ e.talker = old.talker /\ e.listeners = old.listeners \cup {port}
        BY <1>1, <3>4 DEF ManagerEntry
    <3>6. srpManager' = registerListener(s, st, port)
        BY <2>2, <3>3 DEF Registration
    <3>7. srpManager' = [srpManager EXCEPT ![s] = [srpManager[s] EXCEPT ![st] = e]]
        BY <1>3, <3>4, <3>6 DEF registerListener
    <3>8. Above(st, s) # NoModule
        BY <1>1, TheWayUp
    <3> QED BY <1>1, <3>3, <3>5, <3>7, <3>8
  <2> QED BY <1>1, <2>1, <2>2
<1>5. PICK new : new = [srpManager[s] EXCEPT ![st] = e] /\ srpManager' = [srpManager EXCEPT ![s] = new]
    BY <1>4
<1>6. /\ srpManager' \in Managers
      /\ SameManagerBut(srpManager, srpManager', s, st)
  <2>1. PICK row \in [Streams -> ManagerEntry] : row = srpManager[s]
      BY <1>2 DEF Managers
  <2>2. new \in [Streams -> ManagerEntry] /\ \A u \in Streams : u # st => new[u] = row[u]
      BY <1>5, <2>1
  <2>3. /\ srpManager' \in Managers /\ srpManager'[s] = new
        /\ \A t \in Switches : t # s => srpManager'[t] = srpManager[t]
      BY <1>2, <1>5, <2>2 DEF Managers
  <2> QED BY <2>1, <2>2, <2>3 DEF SameManagerBut
<1>7. srpManager'[s][st] = e
    BY <1>1, <1>2, <1>5 DEF Managers
<1>8. ASSUME NEW t \in Switches, NEW u \in Streams
      PROVE  /\ srpManager'[t][u].talker \in {NoModule, Above(u, t)}
             /\ srpManager'[t][u].listeners \subseteq Ports(t)
             /\ srpTable[t][u].talker # NoModule => srpManager'[t][u].talker # NoModule
             /\ srpManager[t][u].talker # NoModule => srpManager'[t][u].talker # NoModule
  <2>1. CASE t = s /\ u = st
      BY <1>4, <1>7, <2>1
  <2>2. CASE ~ (t = s /\ u = st)
      BY <1>2, <1>6, <2>2 DEF KnowsTalkers, SameManagerBut
  <2> QED BY <2>1, <2>2
<1> QED BY <1>4, <1>6, <1>7, <1>8 DEF KnowsTalkers, Remembers

(* The controller answers with the rule for all listeners and the frame.   *)
LEMMA ControllerKeeps ==
    ASSUME ReservationInv, NEW s \in Switches, doSRP(s)
    PROVE  /\ ReservationInv'
           /\ UNCHANGED << srpTable, entries >>
           /\ \E frame \in Frames, port \in Ports(s), e \in ManagerEntry :
                 /\ e.talker = Above(frame.stream, s)
                 /\ frame.id = "ListenerReady" => port \in e.listeners
                 /\ toSwitch' = [toSwitch EXCEPT ![s] = @ \o
                        IF frame.id = "ListenerReady"
                        THEN << AnswerRule(frame.stream, e), AnswerBack(frame, port) >>
                        ELSE << AnswerBack(frame, port) >>]
<1>1. PICK frame, port, st : /\ frame = Head(packetIns[s]).frame /\ port = Head(packetIns[s]).port
                             /\ st = frame.stream
    OBVIOUS
<1>2. /\ packetIns \in [Switches -> Seq(PacketIns)] /\ toSwitch \in [Switches -> Seq(AgentMessages)]
      /\ RequestsCredible(srpTable, packetIns) /\ KnowsTalkers(srpTable, srpManager)
      /\ AnswersCredible(srpTable, srpManager, toSwitch) /\ RulesFit(entries)
    BY DEF ReservationInv, ControlInv, ControlTypes
<1>3. /\ packetIns[s] # << >> /\ ~ aborted
      /\ packetIns' = [packetIns EXCEPT ![s] = Tail(@)]
      /\ UNCHANGED << srpTable, wire, isStreaming, entries >>
    BY DEF doSRP
<1>4. /\ packetIns' \in [Switches -> Seq(PacketIns)]
      /\ 1 \in DOMAIN packetIns[s] /\ Head(packetIns[s]) = packetIns[s][1]
      /\ \A i \in DOMAIN packetIns'[s] : i + 1 \in DOMAIN packetIns[s]
                                         /\ packetIns'[s][i] = packetIns[s][i + 1]
      /\ \A t \in Switches : t # s => packetIns'[t] = packetIns[t]
    BY <1>2, <1>3, QueueTail
<1>5. Credible(srpTable, frame, port, s)
    BY <1>1, <1>2, <1>4 DEF RequestsCredible
<1>6. /\ frame \in Frames /\ port \in Ports(s) /\ port \in Nodes /\ s \in Nodes /\ st \in Streams
      /\ frame.id \in {"TalkerAdvertise", "ListenerReady"}
    BY <1>1, <1>5, PortsAreNodes, Names DEF Credible, Frames
<1>7. RequestsCredible(srpTable, packetIns')
  <2> SUFFICES ASSUME NEW t \in Switches, NEW i \in DOMAIN packetIns'[t]
               PROVE  Credible(srpTable, packetIns'[t][i].frame, packetIns'[t][i].port, t)
      BY DEF RequestsCredible
  <2>1. CASE t = s
      BY <1>2, <1>4, <2>1 DEF RequestsCredible
  <2>2. CASE t # s
      BY <1>2, <1>4, <2>2 DEF RequestsCredible
  <2> QED BY <2>1, <2>2
<1>8. ~ Unacceptable(s, frame, port)
  <2>1. srpManager[s][st].talker \in {NoModule, Above(st, s)}
      BY <1>2, <1>6 DEF KnowsTalkers
  <2>2. CASE frame.id = "TalkerAdvertise"
      BY <1>1, <1>5, <2>1, <2>2 DEF Credible, Unacceptable
  <2>3. CASE frame.id = "ListenerReady"
    <3>1. srpTable[port][st].talker = s /\ s # NoModule
        BY <1>1, <1>5, <1>6, <2>3, Names DEF Credible
    <3>2. srpTable[s][st].talker # NoModule
        BY <1>6, <3>1 DEF ReservationInv, SrpInv, TalkersAbove
    <3>3. srpManager[s][st].talker # NoModule
        BY <1>2, <1>6, <3>2 DEF KnowsTalkers
    <3> QED BY <1>1, <2>3, <3>3 DEF Unacceptable
  <2> QED BY <1>6, <2>2, <2>3
<1>9. /\ srpManager' = Registration(s, frame, port)
      /\ toSwitch' = [toSwitch EXCEPT ![s] = @ \o Answer(s, frame, port, srpManager')]
      /\ UNCHANGED aborted
    BY <1>1, <1>8, ZenonT(40) DEF doSRP, Registration
<1>10. /\ srpManager' \in Managers
       /\ KnowsTalkers(srpTable, srpManager')
       /\ Remembers(srpManager, srpManager')
       /\ srpManager'[s][st].talker = Above(st, s)
       /\ frame.id = "ListenerReady" => port \in srpManager'[s][st].listeners
    BY <1>1, <1>5, <1>8, <1>9, ControllerEnters
<1>11. PICK e \in ManagerEntry : e = srpManager'[s][st]
    BY <1>6, <1>10 DEF Managers
<1>12. /\ e.talker = Above(st, s) /\ e.talker # NoModule /\ e.talker \in Ports(s) /\ e.talker \in Nodes
       /\ e.listeners \subseteq Ports(s) /\ e.listeners \subseteq Nodes
       /\ frame.id = "ListenerReady" => port \in e.listeners
    BY <1>6, <1>10, <1>11, TheWayUp, PortsAreNodes DEF KnowsTalkers, ManagerEntry
<1>13. PICK rule, back, batch :
          /\ rule = AnswerRule(st, e) /\ back = AnswerBack(frame, port)
          /\ batch = IF frame.id = "ListenerReady" THEN << rule, back >> ELSE << back >>
    OBVIOUS
<1>14. Answer(s, frame, port, srpManager') = batch
  <2>1. /\ e = srpManager'[s][frame.stream] /\ e.talker # NoModule
        /\ batch = IF frame.id = "ListenerReady"
                   THEN << AnswerRule(frame.stream, e), AnswerBack(frame, port) >>
                   ELSE << AnswerBack(frame, port) >>
      BY <1>1, <1>11, <1>12, <1>13
  <2> QED BY <2>1, AnswerOf
<1>15. /\ rule \in AgentMessages /\ back \in AgentMessages
       /\ Answered(srpTable, srpManager', s, rule) /\ Answered(srpTable, srpManager', s, back)
  <2>1. rule.id = "FlowMod" /\ rule.entry = Rule(st, e.talker, e.listeners)
        /\ back.id = "VENDOR" /\ back.frame = frame /\ back.port = port
      BY <1>13 DEF AnswerRule, AnswerBack
  <2>2. Rule(st, e.talker, e.listeners) \in RulesOf(s) /\ Rule(st, e.talker, e.listeners) \in Rules
      BY <1>6, <1>12 DEF Rule, RulesOf, Rules
  <2>3. rule \in AgentMessages
      BY <1>13, <2>2 DEF AnswerRule, AgentMessages
  <2>4. back \in AgentMessages
      BY <1>6, <1>13 DEF AnswerBack, AgentMessages
  <2> QED BY <1>1, <1>5, <1>11, <1>12, <2>1, <2>2, <2>3, <2>4 DEF Answered
<1>16. /\ batch \in Seq(AgentMessages)
       /\ \A j \in DOMAIN batch : Answered(srpTable, srpManager', s, batch[j])
  <2>1. CASE frame.id = "ListenerReady"
    <3>1. batch = << rule, back >>
        BY <1>13, <2>1
    <3> QED BY <1>15, <3>1
  <2>2. CASE frame.id # "ListenerReady"
    <3>1. batch = << back >>
        BY <1>13, <2>2
    <3> QED BY <1>15, <3>1
  <2> QED BY <2>1, <2>2
<1>17. /\ toSwitch' \in [Switches -> Seq(AgentMessages)]
       /\ \A t \in Switches : t # s => toSwitch'[t] = toSwitch[t]
       /\ \A i \in DOMAIN toSwitch[s] : toSwitch'[s][i] = toSwitch[s][i]
       /\ \A i \in DOMAIN toSwitch'[s] :
             i \in DOMAIN toSwitch[s] \/ \E j \in DOMAIN batch : toSwitch'[s][i] = batch[j]
  <2>1. toSwitch' = [toSwitch EXCEPT ![s] = @ \o batch]
      BY <1>9, <1>14
  <2>2. /\ toSwitch' \in [Switches -> Seq(AgentMessages)]
        /\ \A t \in Switches : t # s => toSwitch'[t] = toSwitch[t]
        /\ Len(toSwitch[s]) \in Nat /\ DOMAIN toSwitch'[s] = 1 .. Len(toSwitch[s]) + Len(batch)
        /\ \A i \in DOMAIN toSwitch[s] : toSwitch'[s][i] = toSwitch[s][i]
        /\ \A j \in DOMAIN batch : toSwitch'[s][Len(toSwitch[s]) + j] = batch[j]
        /\ \A i \in DOMAIN toSwitch'[s] :
              i \in DOMAIN toSwitch[s] \/ i - Len(toSwitch[s]) \in DOMAIN batch
      BY <1>2, <1>16, <2>1, QueueConcat
  <2>3. ASSUME NEW i \in DOMAIN toSwitch'[s], i \notin DOMAIN toSwitch[s]
        PROVE  \E j \in DOMAIN batch : toSwitch'[s][i] = batch[j]
    <3>1. PICK j : j = i - Len(toSwitch[s]) /\ j \in DOMAIN batch
        BY <2>2, <2>3
    <3>2. Len(toSwitch[s]) + j = i
        BY <1>16, <2>2, <3>1
    <3> QED BY <2>2, <3>1, <3>2
  <2> QED BY <2>2, <2>3
<1>18. AnswersCredible(srpTable, srpManager', toSwitch')
  <2> SUFFICES ASSUME NEW t \in Switches, NEW i \in DOMAIN toSwitch'[t]
               PROVE  Answered(srpTable, srpManager', t, toSwitch'[t][i])
      BY DEF AnswersCredible
  <2>1. ASSUME i \in DOMAIN toSwitch[t], toSwitch'[t][i] = toSwitch[t][i]
        PROVE  Answered(srpTable, srpManager', t, toSwitch'[t][i])
    <3>1. PICK m : m = toSwitch[t][i] /\ Answered(srpTable, srpManager, t, m)
        BY <1>2, <2>1 DEF AnswersCredible
    <3>2. Credible(srpTable, m.frame, m.port, t) => m.frame.stream \in Streams
        BY DEF Credible, Frames
    <3> QED BY <1>10, <2>1, <3>1, <3>2 DEF Answered, Remembers
  <2>2. CASE t = s
      BY <1>16, <1>17, <2>1, <2>2
  <2>3. CASE t # s
      BY <1>17, <2>1, <2>3
  <2> QED BY <2>2, <2>3
<1>19. ControlInv(srpTable, srpManager', packetIns', toSwitch', entries)
    BY <1>4, <1>7, <1>10, <1>17, <1>18 DEF ReservationInv, ControlInv, ControlTypes
<1>20. ReservationInv'
    BY <1>3, <1>9, <1>19 DEF ReservationInv
<1>21. toSwitch' = [toSwitch EXCEPT ![s] = @ \o
                        IF frame.id = "ListenerReady"
                        THEN << AnswerRule(frame.stream, e), AnswerBack(frame, port) >>
                        ELSE << AnswerBack(frame, port) >>]
    BY <1>1, <1>9, <1>13, <1>14
<1> QED BY <1>1, <1>3, <1>6, <1>12, <1>20, <1>21

(* A rule that is entered, somewhere, in a table that may be full.         *)
LEMMA RuleEntered ==
    ASSUME NEW table \in Seq(Rules), NEW e \in Rules, NEW new \in addEntry(table, e)
    PROVE  /\ new \in Seq(Rules)
           /\ \A i \in DOMAIN new : new[i] = e \/ \E j \in DOMAIN table : new[i] = table[j]
           /\ MaxFlowEntries = 0 =>
                 /\ \E i \in DOMAIN new : new[i] = e
                 /\ \A j \in DOMAIN table : \E i \in DOMAIN new : new[i] = table[j]
<1>1. PICK n \in Nat : n = Len(table) /\ DOMAIN table = 1 .. n
    OBVIOUS
<1>2. CASE new = table /\ MaxFlowEntries # 0
    BY <1>2
<1>3. CASE \E pos \in 1 .. n + 1 : new = InsertedAt(table, pos, e)
  <2>1. PICK pos \in 1 .. n + 1 : new = InsertedAt(table, pos, e)
      BY <1>3
  <2>2. new = [i \in 1 .. n + 1 |-> IF i < pos THEN table[i]
                                    ELSE IF i = pos THEN e ELSE table[i - 1]]
      BY <1>1, <2>1 DEF InsertedAt
  <2>3. /\ DOMAIN new = 1 .. n + 1
        /\ new[pos] = e
        /\ \A i \in 1 .. n + 1 : i < pos => i \in 1 .. n /\ new[i] = table[i]
        /\ \A i \in 1 .. n + 1 : i > pos => i - 1 \in 1 .. n /\ new[i] = table[i - 1]
      BY <2>2
  <2>4. \A i \in 1 .. n : table[i] \in Rules
      BY <1>1
  <2>5. new \in Seq(Rules)
    <3>1. \A i \in 1 .. n + 1 : new[i] \in Rules
        BY <2>3, <2>4
    <3>2. new \in [1 .. n + 1 -> Rules]
        BY <2>2, <3>1
    <3> QED BY <3>2
  <2>6. ASSUME NEW i \in DOMAIN new
        PROVE  new[i] = e \/ \E j \in DOMAIN table : new[i] = table[j]
    <3>1. i \in 1 .. n + 1 /\ (i < pos \/ i = pos \/ i > pos)
        BY <2>3
    <3> QED BY <1>1, <2>3, <3>1
  <2>7. ASSUME NEW j \in DOMAIN table
        PROVE  \E i \in DOMAIN new : new[i] = table[j]
    <3>1. CASE j < pos
        BY <1>1, <2>3, <3>1
    <3>2. CASE j >= pos
      <4>1. j + 1 \in 1 .. n + 1 /\ j + 1 > pos /\ (j + 1) - 1 = j
          BY <1>1, <3>2
      <4>2. new[j + 1] = table[j]
          BY <2>3, <4>1
      <4> QED BY <2>3, <4>1, <4>2
    <3> QED BY <1>1, <3>1, <3>2
  <2> QED BY <2>3, <2>5, <2>6, <2>7
<1> QED BY <1>1, <1>2, <1>3 DEF addEntry, Full

LEMMA FlowModKeeps ==
    ASSUME ReservationInv, NEW s \in Switches, HandleFlowMod(s)
    PROVE  /\ ReservationInv'
           /\ UNCHANGED srpTable
           /\ \A t \in Switches : t # s => entries'[t] = entries[t]
           /\ Head(toSwitch[s]).entry \in Rules
           /\ entries'[s] \in addEntry(entries[s], Head(toSwitch[s]).entry)
<1>1. PICK m : m = Head(toSwitch[s])
    OBVIOUS
<1>2. /\ toSwitch[s] # << >> /\ m.id = "FlowMod"
      /\ toSwitch' = [toSwitch EXCEPT ![s] = Tail(@)]
      /\ \E table \in addEntry(entries[s], m.entry) : entries' = [entries EXCEPT ![s] = table]
      /\ UNCHANGED << srpVars, srpManager, packetIns >>
    BY <1>1 DEF HandleFlowMod
<1>3. /\ ControlInv(srpTable, srpManager, packetIns, toSwitch', entries)
      /\ m \in AgentMessages /\ Answered(srpTable, srpManager, s, m)
    BY <1>1, <1>2, AgentTakes
<1>4. m.entry \in Rules /\ m.entry \in RulesOf(s)
    BY <1>2, <1>3 DEF AgentMessages, Answered
<1>5. PICK table : /\ table \in addEntry(entries[s], m.entry)
                   /\ entries' = [entries EXCEPT ![s] = table]
    BY <1>2
<1>6. entries \in [Switches -> Seq(Rules)] /\ RulesFit(entries)
    BY DEF ReservationInv, ControlInv, ControlTypes
<1>7. /\ table \in Seq(Rules)
      /\ \A i \in DOMAIN table :
            table[i] = m.entry \/ \E j \in DOMAIN entries[s] : table[i] = entries[s][j]
    BY <1>4, <1>5, <1>6, RuleEntered
<1>8. /\ entries' \in [Switches -> Seq(Rules)] /\ entries'[s] = table
      /\ \A t \in Switches : t # s => entries'[t] = entries[t]
    BY <1>5, <1>6, <1>7
<1>9. RulesFit(entries')
  <2> SUFFICES ASSUME NEW t \in Switches, NEW i \in DOMAIN entries'[t]
               PROVE  entries'[t][i] \in RulesOf(t)
      BY DEF RulesFit
  <2>1. CASE t = s
      BY <1>4, <1>6, <1>7, <1>8, <2>1 DEF RulesFit
  <2>2. CASE t # s
      BY <1>6, <1>8, <2>2 DEF RulesFit
  <2> QED BY <2>1, <2>2
<1>10. ControlInv(srpTable, srpManager, packetIns, toSwitch', entries')
    BY <1>3, <1>8, <1>9 DEF ControlInv, ControlTypes
<1> QED BY <1>1, <1>2, <1>4, <1>5, <1>8, <1>10 DEF ReservationInv, srpVars

LEMMA ReservationStep == ReservationInv /\ [Next]_reservationVars => ReservationInv'
<1> SUFFICES ASSUME ReservationInv, [Next]_reservationVars PROVE ReservationInv'
    OBVIOUS
<1>1. CASE UNCHANGED reservationVars
    BY <1>1 DEF reservationVars, srpVars, controlVars, ReservationInv
<1>2. CASE Next
    BY <1>2, StartKeeps, RenewKeeps, ReceiveKeeps, ForwardKeeps, ControllerKeeps, FlowModKeeps,
       AgentHandlesKeeps DEF Next
<1> QED BY <1>1, <1>2

(* The invariant of the reservations: talkers above, listeners below and   *)
(* every frame credible.                                                   *)
THEOREM ReservationInvHolds == Spec => []ReservationInv
BY ReservationInit, ReservationStep, PTL DEF Spec

-----------------------------------------------------------------------------
(* Types of the tables, the rules and the source; the module of a talker   *)
(* is never a listener of its stream (updateTalkerWithStreamId,            *)
(* updateListenerWithStreamId, registerTalker, registerListener).          *)
THEOREM ReservationTypeCorrect == Spec => []ReservationTypeOK
<1>1. ReservationInv => ReservationTypeOK
  <2> SUFFICES ASSUME ReservationInv PROVE ReservationTypeOK
      OBVIOUS
  <2>1. ASSUME NEW n \in Nodes, NEW st \in Streams
        PROVE  /\ srpTable[n][st].talker \in Ports(n) \cup {App, NoModule}
               /\ srpTable[n][st].listeners \subseteq (Ports(n) \cup {App}) \ {srpTable[n][st].talker}
    <3>1. TalkersAbove(srpTable) /\ ListenersBelow(srpTable)
        BY DEF ReservationInv, SrpInv
    <3>2. srpTable[n][st].talker \in {NoModule, Above(st, n)}
        BY <3>1 DEF TalkersAbove
    <3>3. Above(st, n) \in Ports(n) \cup {App}
        BY TheWayUp
    <3>4. ASSUME NEW p \in srpTable[n][st].listeners
          PROVE  p \in Ports(n) \cup {App} /\ p # srpTable[n][st].talker
      <4>1. CASE p = App
        <5>1. n # TalkerOf[st]
            BY <3>1, <4>1, Names DEF ListenersBelow
        <5> QED BY <3>2, <4>1, <5>1, TheWayUp, Names
      <4>2. CASE p # App
        <5>1. p \in Ports(n) /\ p \in Nodes /\ srpTable[p][st].talker = n /\ n # NoModule
            BY <3>1, <4>2, PortsAreNodes, Names DEF ListenersBelow
        <5>2. Above(st, p) = n
            BY <3>1, <5>1 DEF TalkersAbove
        <5>3. Above(st, n) # p /\ p # NoModule
            BY <5>1, <5>2, TheWayUp, Names
        <5> QED BY <3>2, <5>1, <5>3
      <4> QED BY <4>1, <4>2
    <3> QED BY <3>2, <3>3, <3>4
  <2>2. ASSUME NEW s \in Switches, NEW st \in Streams
        PROVE  srpManager[s][st] \in [talker : Ports(s) \cup {NoModule}, listeners : SUBSET Ports(s)]
    <3>1. PICK e \in ManagerEntry : e = srpManager[s][st]
        BY DEF ReservationInv, ControlInv, ControlTypes, Managers
    <3>2. e.talker \in Ports(s) \cup {NoModule} /\ e.listeners \subseteq Ports(s)
        BY <3>1, TheWayUp DEF ReservationInv, ControlInv, KnowsTalkers
    <3> QED BY <3>1, <3>2 DEF ManagerEntry
  <2>3. \A s \in Switches : \A i \in DOMAIN entries[s] :
          entries[s][i] \in [flow : Streams, inport : Ports(s), outport : SUBSET Ports(s), tag : {0}]
      BY DEF ReservationInv, ControlInv, RulesFit, RulesOf
  <2>4. isStreaming \in [Streams -> BOOLEAN]
      BY DEF ReservationInv, SrpInv, SrpTypes
  <2> QED BY <2>1, <2>2, <2>3, <2>4 DEF ReservationTypeOK
<1> QED BY <1>1, ReservationInvHolds, PTL

(* Neither a table nor the controller ever throws: an advertise comes from *)
(* above only, and a ready finds the talker registered in switch and       *)
(* controller (updateTalkerWithStreamId, updateListenerWithStreamId,       *)
(* SRPTableManagement).                                                    *)
THEOREM ThrowsNever == Spec => []NeverThrows
<1>1. ReservationInv => NeverThrows
    BY DEF ReservationInv, NeverThrows
<1> QED BY <1>1, ReservationInvHolds, PTL

(* A port is reserved only for a neighbour that has the node as talker and *)
(* a listener of its own, and the source streams only with a listener      *)
(* (SRProtocol, updateListenerWithStreamId, AVBTrafficSourceApp).          *)
THEOREM ReservationsReach == Spec => []ReservationsReachASink
<1>1. ReservationInv => ReservationsReachASink
  <2> SUFFICES ASSUME ReservationInv, NEW st \in Streams
               PROVE  /\ \A n \in Nodes : \A p \in srpTable[n][st].listeners \cap Nodes :
                            srpTable[p][st].talker = n /\ srpTable[p][st].listeners # {}
                      /\ isStreaming[st] => srpTable[TalkerOf[st]][st].listeners # {}
      BY DEF ReservationsReachASink
  <2> QED BY Names DEF ReservationInv, SrpInv, ListenersBelow, StreamsForAListener
<1> QED BY <1>1, ReservationInvHolds, PTL

-----------------------------------------------------------------------------
(* Bandwidths add up: what MapThenSumSet computes, whatever the order it    *)
(* takes the streams in.                                                   *)
First(S) == CHOOSE st \in S : TRUE

SumsUp(f, D) ==
    f = [S \in D |-> IF S = {} THEN 0 ELSE Bandwidth[First(S)] + f[S \ {First(S)}]]

LEMMA Streamwise ==
    /\ \A st \in Streams : Bandwidth[st] \in Nat
    /\ \A S : S # {} => First(S) \in S
BY ReservationAssumption DEF First

LEMMA SmallestSet ==
    ASSUME NEW Bad \in SUBSET (SUBSET Streams), Bad # {}
    PROVE  \E S \in Bad : \A st \in S : S \ {st} \notin Bad
<1>1. FiniteSubsetsOf(Streams) = SUBSET Streams
    BY FS_FiniteSubsetsOfFinite, ReservationAssumption
<1>2. PICK S \in Bad : \A T \in Bad : << T, S >> \notin StrictSubsetOrdering(Streams)
    BY <1>1, FS_StrictSubsetOrderingWellFounded, WFMin
<1>3. ASSUME NEW st \in S, S \ {st} \in Bad
      PROVE  FALSE
  <2>1. << S \ {st}, S >> \in StrictSubsetOrdering(Streams)
      BY DEF StrictSubsetOrdering
  <2> QED BY <1>2, <1>3, <2>1
<1> QED BY <1>3

(* Two functions that sum up agree where both are defined.                 *)
Agree(f, D, g, E) == \A S \in SUBSET (D \cap E) : f[S] = g[S]

LEMMA SumsAgree ==
    ASSUME NEW D \in SUBSET Streams, NEW E \in SUBSET Streams,
           NEW f, NEW g, SumsUp(f, SUBSET D), SumsUp(g, SUBSET E)
    PROVE  Agree(f, D, g, E)
<1> SUFFICES \A S \in SUBSET (D \cap E) : f[S] = g[S]
    BY DEF Agree
<1>1. PICK Bad : Bad = {S \in SUBSET (D \cap E) : f[S] # g[S]}
    OBVIOUS
<1>2. CASE Bad = {}
    BY <1>1, <1>2
<1>3. CASE Bad # {}
  <2>1. Bad \in SUBSET (SUBSET Streams)
      BY <1>1
  <2>2. PICK S \in Bad : \A st \in S : S \ {st} \notin Bad
      BY <1>3, <2>1, SmallestSet
  <2>3. S \in SUBSET D /\ S \in SUBSET E /\ f[S] # g[S]
      BY <1>1, <2>2
  <2>4. /\ f[S] = IF S = {} THEN 0 ELSE Bandwidth[First(S)] + f[S \ {First(S)}]
        /\ g[S] = IF S = {} THEN 0 ELSE Bandwidth[First(S)] + g[S \ {First(S)}]
      BY <2>3 DEF SumsUp
  <2>5. S # {} /\ First(S) \in S
      BY <2>3, <2>4, Streamwise
  <2>6. f[S \ {First(S)}] = g[S \ {First(S)}]
      BY <1>1, <2>2, <2>3, <2>5
  <2> QED BY <2>3, <2>4, <2>5, <2>6
<1> QED BY <1>2, <1>3

LEMMA SumsExist == \E f \in [SUBSET Streams -> Nat] : SumsUp(f, SUBSET Streams)
<1> DEFINE Summable(D) == \E f \in [SUBSET D -> Nat] : SumsUp(f, SUBSET D)
<1>1. PICK Bad : Bad = {D \in SUBSET Streams : ~ Summable(D)}
    OBVIOUS
<1>2. CASE Streams \notin Bad
    BY <1>1, <1>2
<1>3. CASE Streams \in Bad
  <2>1. PICK D \in Bad : \A st \in D : D \ {st} \notin Bad
      BY <1>1, <1>3, SmallestSet
  <2>2. D \in SUBSET Streams /\ ~ Summable(D) /\ \A st \in D : Summable(D \ {st})
      BY <1>1, <2>1
  <2> DEFINE F(st) == CHOOSE f \in [SUBSET (D \ {st}) -> Nat] : SumsUp(f, SUBSET (D \ {st}))
  <2>3. \A st \in D : F(st) \in [SUBSET (D \ {st}) -> Nat] /\ SumsUp(F(st), SUBSET (D \ {st}))
      BY <2>2
  <2> HIDE DEF F
  <2>4. PICK f : f = [S \in SUBSET D |->
                        IF S = {} THEN 0 ELSE Bandwidth[First(S)] + F(First(S))[S \ {First(S)}]]
      OBVIOUS
  <2>5. ASSUME NEW S \in SUBSET D, S # {}
        PROVE  /\ First(S) \in D /\ S \ {First(S)} \in SUBSET (D \ {First(S)})
               /\ F(First(S))[S \ {First(S)}] \in Nat
               /\ f[S] = Bandwidth[First(S)] + F(First(S))[S \ {First(S)}]
    <3>1. First(S) \in S /\ First(S) \in D
        BY <2>5, Streamwise
    <3>2. S \ {First(S)} \in SUBSET (D \ {First(S)})
        BY <3>1
    <3>3. F(First(S)) \in [SUBSET (D \ {First(S)}) -> Nat]
        BY <2>3, <3>1
    <3>4. F(First(S))[S \ {First(S)}] \in Nat
        BY <3>2, <3>3
    <3>5. f[S] = Bandwidth[First(S)] + F(First(S))[S \ {First(S)}]
        BY <2>4, <2>5
    <3> QED BY <3>1, <3>2, <3>4, <3>5
  <2>6. f \in [SUBSET D -> Nat]
    <3>1. \A S \in SUBSET D : f[S] \in Nat
      <4>1. ASSUME NEW S \in SUBSET D, S # {}
            PROVE  f[S] \in Nat
        <5>1. First(S) \in D /\ F(First(S))[S \ {First(S)}] \in Nat
              /\ f[S] = Bandwidth[First(S)] + F(First(S))[S \ {First(S)}]
            BY <2>5, <4>1
        <5>2. Bandwidth[First(S)] \in Nat
            BY <2>2, <5>1, Streamwise
        <5> QED BY <5>1, <5>2
      <4> QED BY <2>4, <4>1
    <3> QED BY <2>4, <3>1
  <2>7. ASSUME NEW S \in SUBSET D, S # {}
        PROVE  f[S \ {First(S)}] = F(First(S))[S \ {First(S)}]
    <3>1. PICK x, T, E : x = First(S) /\ T = S \ {x} /\ E = D \ {x}
        OBVIOUS
    <3>2. x \in D /\ T \in SUBSET E /\ T \in SUBSET D
        BY <2>5, <2>7, <3>1
    <3>3. SumsUp(F(x), SUBSET E)
        BY <2>3, <3>1, <3>2
    <3>4. F(x)[T] = IF T = {} THEN 0 ELSE Bandwidth[First(T)] + F(x)[T \ {First(T)}]
        BY <3>2, <3>3 DEF SumsUp
    <3>5. CASE T = {}
        BY <2>4, <3>1, <3>2, <3>4, <3>5
    <3>6. CASE T # {}
      <4>1. PICK y, U, V : y = First(T) /\ U = T \ {y} /\ V = D \ {y}
          OBVIOUS
      <4>2. y \in D /\ U \in SUBSET V /\ f[T] = Bandwidth[y] + F(y)[U]
          BY <2>5, <3>2, <3>6, <4>1
      <4>3. PICK g, h : g = F(x) /\ h = F(y)
          OBVIOUS
      <4>4. SumsUp(g, SUBSET E) /\ SumsUp(h, SUBSET V)
          BY <2>3, <3>3, <4>1, <4>2, <4>3
      <4>5. E \in SUBSET Streams /\ V \in SUBSET Streams
          BY <2>2, <3>1, <4>1
      <4>6. Agree(g, E, h, V)
          BY <4>4, <4>5, SumsAgree
      <4>7. F(x)[U] = F(y)[U]
          BY <3>2, <4>1, <4>2, <4>3, <4>6 DEF Agree
      <4> QED BY <3>1, <3>4, <3>6, <4>1, <4>2, <4>7
    <3> QED BY <3>5, <3>6
  <2>8. SumsUp(f, SUBSET D)
    <3>1. f = [S \in SUBSET D |-> f[S]]
        BY <2>6
    <3>2. ASSUME NEW S \in SUBSET D
          PROVE  f[S] = IF S = {} THEN 0 ELSE Bandwidth[First(S)] + f[S \ {First(S)}]
      <4>1. CASE S = {}
          BY <2>4, <4>1
      <4>2. CASE S # {}
          BY <2>5, <2>7, <4>2
      <4> QED BY <4>1, <4>2
    <3> QED BY <3>1, <3>2 DEF SumsUp
  <2> QED BY <2>2, <2>6, <2>8
<1> QED BY <1>2, <1>3

(* A stream of a set may be taken first.                                   *)
LEMMA AnyFirst ==
    ASSUME NEW f \in [SUBSET Streams -> Nat], SumsUp(f, SUBSET Streams)
    PROVE  \A S \in SUBSET Streams : \A st \in S : f[S] = Bandwidth[st] + f[S \ {st}]
<1>1. PICK Bad : Bad = {S \in SUBSET Streams : ~ \A st \in S : f[S] = Bandwidth[st] + f[S \ {st}]}
    OBVIOUS
<1>2. CASE Bad = {}
    BY <1>1, <1>2
<1>3. CASE Bad # {}
  <2>1. PICK S \in Bad : \A st \in S : S \ {st} \notin Bad
      BY <1>1, <1>3, SmallestSet
  <2>2. PICK x \in S : S \in SUBSET Streams /\ f[S] # Bandwidth[x] + f[S \ {x}]
      BY <1>1, <2>1
  <2>3. \A T \in SUBSET Streams : T # {} => f[T] = Bandwidth[First(T)] + f[T \ {First(T)}]
      BY DEF SumsUp
  <2>4. PICK y \in S : y = First(S)
      BY <2>2, Streamwise
  <2>5. f[S] = Bandwidth[y] + f[S \ {y}] /\ x # y
      BY <2>2, <2>3, <2>4
  <2>6. PICK A, B, C : A = S \ {y} /\ B = S \ {x} /\ C = S \ {x, y}
      OBVIOUS
  <2>7. /\ A \notin Bad /\ B \notin Bad /\ x \in A /\ y \in B
        /\ A \ {x} = C /\ B \ {y} = C
        /\ A \in SUBSET Streams /\ B \in SUBSET Streams /\ C \in SUBSET Streams
      BY <2>1, <2>2, <2>5, <2>6
  <2>8. f[A] = Bandwidth[x] + f[C] /\ f[B] = Bandwidth[y] + f[C]
      BY <1>1, <2>7
  <2>9. Bandwidth[x] \in Nat /\ Bandwidth[y] \in Nat /\ f[C] \in Nat
      BY <2>2, <2>7, Streamwise
  <2> QED BY <2>2, <2>5, <2>6, <2>8, <2>9
<1> QED BY <1>2, <1>3

Needed(S) == MapThenSumSet(LAMBDA st : Bandwidth[st], S)

LEMMA NeededIsSum ==
    ASSUME NEW f \in [SUBSET Streams -> Nat], SumsUp(f, SUBSET Streams), NEW S \in SUBSET Streams
    PROVE  Needed(S) = f[S]
<1>1. PICK g : g = [T \in SUBSET S |-> f[T]]
    OBVIOUS
<1>2. SumsUp(g, SUBSET S)
  <2>1. ASSUME NEW T \in SUBSET S
        PROVE  f[T] = IF T = {} THEN 0 ELSE Bandwidth[First(T)] + g[T \ {First(T)}]
    <3>1. f[T] = IF T = {} THEN 0 ELSE Bandwidth[First(T)] + f[T \ {First(T)}]
        BY DEF SumsUp
    <3>2. T \ {First(T)} \in SUBSET S
        OBVIOUS
    <3> QED BY <1>1, <3>1, <3>2
  <2> QED BY <1>1, <2>1 DEF SumsUp
<1>3. PICK h : h = CHOOSE k : SumsUp(k, SUBSET S)
    OBVIOUS
<1>4. SumsUp(h, SUBSET S)
    BY <1>2, <1>3
<1>5. h[S] = f[S]
  <2>1. Agree(h, S, f, Streams)
      BY <1>4, SumsAgree
  <2> QED BY <2>1 DEF Agree
<1>6. Needed(S) = h[S]
    BY <1>3 DEF Needed, MapThenSumSet, MapThenFoldSet, SumsUp, First
<1> QED BY <1>5, <1>6

(* What one more stream needs is added to what the others need.            *)
LEMMA NeededAdds ==
    ASSUME NEW S \in SUBSET Streams
    PROVE  /\ Needed(S) \in Nat /\ Needed({}) = 0
           /\ \A st \in Streams \ S : Needed(S \cup {st}) = Needed(S) + Bandwidth[st]
<1>1. PICK f \in [SUBSET Streams -> Nat] : SumsUp(f, SUBSET Streams)
    BY SumsExist
<1>2. \A T \in SUBSET Streams : Needed(T) = f[T]
    BY <1>1, NeededIsSum
<1>3. f[{}] = 0
    BY <1>1 DEF SumsUp
<1>4. ASSUME NEW st \in Streams \ S
      PROVE  Needed(S \cup {st}) = Needed(S) + Bandwidth[st]
  <2>1. PICK T : T = S \cup {st}
      OBVIOUS
  <2>2. T \in SUBSET Streams /\ st \in T /\ T \ {st} = S
      BY <1>4, <2>1
  <2>3. f[T] = Bandwidth[st] + f[T \ {st}]
      BY <1>1, <2>2, AnyFirst, ZenonT(40)
  <2>4. f[S] \in Nat /\ Bandwidth[st] \in Nat
      BY <1>4, Streamwise
  <2>5. Needed(T) = f[T] /\ Needed(S) = f[S]
      BY <1>2, <2>2
  <2>6. f[T] = Bandwidth[st] + f[S]
      BY <2>2, <2>3, Zenon
  <2>7. Needed(T) = Needed(S) + Bandwidth[st]
      BY <2>4, <2>5, <2>6
  <2> QED BY <2>1, <2>7
<1> QED BY <1>2, <1>3, <1>4

-----------------------------------------------------------------------------
(* What is reserved on a port.                                             *)
ReservedStreams(T, n, p) == {st \in Streams : p \in T[n][st].listeners}

Booked(T) == \A n \in Nodes : \A p \in Ports(n) : Needed(ReservedStreams(T, n, p)) <= Reservable

LEMMA BookedIsWithin ==
    /\ Booked(srpTable) <=> WithinCapacity
    /\ \A n, p : getBandwidthForModule(n, p) = Needed(ReservedStreams(srpTable, n, p))
<1>1. \A n, p : getBandwidthForModule(n, p) = Needed(ReservedStreams(srpTable, n, p))
    BY DEF getBandwidthForModule, Needed, ReservedStreams
<1> QED BY <1>1 DEF Booked, WithinCapacity

LEMMA BookedStays ==
    ASSUME Booked(srpTable), NEW U, Grows(srpTable, U), NEW n \in Nodes, NEW frame, NEW port,
           \A m \in Nodes, s \in Streams : \A p \in U[m][s].listeners :
              \/ p \in srpTable[m][s].listeners \/ p = App
              \/ m = n /\ s = frame.stream /\ p = port /\ Fits(n, s, port)
    PROVE  Booked(U)
<1> SUFFICES ASSUME NEW m \in Nodes, NEW p \in Ports(m)
             PROVE  Needed(ReservedStreams(U, m, p)) <= Reservable
    BY DEF Booked
<1>1. PICK old, new : old = ReservedStreams(srpTable, m, p) /\ new = ReservedStreams(U, m, p)
    OBVIOUS
<1>2. old \in SUBSET Streams /\ old \subseteq new /\ Needed(old) <= Reservable /\ p # App
    BY <1>1, PortsAreNodes DEF ReservedStreams, Grows, Booked
<1>3. \A s \in new \ old : /\ s \in Streams /\ m = n /\ s = frame.stream /\ p = port
                           /\ Fits(n, s, port)
    BY <1>1, <1>2 DEF ReservedStreams
<1>4. CASE new = old
    BY <1>1, <1>2, <1>4
<1>5. CASE new # old
  <2>1. PICK s \in new \ old : s \in Streams /\ m = n /\ p = port /\ Fits(m, s, p)
      BY <1>2, <1>3, <1>5
  <2>2. new = old \cup {s}
      BY <1>2, <1>3, <2>1
  <2>3. Needed(new) = Needed(old) + Bandwidth[s]
      BY <1>2, <2>1, <2>2, NeededAdds
  <2>4. Needed(old) + Bandwidth[s] <= Reservable
      BY <1>1, <2>1, BookedIsWithin DEF Fits
  <2> QED BY <1>1, <2>3, <2>4
<1> QED BY <1>4, <1>5

LEMMA BookedStep == ReservationInv /\ Booked(srpTable) /\ [Next]_reservationVars => Booked(srpTable)'
<1> SUFFICES ASSUME ReservationInv, Booked(srpTable), [Next]_reservationVars
             PROVE  Booked(srpTable')
    BY DEF Booked, ReservedStreams
<1>1. ASSUME NEW n \in Nodes, NEW frame, NEW port, Grows(srpTable, srpTable'),
             OnlyAdds(srpTable, srpTable', n, frame, port)
      PROVE  Booked(srpTable')
    BY <1>1, BookedStays DEF OnlyAdds
<1>2. ASSUME Grows(srpTable, srpTable'),
             \A m \in Nodes, s \in Streams :
                srpTable'[m][s].listeners \subseteq srpTable[m][s].listeners \cup {App}
      PROVE  Booked(srpTable')
  <2>1. ASSUME NEW m \in Nodes, NEW p \in Ports(m)
        PROVE  ReservedStreams(srpTable', m, p) = ReservedStreams(srpTable, m, p)
      BY <1>2, PortsAreNodes DEF Grows, ReservedStreams
  <2> QED BY <2>1 DEF Booked
<1>3. ASSUME UNCHANGED srpTable
      PROVE  Booked(srpTable')
    BY <1>3
<1>4. ASSUME NEW st \in Streams, StartTalker(st)
      PROVE  Booked(srpTable')
    BY <1>2, <1>4, StartKeeps
<1>5. ASSUME NEW h \in Hosts, NEW st \in Streams, UpdateSubscription(h, st)
      PROVE  Booked(srpTable')
    BY <1>2, <1>5, RenewKeeps
<1>6. ASSUME NEW h \in Hosts, NEW port \in Ports(h), ReceiveAtHost(h, port)
      PROVE  Booked(srpTable')
    BY <1>1, <1>6, ReceiveKeeps, Names
<1>7. ASSUME NEW s \in Switches, handleSRPFromController(s)
      PROVE  Booked(srpTable')
    BY <1>1, <1>7, AgentHandlesKeeps, Names
<1>8. CASE UNCHANGED reservationVars
    BY <1>3, <1>8 DEF reservationVars, srpVars
<1>9. CASE Next
    BY <1>3, <1>4, <1>5, <1>6, <1>7, <1>9, ForwardKeeps, ControllerKeeps, FlowModKeeps DEF Next
<1> QED BY <1>8, <1>9

(* No port is overbooked: what the listeners of a port need never exceeds  *)
(* what may be reserved (SRProtocol, getBandwidthForModule).               *)
THEOREM CapacityHolds == Spec => []WithinCapacity
<1>1. Init => Booked(srpTable)
  <2> SUFFICES ASSUME Init, NEW n \in Nodes, NEW p \in Ports(n)
               PROVE  Needed(ReservedStreams(srpTable, n, p)) <= Reservable
      BY DEF Booked
  <2>1. ReservedStreams(srpTable, n, p) = {}
      BY DEF Init, ReservedStreams
  <2> QED BY <2>1, NeededAdds, ReservationAssumption
<1>2. ReservationInv /\ Booked(srpTable) /\ [Next]_reservationVars => Booked(srpTable)'
    BY BookedStep
<1>3. Booked(srpTable) => WithinCapacity
    BY BookedIsWithin
<1> QED BY <1>1, <1>2, <1>3, ReservationInvHolds, PTL DEF Spec

-----------------------------------------------------------------------------
(* With unlimited flow tables: the rule of a listener is in the table, or  *)
(* on its way ahead of the listener's ready.                               *)
HasRule(table, st, in, p) ==
    \E i \in DOMAIN table : tryMatch(table[i], st, in) /\ p \in table[i].outport

RuleAhead(queue, k, st, in, p) ==
    \E j \in DOMAIN queue :
        /\ j < k /\ queue[j].id = "FlowMod"
        /\ tryMatch(queue[j].entry, st, in) /\ p \in queue[j].entry.outport

ReadyHasRule(table, queue, s, k) ==
    LET m == queue[k] IN
    m.id = "VENDOR" /\ m.frame.id = "ListenerReady" =>
        \/ HasRule(table, m.frame.stream, Above(m.frame.stream, s), m.port)
        \/ RuleAhead(queue, k, m.frame.stream, Above(m.frame.stream, s), m.port)

ListenersHaveRules ==
    \A s \in Switches, st \in Streams : \A p \in srpTable[s][st].listeners :
        HasRule(entries[s], st, Above(st, s), p)

RuleInv ==
    /\ ListenersHaveRules
    /\ \A s \in Switches : \A k \in DOMAIN toSwitch[s] : ReadyHasRule(entries[s], toSwitch[s], s, k)

(* The application listens at hosts only.                                  *)
LEMMA SwitchListeners ==
    ASSUME ReservationInv, NEW s \in Switches, NEW st \in Streams
    PROVE  App \notin srpTable[s][st].listeners
<1>1. s \in Nodes /\ s \notin SinksOf[st]
    BY Names
<1> QED BY <1>1 DEF ReservationInv, SrpInv, ListenersBelow

(* As long as no switch gets a listener, nothing changes.                  *)
LEMMA RulesStay ==
    ASSUME RuleInv, UNCHANGED << toSwitch, entries >>,
           \A s \in Switches, st \in Streams :
              srpTable'[s][st].listeners \subseteq srpTable[s][st].listeners
    PROVE  RuleInv'
<1>1. ListenersHaveRules'
    BY DEF RuleInv, ListenersHaveRules
<1> QED BY <1>1 DEF RuleInv

LEMMA ControllerRules ==
    ASSUME ReservationInv, RuleInv, NEW s \in Switches, doSRP(s)
    PROVE  RuleInv'
<1>1. UNCHANGED << srpTable, entries >>
    BY ControllerKeeps
<1>2. PICK frame \in Frames, port \in Ports(s), e \in ManagerEntry :
        /\ e.talker = Above(frame.stream, s)
        /\ frame.id = "ListenerReady" => port \in e.listeners
        /\ toSwitch' = [toSwitch EXCEPT ![s] = @ \o
               IF frame.id = "ListenerReady"
               THEN << AnswerRule(frame.stream, e), AnswerBack(frame, port) >>
               ELSE << AnswerBack(frame, port) >>]
    BY ControllerKeeps
<1>3. PICK rule, back, batch :
          /\ rule = AnswerRule(frame.stream, e) /\ back = AnswerBack(frame, port)
          /\ batch = IF frame.id = "ListenerReady" THEN << rule, back >> ELSE << back >>
    OBVIOUS
<1>4. /\ rule.id = "FlowMod" /\ rule.entry.flow = frame.stream
      /\ rule.entry.inport = Above(frame.stream, s) /\ rule.entry.outport = e.listeners
      /\ back.id = "VENDOR" /\ back.frame = frame /\ back.port = port
    BY <1>2, <1>3 DEF AnswerRule, AnswerBack, Rule
<1>5. PICK q, new : q = toSwitch[s] /\ new = toSwitch'[s]
    OBVIOUS
<1>6. /\ Len(q) \in Nat /\ DOMAIN q = 1 .. Len(q)
      /\ \A i \in DOMAIN q : i \in DOMAIN new /\ new[i] = q[i]
      /\ \A i \in DOMAIN new : i \in DOMAIN q \/ i = Len(q) + 1 \/ i = Len(q) + 2
      /\ frame.id = "ListenerReady" =>
            /\ Len(q) + 1 \in DOMAIN new
            /\ new[Len(q) + 1] = rule /\ new[Len(q) + 2] = back
      /\ frame.id # "ListenerReady" => new[Len(q) + 1] = back /\ Len(q) + 2 \notin DOMAIN new
      /\ \A t \in Switches : t # s => toSwitch'[t] = toSwitch[t]
  <2>1. toSwitch \in [Switches -> Seq(AgentMessages)] /\ q \in Seq(AgentMessages)
      BY <1>5 DEF ReservationInv, ControlInv, ControlTypes
  <2>2. toSwitch' = [toSwitch EXCEPT ![s] = @ \o batch]
      BY <1>2, <1>3
  <2>3. /\ new = q \o batch
        /\ \A t \in Switches : t # s => toSwitch'[t] = toSwitch[t]
      BY <1>5, <2>1, <2>2
  <2>4. Len(q) \in Nat /\ DOMAIN q = 1 .. Len(q)
      BY <2>1
  <2>5. CASE frame.id = "ListenerReady"
    <3>1. batch = << rule, back >>
        BY <1>3, <2>5
    <3>2. /\ DOMAIN new = 1 .. Len(q) + 2 /\ \A i \in 1 .. Len(q) : new[i] = q[i]
          /\ new[Len(q) + 1] = rule /\ new[Len(q) + 2] = back
        BY <2>1, <2>3, <2>4, <3>1
    <3> QED BY <2>3, <2>4, <2>5, <3>2
  <2>6. CASE frame.id # "ListenerReady"
    <3>1. batch = << back >>
        BY <1>3, <2>6
    <3>2. /\ DOMAIN new = 1 .. Len(q) + 1 /\ \A i \in 1 .. Len(q) : new[i] = q[i]
          /\ new[Len(q) + 1] = back
        BY <2>1, <2>3, <2>4, <3>1
    <3> QED BY <2>3, <2>4, <2>6, <3>2
  <2> QED BY <2>5, <2>6
<1>7. ASSUME NEW k \in DOMAIN q
      PROVE  ReadyHasRule(entries[s], new, s, k)
  <2>1. ReadyHasRule(entries[s], q, s, k)
      BY <1>5 DEF RuleInv
  <2>2. new[k] = q[k] /\ \A j \in DOMAIN q : j \in DOMAIN new /\ new[j] = q[j]
      BY <1>6
  <2> QED BY <2>1, <2>2 DEF ReadyHasRule, RuleAhead
<1>8. ASSUME NEW k \in DOMAIN new, k \notin DOMAIN q
      PROVE  ReadyHasRule(entries[s], new, s, k)
  <2>1. CASE frame.id = "ListenerReady"
    <3>1. CASE k = Len(q) + 1
        BY <1>4, <1>6, <2>1, <3>1 DEF ReadyHasRule
    <3>2. CASE k = Len(q) + 2
      <4>1. new[k] = back /\ Len(q) + 1 \in DOMAIN new /\ new[Len(q) + 1] = rule /\ Len(q) + 1 < k
          BY <1>6, <2>1, <3>2
      <4>2. RuleAhead(new, k, frame.stream, Above(frame.stream, s), port)
          BY <1>2, <1>4, <2>1, <4>1 DEF RuleAhead, tryMatch
      <4> QED BY <1>4, <4>1, <4>2 DEF ReadyHasRule
    <3> QED BY <1>6, <1>8, <3>1, <3>2
  <2>2. CASE frame.id # "ListenerReady"
    <3>1. new[k] = back
        BY <1>6, <1>8, <2>2
    <3> QED BY <1>4, <2>2, <3>1 DEF ReadyHasRule
  <2> QED BY <2>1, <2>2
<1>9. ASSUME NEW t \in Switches, NEW k \in DOMAIN toSwitch'[t]
      PROVE  ReadyHasRule(entries'[t], toSwitch'[t], t, k)
  <2>1. CASE t = s
      BY <1>1, <1>5, <1>7, <1>8, <2>1
  <2>2. CASE t # s
      BY <1>1, <1>6, <2>2 DEF RuleInv
  <2> QED BY <2>1, <2>2
<1>10. ListenersHaveRules'
    BY <1>1 DEF RuleInv, ListenersHaveRules
<1> QED BY <1>9, <1>10 DEF RuleInv

LEMMA FlowModRules ==
    ASSUME MaxFlowEntries = 0, ReservationInv, RuleInv, NEW s \in Switches, HandleFlowMod(s)
    PROVE  RuleInv'
<1>1. PICK m, q, new : m = Head(toSwitch[s]) /\ q = toSwitch[s] /\ new = toSwitch'[s]
    OBVIOUS
<1>2. /\ UNCHANGED srpTable
      /\ \A t \in Switches : t # s => entries'[t] = entries[t]
      /\ m.entry \in Rules
      /\ entries'[s] \in addEntry(entries[s], m.entry)
    BY <1>1, FlowModKeeps
<1>3. /\ toSwitch \in [Switches -> Seq(AgentMessages)] /\ entries[s] \in Seq(Rules)
      /\ toSwitch[s] # << >> /\ toSwitch' = [toSwitch EXCEPT ![s] = Tail(@)]
    BY DEF HandleFlowMod, ReservationInv, ControlInv, ControlTypes
<1>4. /\ 1 \in DOMAIN q /\ m = q[1] /\ q \in Seq(AgentMessages) /\ new = Tail(q)
      /\ \A t \in Switches : t # s => toSwitch'[t] = toSwitch[t]
    BY <1>1, <1>3
<1>5. /\ \A i \in DOMAIN new : i \in Nat /\ i + 1 \in DOMAIN q /\ new[i] = q[i + 1]
      /\ \A j \in DOMAIN q : j \in Nat /\ (j = 1 \/ (j - 1 \in DOMAIN new /\ new[j - 1] = q[j]))
    BY <1>4
<1>6. /\ \E i \in DOMAIN entries'[s] : entries'[s][i] = m.entry
      /\ \A j \in DOMAIN entries[s] : \E i \in DOMAIN entries'[s] : entries'[s][i] = entries[s][j]
    BY <1>2, <1>3, RuleEntered
<1>7. ASSUME NEW st, NEW in, NEW p, HasRule(entries[s], st, in, p)
      PROVE  HasRule(entries'[s], st, in, p)
    BY <1>6, <1>7 DEF HasRule
<1>8. ASSUME NEW k \in DOMAIN new
      PROVE  ReadyHasRule(entries'[s], new, s, k)
  <2>1. k + 1 \in DOMAIN q /\ new[k] = q[k + 1] /\ k \in Nat
      BY <1>5
  <2>2. PICK x, st, in, p : x = new[k] /\ st = x.frame.stream /\ in = Above(st, s) /\ p = x.port
      OBVIOUS
  <2>3. CASE x.id = "VENDOR" /\ x.frame.id = "ListenerReady"
    <3>1. HasRule(entries[s], st, in, p) \/ RuleAhead(q, k + 1, st, in, p)
        BY <1>1, <2>1, <2>2, <2>3 DEF RuleInv, ReadyHasRule
    <3>2. ASSUME RuleAhead(q, k + 1, st, in, p)
          PROVE  HasRule(entries'[s], st, in, p) \/ RuleAhead(new, k, st, in, p)
      <4>1. PICK j \in DOMAIN q : /\ j < k + 1 /\ q[j].id = "FlowMod"
                                  /\ tryMatch(q[j].entry, st, in) /\ p \in q[j].entry.outport
          BY <3>2 DEF RuleAhead
      <4>2. CASE j = 1
          BY <1>4, <1>6, <4>1, <4>2 DEF HasRule
      <4>3. CASE j # 1
        <5>1. j - 1 \in DOMAIN new /\ new[j - 1] = q[j] /\ j - 1 < k
            BY <1>5, <2>1, <4>1, <4>3
        <5> QED BY <4>1, <5>1 DEF RuleAhead
      <4> QED BY <4>2, <4>3
    <3>3. HasRule(entries'[s], st, in, p) \/ RuleAhead(new, k, st, in, p)
        BY <1>7, <3>1, <3>2
    <3> QED BY <2>2, <3>3 DEF ReadyHasRule
  <2>4. CASE ~ (x.id = "VENDOR" /\ x.frame.id = "ListenerReady")
      BY <2>2, <2>4 DEF ReadyHasRule
  <2> QED BY <2>3, <2>4
<1>9. ASSUME NEW t \in Switches, NEW k \in DOMAIN toSwitch'[t]
      PROVE  ReadyHasRule(entries'[t], toSwitch'[t], t, k)
  <2>1. CASE t = s
      BY <1>1, <1>8, <2>1
  <2>2. CASE t # s
      BY <1>2, <1>4, <2>2 DEF RuleInv
  <2> QED BY <2>1, <2>2
<1>10. ASSUME NEW t \in Switches, NEW st \in Streams, NEW p \in srpTable'[t][st].listeners
       PROVE  HasRule(entries'[t], st, Above(st, t), p)
  <2>1. HasRule(entries[t], st, Above(st, t), p)
      BY <1>2 DEF RuleInv, ListenersHaveRules
  <2>2. CASE t = s
      BY <1>7, <2>1, <2>2
  <2>3. CASE t # s
      BY <1>2, <2>1, <2>3
  <2> QED BY <2>2, <2>3
<1> QED BY <1>9, <1>10 DEF RuleInv, ListenersHaveRules

LEMMA AgentRules ==
    ASSUME ReservationInv, RuleInv, NEW s \in Switches, handleSRPFromController(s)
    PROVE  RuleInv'
<1>1. PICK m, q, new : m = Head(toSwitch[s]) /\ q = toSwitch[s] /\ new = toSwitch'[s]
    OBVIOUS
<1>2. /\ ReservationInv' /\ UNCHANGED entries
      /\ OnlyAdds(srpTable, srpTable', s, m.frame, m.port)
    BY <1>1, AgentHandlesKeeps
<1>3. /\ toSwitch \in [Switches -> Seq(AgentMessages)]
      /\ toSwitch[s] # << >> /\ toSwitch' = [toSwitch EXCEPT ![s] = Tail(@)]
      /\ m.id = "VENDOR"
    BY <1>1 DEF handleSRPFromController, ReservationInv, ControlInv, ControlTypes
<1>4. /\ 1 \in DOMAIN q /\ m = q[1] /\ q \in Seq(AgentMessages) /\ new = Tail(q)
      /\ \A t \in Switches : t # s => toSwitch'[t] = toSwitch[t]
    BY <1>1, <1>3
<1>5. /\ \A i \in DOMAIN new : i \in Nat /\ i + 1 \in DOMAIN q /\ new[i] = q[i + 1]
      /\ \A j \in DOMAIN q : j \in Nat /\ j >= 1 /\ (j = 1 \/ (j - 1 \in DOMAIN new /\ new[j - 1] = q[j]))
    BY <1>4
<1>6. ASSUME NEW k \in DOMAIN new
      PROVE  ReadyHasRule(entries[s], new, s, k)
  <2>1. k + 1 \in DOMAIN q /\ new[k] = q[k + 1] /\ k \in Nat
      BY <1>5
  <2>2. PICK x, st, in, p : x = new[k] /\ st = x.frame.stream /\ in = Above(st, s) /\ p = x.port
      OBVIOUS
  <2>3. CASE x.id = "VENDOR" /\ x.frame.id = "ListenerReady"
    <3>1. HasRule(entries[s], st, in, p) \/ RuleAhead(q, k + 1, st, in, p)
        BY <1>1, <2>1, <2>2, <2>3 DEF RuleInv, ReadyHasRule
    <3>2. ASSUME RuleAhead(q, k + 1, st, in, p)
          PROVE  RuleAhead(new, k, st, in, p)
      <4>1. PICK j \in DOMAIN q : /\ j < k + 1 /\ q[j].id = "FlowMod"
                                  /\ tryMatch(q[j].entry, st, in) /\ p \in q[j].entry.outport
          BY <3>2 DEF RuleAhead
      <4>2. j # 1
          BY <1>3, <1>4, <4>1
      <4>3. j - 1 \in DOMAIN new /\ new[j - 1] = q[j] /\ j - 1 < k
          BY <1>5, <2>1, <4>1, <4>2
      <4> QED BY <4>1, <4>3 DEF RuleAhead
    <3> QED BY <2>2, <3>1, <3>2 DEF ReadyHasRule
  <2>4. CASE ~ (x.id = "VENDOR" /\ x.frame.id = "ListenerReady")
      BY <2>2, <2>4 DEF ReadyHasRule
  <2> QED BY <2>3, <2>4
<1>7. ASSUME NEW t \in Switches, NEW k \in DOMAIN toSwitch'[t]
      PROVE  ReadyHasRule(entries'[t], toSwitch'[t], t, k)
  <2>1. CASE t = s
      BY <1>1, <1>2, <1>6, <2>1
  <2>2. CASE t # s
      BY <1>2, <1>4, <2>2 DEF RuleInv
  <2> QED BY <2>1, <2>2
<1>8. m.frame.id = "ListenerReady" => HasRule(entries[s], m.frame.stream, Above(m.frame.stream, s), m.port)
  <2>1. ReadyHasRule(entries[s], q, s, 1)
      BY <1>1, <1>4 DEF RuleInv
  <2>2. ~ RuleAhead(q, 1, m.frame.stream, Above(m.frame.stream, s), m.port)
      BY <1>5 DEF RuleAhead
  <2> QED BY <1>3, <1>4, <2>1, <2>2 DEF ReadyHasRule
<1>9. ASSUME NEW t \in Switches, NEW st \in Streams, NEW p \in srpTable'[t][st].listeners
      PROVE  HasRule(entries'[t], st, Above(st, t), p)
  <2>1. p # App
    <3>1. t \in Nodes /\ t \notin SinksOf[st]
        BY Names
    <3> QED BY <1>2, <3>1 DEF ReservationInv, SrpInv, ListenersBelow
  <2>2. \/ p \in srpTable[t][st].listeners
        \/ t = s /\ st = m.frame.stream /\ p = m.port /\ m.frame.id = "ListenerReady"
      BY <1>2, <2>1, Names DEF OnlyAdds
  <2> QED BY <1>2, <1>8, <2>2 DEF RuleInv, ListenersHaveRules
<1> QED BY <1>7, <1>9 DEF RuleInv, ListenersHaveRules

LEMMA RuleStep ==
    MaxFlowEntries = 0 /\ ReservationInv /\ RuleInv /\ [Next]_reservationVars => RuleInv'
<1> SUFFICES ASSUME MaxFlowEntries = 0, ReservationInv, RuleInv, [Next]_reservationVars
             PROVE  RuleInv'
    OBVIOUS
<1>1. ReservationInv'
    BY ReservationStep
<1>2. ASSUME UNCHANGED << toSwitch, entries >>,
             \A s \in Switches, st \in Streams : \A p \in srpTable'[s][st].listeners :
                p \in srpTable[s][st].listeners \/ p = App
      PROVE  RuleInv'
  <2>1. \A s \in Switches, st \in Streams : App \notin srpTable'[s][st].listeners
      BY <1>1, Names DEF ReservationInv, SrpInv, ListenersBelow
  <2> QED BY <1>2, <2>1, RulesStay
<1>3. ASSUME NEW st \in Streams, StartTalker(st)
      PROVE  RuleInv'
    BY <1>2, <1>3, StartKeeps, Names DEF controlVars
<1>4. ASSUME NEW h \in Hosts, NEW st \in Streams, UpdateSubscription(h, st)
      PROVE  RuleInv'
    BY <1>2, <1>4, RenewKeeps, Names DEF controlVars
<1>5. ASSUME NEW h \in Hosts, NEW port \in Ports(h), ReceiveAtHost(h, port)
      PROVE  RuleInv'
  <2>1. OnlyAdds(srpTable, srpTable', h, Head(wire[<< port, h >>]), port)
      BY <1>5, ReceiveKeeps
  <2>2. \A s \in Switches, st \in Streams : \A p \in srpTable'[s][st].listeners :
           p \in srpTable[s][st].listeners \/ p = App
      BY <2>1, Names DEF OnlyAdds
  <2> QED BY <1>2, <1>5, <2>2, ReceiveKeeps DEF controlVars
<1>6. ASSUME NEW s \in Switches, NEW port \in Ports(s), ForwardSRPToController(s, port)
      PROVE  RuleInv'
    BY <1>2, <1>6, ForwardKeeps
<1>7. CASE UNCHANGED reservationVars
    BY <1>2, <1>7 DEF reservationVars, srpVars, controlVars
<1>8. CASE Next
    BY <1>3, <1>4, <1>5, <1>6, <1>8, ControllerRules, FlowModRules, AgentRules DEF Next
<1> QED BY <1>7, <1>8

LEMMA RuleInit == Init => RuleInv
<1> SUFFICES ASSUME Init PROVE RuleInv
    OBVIOUS
<1>1. \A s \in Switches : DOMAIN toSwitch[s] = {}
    BY DEF Init
<1>2. \A s \in Switches, st \in Streams : srpTable[s][st].listeners = {}
    BY Names DEF Init
<1> QED BY <1>1, <1>2 DEF RuleInv, ListenersHaveRules

(* When a switch reserves bandwidth for a listener, the listener has its   *)
(* rule, as long as flow tables are not limited: the controller sends the  *)
(* rule first, and the agent takes its messages in order (doSRP,           *)
(* handleSRPFromController).                                               *)
THEOREM RulesBeforeReadies ==
    ASSUME MaxFlowEntries = 0
    PROVE  Spec => []RuleBeforeReady
<1>1. ReservationInv /\ RuleInv => RuleBeforeReady
  <2> SUFFICES ASSUME ReservationInv, RuleInv, NEW s \in Switches, NEW st \in Streams,
                      NEW p \in srpTable[s][st].listeners
               PROVE  \E i \in DOMAIN entries[s] :
                         /\ tryMatch(entries[s][i], st, srpTable[s][st].talker)
                         /\ p \in entries[s][i].outport
      BY DEF RuleBeforeReady
  <2>1. srpTable[s][st].talker = Above(st, s)
      BY Names DEF ReservationInv, SrpInv, ListenersBelow, TalkersAbove
  <2> QED BY <2>1 DEF RuleInv, ListenersHaveRules, HasRule
<1>2. ReservationInv /\ RuleInv /\ [Next]_reservationVars => RuleInv'
    BY RuleStep
<1> QED BY <1>1, <1>2, RuleInit, ReservationInvHolds, PTL DEF Spec
=============================================================================
