------------------------ MODULE ConnectionSetupProofs ------------------------
(* Start-up in any order: who believes to have a controller is registered, *)
(* an ACK counts for the switch that sent it, and only a start-up that is  *)
(* out of order can fail; for every number of switches.                    *)
EXTENDS ConnectionSetup, FiniteSetTheorems, TLAPS

-----------------------------------------------------------------------------
(* Types, of the messages under way as well.                               *)
Messages == [id : {"Hello", "FeaturesRequest", "FlowMod", "FeaturesReply", "Ack", "PacketIn"},
             for : Switches]
ForAgent == {m \in Messages : m.id \in {"Hello", "FeaturesRequest", "FlowMod"}}
Queued == [from : Switches, msg : Messages]
Switch_Info == [sw : Switches, mac : BOOLEAN, topo_index : Switches \cup {Unset}]
RequestStates == {"none", "dropped", "sent", "rejected", "waiting", "released"}

ConnectionTypes ==
    /\ agents \in [Switches -> [connecting : BOOLEAN, hasController : BOOLEAN]]
    /\ toController \in [Switches -> Seq(Messages)]
    /\ toSwitch \in [Switches -> Seq(ForAgent)]
    /\ booted \in BOOLEAN /\ extracted \in BOOLEAN /\ aborted \in BOOLEAN
    /\ msgList \in Seq(Queued)
    /\ switchesList \in Seq(Switch_Info)
    /\ SwitchInfoTable \in [Switches -> Switches \cup {Unset, Blank}]
    /\ requests \in [Talkers -> RequestStates]
    /\ waiting \in [Talkers -> SUBSET Switches]

(* No switch is listed twice.                                              *)
ListedOnce(list) ==
    \A i, j \in DOMAIN list : list[i].sw = list[j].sw => i = j

Listed(list, s) == \E i \in DOMAIN list : list[i].sw = s

(* The controller says hello to those it registered, and only then an      *)
(* agent believes to have a controller.                                    *)
HelloFromController ==
    \A s \in Switches :
        /\ agents[s].hasController => Listed(switchesList, s)
        /\ \A i \in DOMAIN toSwitch[s] : toSwitch[s][i].id = "Hello" => Listed(switchesList, s)

(* An index is given with the extraction only, to an entry with a MAC      *)
(* address, together with a row of the table: the row of its place in the  *)
(* list. Other rows lead to no connection.                                 *)
IndexedRows ==
    /\ \A i \in DOMAIN switchesList : switchesList[i].topo_index # Unset =>
          /\ switchesList[i].mac
          /\ switchesList[i].topo_index = switchesList[i].sw
    /\ \A m \in Switches :
          IF m \in DOMAIN switchesList /\ switchesList[m].topo_index # Unset
          THEN SwitchInfoTable[m] = switchesList[m].sw
          ELSE SwitchInfoTable[m] \in {Unset, Blank}
    /\ ~ extracted => \A i \in DOMAIN switchesList : switchesList[i].topo_index = Unset

ConnectionInv ==
    /\ ConnectionTypes
    /\ ListedOnce(switchesList)
    /\ HelloFromController
    /\ IndexedRows

-----------------------------------------------------------------------------
LEMMA ConstantTypes ==
    /\ N \in Nat /\ N >= 2 /\ Unset = 0 /\ Talkers \subseteq Switches
    /\ \A s \in Switches : s \in Nat /\ s # Unset /\ s # Blank /\ s <= N
    /\ Switches = 1 .. N
BY ConnectionAssumption DEF Switches, Unset, Blank

LEMMA SwitchesFinite == IsFiniteSet(Switches) /\ Cardinality(Switches) = N
BY ConstantTypes, FS_Interval

LEMMA MessageTypes ==
    ASSUME NEW s \in Switches,
           NEW id \in {"Hello", "FeaturesRequest", "FlowMod", "FeaturesReply", "Ack", "PacketIn"}
    PROVE  /\ Message(id, s) \in Messages
           /\ Message(id, s).id = id /\ Message(id, s).for = s
           /\ id \in {"Hello", "FeaturesRequest", "FlowMod"} => Message(id, s) \in ForAgent
BY DEF Message, Messages, ForAgent

(* Entries in the words of the list.                                       *)
LEMMA EntriesOf ==
    /\ \A e \in Entries : \E i \in DOMAIN switchesList : e = switchesList[i]
    /\ \A i \in DOMAIN switchesList : switchesList[i] \in Entries
    /\ \A s : Registered(s) <=> Listed(switchesList, s)
BY DEF Entries, ToSet, Registered, Listed

(* A list in which every switch occurs at most once is no longer than the  *)
(* topology, and as long only with every switch in it.                     *)
LEMMA ListLength ==
    ASSUME NEW list \in Seq(Switch_Info), ListedOnce(list)
    PROVE  /\ Len(list) \in Nat /\ DOMAIN list = 1 .. Len(list)
           /\ Len(list) <= N
           /\ (\A s \in Switches : Listed(list, s)) => Len(list) = N
<1> DEFINE f == [i \in DOMAIN list |-> list[i].sw]
<1>1. Len(list) \in Nat /\ DOMAIN list = 1 .. Len(list) /\ \A i \in DOMAIN list : list[i] \in Switch_Info
    OBVIOUS
<1>2. f \in Injection(DOMAIN list, Switches)
    BY <1>1 DEF ListedOnce, Injection, IsInjective, Switch_Info
<1>3. IsFiniteSet(DOMAIN list) /\ Cardinality(DOMAIN list) = Len(list)
    BY <1>1, FS_Interval
<1>4. Cardinality(DOMAIN list) <= Cardinality(Switches)
    BY <1>2, SwitchesFinite, FS_Injection
<1>5. Len(list) <= N
    BY <1>3, <1>4, SwitchesFinite
<1>6. ASSUME \A s \in Switches : Listed(list, s)
      PROVE  Len(list) = N
  <2>1. f \in Surjection(DOMAIN list, Switches)
      BY <1>1, <1>6 DEF Listed, Surjection, Switch_Info
  <2>2. Cardinality(Switches) <= Cardinality(DOMAIN list)
      BY <2>1, <1>3, FS_Surjection
  <2>3. N <= Len(list)
      BY <2>2, <1>3, SwitchesFinite
  <2>4. Len(list) \in Nat /\ N \in Nat
      BY <1>1, ConstantTypes
  <2> HIDE DEF f
  <2> QED BY <2>3, <2>4, <1>5
<1> QED BY <1>1, <1>5, <1>6

(* What a list keeps when an entry is added at its end.                    *)
LEMMA AppendEntry ==
    ASSUME NEW list \in Seq(Switch_Info), NEW e \in Switch_Info, NEW new, new = Append(list, e)
    PROVE  /\ new \in Seq(Switch_Info)
           /\ Len(list) \in Nat /\ DOMAIN list = 1 .. Len(list) /\ DOMAIN new = 1 .. Len(list) + 1
           /\ \A i \in DOMAIN list : i \in DOMAIN new /\ new[i] = list[i]
           /\ new[Len(list) + 1] = e
           /\ \A i \in DOMAIN new : i \in DOMAIN list \/ i = Len(list) + 1
           /\ \A s : Listed(new, s) <=> Listed(list, s) \/ s = e.sw
<1>1. /\ new \in Seq(Switch_Info)
      /\ Len(list) \in Nat /\ DOMAIN list = 1 .. Len(list) /\ DOMAIN new = 1 .. Len(list) + 1
      /\ \A i \in DOMAIN list : i \in DOMAIN new /\ new[i] = list[i]
      /\ new[Len(list) + 1] = e
      /\ \A i \in DOMAIN new : i \in DOMAIN list \/ i = Len(list) + 1
    OBVIOUS
<1>2. Len(list) + 1 \in DOMAIN new
    BY <1>1
<1>3. \A s : Listed(new, s) <=> Listed(list, s) \/ s = e.sw
    BY <1>1, <1>2 DEF Listed
<1> QED BY <1>1, <1>3

-----------------------------------------------------------------------------
(* The invariant, operation by operation.                                  *)
LEMMA ConnectionInit == Init => ConnectionInv
<1> SUFFICES ASSUME Init PROVE ConnectionInv
    OBVIOUS
<1>1. ConnectionTypes
  <2>1. /\ << >> \in Seq(Messages) /\ << >> \in Seq(ForAgent)
        /\ << >> \in Seq(Queued) /\ << >> \in Seq(Switch_Info)
      OBVIOUS
  <2>2. /\ agents \in [Switches -> [connecting : BOOLEAN, hasController : BOOLEAN]]
        /\ requests \in [Talkers -> RequestStates] /\ waiting \in [Talkers -> SUBSET Switches]
        /\ SwitchInfoTable \in [Switches -> Switches \cup {Unset, Blank}]
      BY DEF Init, RequestStates
  <2> QED BY <2>1, <2>2 DEF Init, ConnectionTypes
<1>2. DOMAIN switchesList = {} /\ \A s \in Switches : DOMAIN toSwitch[s] = {}
    BY DEF Init
<1>3. ListedOnce(switchesList)
    BY <1>2 DEF ListedOnce
<1>4. HelloFromController
    BY <1>2 DEF HelloFromController, Init
<1>5. IndexedRows
    BY <1>2 DEF IndexedRows, Init
<1> QED BY <1>1, <1>3, <1>4, <1>5 DEF ConnectionInv

(* What only moves messages and requests leaves lists and tables alone.    *)
LEMMA RowsUnchanged ==
    ASSUME ListedOnce(switchesList), IndexedRows,
           UNCHANGED << switchesList, SwitchInfoTable, extracted >>
    PROVE  ListedOnce(switchesList)' /\ IndexedRows'
BY DEF ListedOnce, IndexedRows

(* A queue that is added to.                                               *)
LEMMA QueueAppend ==
    ASSUME NEW S, NEW queues \in [Switches -> Seq(S)], NEW s \in Switches, NEW x \in S,
           NEW new, new = [queues EXCEPT ![s] = Append(@, x)]
    PROVE  new \in [Switches -> Seq(S)]
OBVIOUS

LEMMA QueueTail ==
    ASSUME NEW S, NEW queues \in [Switches -> Seq(S)], NEW s \in Switches, queues[s] # << >>,
           NEW new, new = [queues EXCEPT ![s] = Tail(@)]
    PROVE  /\ new \in [Switches -> Seq(S)]
           /\ Head(queues[s]) \in S
           /\ 1 \in DOMAIN queues[s] /\ Head(queues[s]) = queues[s][1]
           /\ \A t \in Switches : \A i \in DOMAIN new[t] :
                 \E j \in DOMAIN queues[t] : new[t][i] = queues[t][j]
<1>1. PICK q \in Seq(S) : q = queues[s]
    OBVIOUS
<1>2. /\ Tail(q) \in Seq(S) /\ Head(q) \in S /\ 1 \in DOMAIN q /\ Head(q) = q[1]
      /\ \A i \in DOMAIN Tail(q) : i + 1 \in DOMAIN q /\ Tail(q)[i] = q[i + 1]
    BY <1>1
<1>3. new \in [Switches -> Seq(S)] /\ new[s] = Tail(q)
      /\ \A t \in Switches : t # s => new[t] = queues[t]
    BY <1>1, <1>2
<1> QED BY <1>1, <1>2, <1>3

LEMMA ConnectKeeps ==
    ASSUME ConnectionInv, NEW s \in Switches, connect(s)
    PROVE  ConnectionInv'
<1>1. toController' \in [Switches -> Seq(Messages)]
    BY QueueAppend, MessageTypes DEF connect, ConnectionInv, ConnectionTypes
<1>2. ConnectionTypes'
    BY <1>1 DEF connect, ConnectionInv, ConnectionTypes, controllerVars
<1>3. HelloFromController'
    BY DEF connect, ConnectionInv, ConnectionTypes, HelloFromController, Listed, controllerVars
<1>4. ListedOnce(switchesList)' /\ IndexedRows'
    BY RowsUnchanged DEF connect, ConnectionInv, controllerVars
<1> QED BY <1>2, <1>3, <1>4 DEF ConnectionInv

LEMMA BootKeeps ==
    ASSUME ConnectionInv, boot
    PROVE  ConnectionInv'
<1>1. ConnectionTypes'
    BY DEF boot, ConnectionInv, ConnectionTypes
<1>2. HelloFromController'
    BY DEF boot, ConnectionInv, HelloFromController, Listed
<1>3. ListedOnce(switchesList)' /\ IndexedRows'
    BY RowsUnchanged DEF boot, ConnectionInv
<1> QED BY <1>1, <1>2, <1>3 DEF ConnectionInv

LEMMA HandleMessageKeeps ==
    ASSUME ConnectionInv, NEW s \in Switches, handleMessage(s)
    PROVE  ConnectionInv'
<1>1. toController' \in [Switches -> Seq(Messages)] /\ Head(toController[s]) \in Messages
    BY QueueTail DEF handleMessage, ConnectionInv, ConnectionTypes
<1>2. [from |-> s, msg |-> Head(toController[s])] \in Queued
    BY <1>1 DEF Queued
<1>3. msgList' \in Seq(Queued)
    BY <1>2 DEF handleMessage, ConnectionInv, ConnectionTypes
<1>4. ConnectionTypes'
    BY <1>1, <1>3 DEF handleMessage, ConnectionInv, ConnectionTypes
<1>5. HelloFromController'
    BY DEF handleMessage, ConnectionInv, HelloFromController, Listed
<1>6. ListedOnce(switchesList)' /\ IndexedRows'
    BY RowsUnchanged DEF handleMessage, ConnectionInv
<1> QED BY <1>4, <1>5, <1>6 DEF ConnectionInv

(* What is processed next, and what stays queued.                          *)
LEMMA NextQueued ==
    ASSUME ConnectionTypes, NEW id, ProcessNext(id)
    PROVE  /\ msgList' \in Seq(Queued)
           /\ Head(msgList) \in Queued
           /\ Head(msgList).from \in Switches
           /\ Head(msgList).msg \in Messages
           /\ Head(msgList).msg.for \in Switches
           /\ Head(msgList).msg.id = id
           /\ ~ aborted
<1>1. msgList' \in Seq(Queued) /\ Head(msgList) \in Queued /\ Head(msgList).msg.id = id /\ ~ aborted
    BY DEF ProcessNext, ConnectionTypes
<1> QED BY <1>1 DEF Queued, Messages

(* A switch is entered once; its entry has neither address nor index.      *)
LEMMA Registers ==
    ASSUME ConnectionInv, NEW s \in Switches, NEW new, new = registerConnection(s)
    PROVE  /\ new \in Seq(Switch_Info)
           /\ ListedOnce(new)
           /\ \A t : Listed(new, t) <=> Listed(switchesList, t) \/ t = s
           /\ \A i \in DOMAIN switchesList : i \in DOMAIN new /\ new[i] = switchesList[i]
           /\ \A i \in DOMAIN new \ DOMAIN switchesList : new[i].topo_index = Unset
<1>1. switchesList \in Seq(Switch_Info) /\ ListedOnce(switchesList)
    BY DEF ConnectionInv, ConnectionTypes
<1>2. CASE Registered(s)
  <2>1. new = switchesList
      BY <1>2 DEF registerConnection
  <2>2. Listed(switchesList, s)
      BY <1>2, EntriesOf
  <2> QED BY <1>1, <2>1, <2>2
<1>3. CASE ~ Registered(s)
  <2>1. PICK e : e = [sw |-> s, mac |-> FALSE, topo_index |-> Unset]
      OBVIOUS
  <2>2. e \in Switch_Info /\ e.sw = s /\ e.topo_index = Unset
      BY <2>1 DEF Switch_Info
  <2>3. new = Append(switchesList, e)
      BY <1>3, <2>1 DEF registerConnection
  <2>4. ~ Listed(switchesList, s)
      BY <1>3, EntriesOf
  <2>5. /\ new \in Seq(Switch_Info)
        /\ \A i \in DOMAIN switchesList : i \in DOMAIN new /\ new[i] = switchesList[i]
        /\ new[Len(switchesList) + 1] = e
        /\ \A i \in DOMAIN new : i \in DOMAIN switchesList \/ i = Len(switchesList) + 1
        /\ \A t : Listed(new, t) <=> Listed(switchesList, t) \/ t = e.sw
      BY <1>1, <2>2, <2>3, AppendEntry, ZenonT(40)
  <2>6. ListedOnce(new)
      BY <1>1, <2>2, <2>4, <2>5 DEF ListedOnce, Listed
  <2> QED BY <2>2, <2>5, <2>6
<1> QED BY <1>2, <1>3

(* A queue to which some messages are added.                               *)
LEMMA QueueConcat ==
    ASSUME NEW S, NEW queues \in [Switches -> Seq(S)], NEW s \in Switches, NEW batch \in Seq(S),
           NEW new, new = [queues EXCEPT ![s] = @ \o batch]
    PROVE  /\ new \in [Switches -> Seq(S)]
           /\ \A t \in Switches : t # s => new[t] = queues[t]
           /\ \A i \in DOMAIN new[s] :
                 \/ \E j \in DOMAIN queues[s] : new[s][i] = queues[s][j]
                 \/ \E j \in DOMAIN batch : new[s][i] = batch[j]
<1>1. PICK q \in Seq(S) : q = queues[s]
    OBVIOUS
<1>2. /\ q \o batch \in Seq(S)
      /\ \A i \in DOMAIN (q \o batch) :
            \/ i \in DOMAIN q /\ (q \o batch)[i] = q[i]
            \/ i - Len(q) \in DOMAIN batch /\ (q \o batch)[i] = batch[i - Len(q)]
    BY <1>1
<1>3. PICK both \in Seq(S) : both = q \o batch
    BY <1>2
<1>4. new = [queues EXCEPT ![s] = both]
    BY <1>1, <1>3
<1>5. /\ new \in [Switches -> Seq(S)] /\ new[s] = both
      /\ \A t \in Switches : t # s => new[t] = queues[t]
    BY <1>4
<1>6. \A i \in DOMAIN both :
         \/ \E j \in DOMAIN q : both[i] = q[j]
         \/ \E j \in DOMAIN batch : both[i] = batch[j]
    BY <1>2, <1>3, ZenonT(40)
<1> QED BY <1>1, <1>5, <1>6

LEMMA HelloKeeps ==
    ASSUME ConnectionInv, ProcessHello
    PROVE  ConnectionInv'
<1>1. PICK s \in Switches : s = Head(msgList).from
    BY NextQueued DEF ProcessHello, ConnectionInv
<1>2. /\ switchesList' = registerConnection(s)
      /\ toSwitch' = [toSwitch EXCEPT ![s] =
                           @ \o << Message("Hello", s), Message("FeaturesRequest", s) >>]
      /\ UNCHANGED << agents, toController, booted, extracted, SwitchInfoTable, requests, waiting, aborted >>
    BY <1>1 DEF ProcessHello
<1>3. /\ switchesList' \in Seq(Switch_Info)
      /\ ListedOnce(switchesList')
      /\ \A t : Listed(switchesList', t) <=> Listed(switchesList, t) \/ t = s
      /\ \A i \in DOMAIN switchesList : i \in DOMAIN switchesList' /\ switchesList'[i] = switchesList[i]
      /\ \A i \in DOMAIN switchesList' \ DOMAIN switchesList : switchesList'[i].topo_index = Unset
    BY <1>2, Registers
<1>4. << Message("Hello", s), Message("FeaturesRequest", s) >> \in Seq(ForAgent)
    BY MessageTypes
<1>5. /\ toSwitch' \in [Switches -> Seq(ForAgent)]
      /\ \A t \in Switches : t # s => toSwitch'[t] = toSwitch[t]
    BY <1>2, <1>4, QueueConcat DEF ConnectionInv, ConnectionTypes
<1>6. ConnectionTypes'
    BY <1>2, <1>3, <1>5, NextQueued DEF ProcessHello, ConnectionInv, ConnectionTypes
<1>7. HelloFromController'
    BY <1>2, <1>3, <1>5 DEF ConnectionInv, HelloFromController
<1>8. IndexedRows'
  <2>1. IndexedRows
      BY DEF ConnectionInv
  <2>2. ASSUME NEW i \in DOMAIN switchesList', switchesList'[i].topo_index # Unset
        PROVE  /\ extracted' /\ switchesList'[i].mac
               /\ switchesList'[i].topo_index = switchesList'[i].sw
      BY <1>2, <1>3, <2>1, <2>2 DEF IndexedRows
  <2>3. ASSUME NEW m \in Switches
        PROVE  IF m \in DOMAIN switchesList' /\ switchesList'[m].topo_index # Unset
               THEN SwitchInfoTable'[m] = switchesList'[m].sw
               ELSE SwitchInfoTable'[m] \in {Unset, Blank}
      BY <1>2, <1>3, <2>1 DEF IndexedRows
  <2> QED BY <2>2, <2>3 DEF IndexedRows
<1> QED BY <1>3, <1>6, <1>7, <1>8 DEF ConnectionInv

LEMMA FeaturesReplyKeeps ==
    ASSUME ConnectionInv, handleFeaturesReply
    PROVE  ConnectionInv'
<1>1. /\ DOMAIN switchesList' = DOMAIN switchesList
      /\ \A i \in DOMAIN switchesList :
            /\ switchesList'[i] \in Switch_Info
            /\ switchesList'[i].sw = switchesList[i].sw
            /\ switchesList'[i].topo_index = switchesList[i].topo_index
            /\ switchesList[i].mac => switchesList'[i].mac
  <2>1. DOMAIN switchesList' = DOMAIN switchesList
      BY DEF handleFeaturesReply
  <2>2. \A e \in Switch_Info : e.mac \in BOOLEAN
      BY DEF Switch_Info
  <2>3. ASSUME NEW e \in Switch_Info, NEW g, g = e \/ g = [e EXCEPT !.mac = TRUE]
        PROVE  /\ g \in Switch_Info /\ g.sw = e.sw /\ g.topo_index = e.topo_index
               /\ g.mac = e.mac \/ g.mac = TRUE
      BY <2>3 DEF Switch_Info
  <2>4. ASSUME NEW i \in DOMAIN switchesList
        PROVE  /\ switchesList'[i] \in Switch_Info
               /\ switchesList'[i].sw = switchesList[i].sw
               /\ switchesList'[i].topo_index = switchesList[i].topo_index
               /\ switchesList[i].mac => switchesList'[i].mac
    <3>1. PICK e \in Switch_Info : e = switchesList[i]
        BY DEF ConnectionInv, ConnectionTypes
    <3>2. switchesList'[i] = e \/ switchesList'[i] = [e EXCEPT !.mac = TRUE]
        BY <3>1 DEF handleFeaturesReply
    <3>3. /\ switchesList'[i] \in Switch_Info /\ switchesList'[i].sw = e.sw
          /\ switchesList'[i].topo_index = e.topo_index
          /\ switchesList'[i].mac = e.mac \/ switchesList'[i].mac = TRUE
        BY <2>3, <3>2
    <3> QED BY <3>1, <3>3, <2>2
  <2> QED BY <2>1, <2>4
<1>2. UNCHANGED << agents, toController, toSwitch, booted, extracted, SwitchInfoTable, requests,
                   waiting, aborted >>
    BY DEF handleFeaturesReply
<1>3. switchesList' \in Seq(Switch_Info)
  <2>1. Len(switchesList) \in Nat /\ DOMAIN switchesList = 1 .. Len(switchesList)
      BY DEF ConnectionInv, ConnectionTypes
  <2>2. switchesList' = [i \in 1 .. Len(switchesList) |-> switchesList'[i]]
      BY <1>1, <2>1 DEF handleFeaturesReply
  <2>3. switchesList' \in [1 .. Len(switchesList) -> Switch_Info]
      BY <1>1, <2>1, <2>2
  <2> QED BY <2>1, <2>3
<1>4. ConnectionTypes'
    BY <1>2, <1>3, NextQueued DEF handleFeaturesReply, ConnectionInv, ConnectionTypes
<1>5. ListedOnce(switchesList)'
    BY <1>1 DEF ConnectionInv, ListedOnce
<1>6. \A s : Listed(switchesList', s) <=> Listed(switchesList, s)
    BY <1>1 DEF Listed
<1>7. HelloFromController'
    BY <1>2, <1>6 DEF ConnectionInv, HelloFromController
<1>8. IndexedRows'
    BY <1>1, <1>2 DEF ConnectionInv, IndexedRows
<1> QED BY <1>4, <1>5, <1>7, <1>8 DEF ConnectionInv

(* The topology is extracted once: every entry gets its index and its row  *)
(* or, with an address missing, nobody does.                               *)
LEMMA ExtractKeeps ==
    ASSUME ConnectionInv, extractTopology
    PROVE  ConnectionInv'
<1>1. /\ ~ extracted /\ extracted'
      /\ UNCHANGED << agents, toController, toSwitch, booted, msgList, requests, waiting >>
    BY DEF extractTopology
<1>2. CASE aborted' = TRUE /\ UNCHANGED << switchesList, SwitchInfoTable >>
  <2>1. ConnectionTypes'
      BY <1>1, <1>2 DEF ConnectionInv, ConnectionTypes
  <2>2. ListedOnce(switchesList)' /\ HelloFromController' /\ IndexedRows'
      BY <1>1, <1>2 DEF ConnectionInv, ListedOnce, HelloFromController, Listed, IndexedRows
  <2> QED BY <2>1, <2>2 DEF ConnectionInv
<1>3. CASE /\ \A e \in Entries : e.mac
           /\ switchesList' = [i \in DOMAIN switchesList |-> setTopo_index(i)]
           /\ SwitchInfoTable' = extractHostSwMacTable(extractSwitchInfoTable)
           /\ UNCHANGED aborted
  <2>1. PICK n \in Nat : n = Len(switchesList) /\ DOMAIN switchesList = 1 .. n
      BY DEF ConnectionInv, ConnectionTypes
  <2>2. \A i \in 1 .. n : switchesList[i] \in Switch_Info
      BY <2>1 DEF ConnectionInv, ConnectionTypes
  <2>3. ASSUME NEW i \in 1 .. n
        PROVE  /\ switchesList'[i] \in Switch_Info
               /\ switchesList'[i].sw = switchesList[i].sw
               /\ switchesList'[i].topo_index = switchesList[i].sw
               /\ switchesList'[i].mac
    <3>1. switchesList'[i] = [switchesList[i] EXCEPT !.topo_index = switchesList[i].sw]
        BY <1>3, <2>1 DEF setTopo_index
    <3>2. switchesList[i].mac
        BY <1>3, <2>1, EntriesOf
    <3>3. ASSUME NEW e \in Switch_Info, NEW g, g = [e EXCEPT !.topo_index = e.sw]
          PROVE  g \in Switch_Info /\ g.sw = e.sw /\ g.topo_index = e.sw /\ g.mac = e.mac
        BY <3>3 DEF Switch_Info
    <3>4. /\ switchesList'[i] \in Switch_Info
          /\ switchesList'[i].sw = switchesList[i].sw
          /\ switchesList'[i].topo_index = switchesList[i].sw
          /\ switchesList'[i].mac = switchesList[i].mac
        BY <2>2, <3>1, <3>3
    <3> QED BY <3>2, <3>4
  <2>4. switchesList' \in Seq(Switch_Info) /\ DOMAIN switchesList' = 1 .. n
    <3>1. switchesList' = [i \in 1 .. n |-> setTopo_index(i)]
        BY <1>3, <2>1
    <3>2. \A i \in 1 .. n : setTopo_index(i) \in Switch_Info
        BY <2>3, <3>1
    <3>3. [i \in 1 .. n |-> setTopo_index(i)] \in [1 .. n -> Switch_Info]
        BY <3>2
    <3> HIDE DEF setTopo_index
    <3> QED BY <3>1, <3>3
  <2>5. SwitchInfoTable' \in [Switches -> Switches \cup {Unset, Blank}]
    <3>1. extractSwitchInfoTable \in [Switches -> Switches \cup {Unset}]
        BY <2>1, <2>2 DEF extractSwitchInfoTable, Switch_Info
    <3> QED BY <1>3, <3>1 DEF extractHostSwMacTable
  <2>6. ConnectionTypes'
      BY <1>1, <1>3, <2>4, <2>5 DEF ConnectionInv, ConnectionTypes
  <2>7. ListedOnce(switchesList)'
      BY <2>1, <2>3, <2>4 DEF ConnectionInv, ListedOnce
  <2>8. \A t : Listed(switchesList', t) <=> Listed(switchesList, t)
      BY <2>1, <2>3, <2>4 DEF Listed
  <2>9. HelloFromController'
      BY <1>1, <2>8 DEF ConnectionInv, HelloFromController
  <2>10. \A i \in 1 .. n : switchesList[i].sw \in Switches /\ switchesList[i].sw # Unset
      BY <2>2, ConstantTypes DEF Switch_Info
  <2>11. IndexedRows'
    <3>1. ASSUME NEW m \in Switches
          PROVE  IF m \in 1 .. n THEN SwitchInfoTable'[m] = switchesList[m].sw
                 ELSE SwitchInfoTable'[m] \in {Unset, Blank}
      <4>1. extractSwitchInfoTable[m] = IF m \in 1 .. n THEN switchesList[m].sw ELSE Unset
          BY <2>1 DEF extractSwitchInfoTable
      <4>2. SwitchInfoTable'[m] \in {extractSwitchInfoTable[m], Blank}
            /\ (extractSwitchInfoTable[m] # Unset => SwitchInfoTable'[m] = extractSwitchInfoTable[m])
          BY <1>3 DEF extractHostSwMacTable
      <4> QED BY <2>10, <4>1, <4>2
    <3> QED BY <1>1, <2>3, <2>4, <2>10, <3>1 DEF IndexedRows
  <2> QED BY <2>6, <2>7, <2>9, <2>11 DEF ConnectionInv
<1> QED BY <1>2, <1>3 DEF extractTopology

(* The rules of a path are added to what is under way to its switches.     *)
LEMMA RulesSent ==
    ASSUME ConnectionInv, NEW s \in Switches, NEW path \in SUBSET Switches,
           configureDataPlane(s, path)
    PROVE  /\ aborted' \in BOOLEAN
           /\ aborted' => aborted \/ \E m \in path : SwitchInfoTable[m] \notin Switches
           /\ toSwitch' \in [Switches -> Seq(ForAgent)]
           /\ \A t \in Switches : \A i \in DOMAIN toSwitch'[t] : toSwitch'[t][i].id = "Hello" =>
                 \E j \in DOMAIN toSwitch[t] : toSwitch[t][j].id = "Hello"
           /\ requests' \in [Talkers -> RequestStates]
           /\ waiting' \in [Talkers -> SUBSET Switches]
<1> USE DEF ConnectionInv, ConnectionTypes
<1>1. CASE \E m \in path : findRelatedSwitchSocket(m) \notin Switches
  <2>1. aborted' = TRUE /\ UNCHANGED << toSwitch, requests, waiting >>
      BY <1>1 DEF configureDataPlane
  <2>2. \E m \in path : SwitchInfoTable[m] \notin Switches
      BY <1>1 DEF findRelatedSwitchSocket
  <2> QED BY <2>1, <2>2
<1>2. CASE ~ \E m \in path : findRelatedSwitchSocket(m) \notin Switches
  <2>1. /\ toSwitch' = [t \in Switches |->
                IF \E m \in path : findRelatedSwitchSocket(m) = t
                THEN Append(toSwitch[t], Message("FlowMod", s)) ELSE toSwitch[t]]
        /\ waiting' = [waiting EXCEPT ![s] = path]
        /\ requests' = [requests EXCEPT ![s] = "waiting"]
        /\ UNCHANGED aborted
      BY <1>2 DEF configureDataPlane
  <2>2. PICK x \in ForAgent : x = Message("FlowMod", s) /\ x.id = "FlowMod"
      BY MessageTypes
  <2>3. ASSUME NEW t \in Switches
        PROVE  /\ toSwitch'[t] \in Seq(ForAgent)
               /\ \A i \in DOMAIN toSwitch'[t] :
                     \/ \E j \in DOMAIN toSwitch[t] : toSwitch'[t][i] = toSwitch[t][j]
                     \/ toSwitch'[t][i] = x
    <3>1. PICK q \in Seq(ForAgent) : q = toSwitch[t]
        OBVIOUS
    <3>2. toSwitch'[t] \in {q, Append(q, x)}
        BY <2>1, <2>2, <3>1
    <3>3. /\ Append(q, x) \in Seq(ForAgent)
          /\ \A i \in DOMAIN Append(q, x) :
                (i \in DOMAIN q /\ Append(q, x)[i] = q[i]) \/ Append(q, x)[i] = x
        BY <2>2, <3>1
    <3> QED BY <3>1, <3>2, <3>3
  <2>4. toSwitch' \in [Switches -> Seq(ForAgent)]
      BY <2>1, <2>3
  <2>5. \A t \in Switches : \A i \in DOMAIN toSwitch'[t] : toSwitch'[t][i].id = "Hello" =>
           \E j \in DOMAIN toSwitch[t] : toSwitch[t][j].id = "Hello"
      BY <2>2, <2>3, ZenonT(40)
  <2>6. requests' \in [Talkers -> RequestStates] /\ waiting' \in [Talkers -> SUBSET Switches]
      BY <2>1 DEF RequestStates
  <2> QED BY <2>1, <2>4, <2>5, <2>6
<1> QED BY <1>1, <1>2

(* A path request changes no list; the only reasons to end are an unknown  *)
(* source and a switch of the path without a row.                          *)
LEMMA PathRequest ==
    ASSUME ConnectionInv, ProcessPacketIn
    PROVE  /\ aborted' \in BOOLEAN
           /\ aborted' =>
                 \/ ~ extracted
                 \/ ~ \A s \in Switches : \E e \in Entries : e.sw = s /\ e.mac
                 \/ ~ \A m \in Switches : SwitchInfoTable[m] \in Switches
           /\ toSwitch' \in [Switches -> Seq(ForAgent)]
           /\ \A t \in Switches : \A i \in DOMAIN toSwitch'[t] : toSwitch'[t][i].id = "Hello" =>
                 \E j \in DOMAIN toSwitch[t] : toSwitch[t][j].id = "Hello"
           /\ requests' \in [Talkers -> RequestStates]
           /\ waiting' \in [Talkers -> SUBSET Switches]
<1>1. PICK s \in Switches : s = Head(msgList).from /\ ~ aborted
    BY NextQueued DEF ProcessPacketIn, ConnectionInv
<1>2. /\ toSwitch \in [Switches -> Seq(ForAgent)]
      /\ requests \in [Talkers -> RequestStates]
      /\ waiting \in [Talkers -> SUBSET Switches]
      /\ aborted \in BOOLEAN
    BY DEF ConnectionInv, ConnectionTypes
<1> DEFINE known == extracted /\ \E e \in Entries : e.sw = s /\ e.mac
<1>3. CASE ~ known /\ aborted' = TRUE /\ UNCHANGED << toSwitch, requests, waiting >>
    BY <1>2, <1>3
<1>4. CASE /\ requests' = [requests EXCEPT ![s] = "rejected"]
           /\ UNCHANGED << toSwitch, waiting, aborted >>
  <2>1. requests' \in [Talkers -> RequestStates]
      BY <1>2, <1>4 DEF RequestStates
  <2> QED BY <1>1, <1>2, <1>4, <2>1
<1>5. CASE \E path \in SUBSET Switches : configureDataPlane(s, path)
  <2>1. PICK path \in SUBSET Switches : configureDataPlane(s, path)
      BY <1>5
  <2> QED BY <1>1, <2>1, RulesSent
<1>6. \/ ~ known /\ aborted' = TRUE /\ UNCHANGED << toSwitch, requests, waiting >>
      \/ /\ requests' = [requests EXCEPT ![s] = "rejected"]
         /\ UNCHANGED << toSwitch, waiting, aborted >>
      \/ \E path \in SUBSET Switches : configureDataPlane(s, path)
    BY <1>1 DEF ProcessPacketIn
<1> QED BY <1>3, <1>4, <1>5, <1>6

LEMMA PacketInKeeps ==
    ASSUME ConnectionInv, ProcessPacketIn
    PROVE  ConnectionInv'
<1>1. UNCHANGED << agents, toController, booted, switchesList, extracted, SwitchInfoTable >>
    BY DEF ProcessPacketIn
<1>2. ConnectionTypes'
    BY <1>1, PathRequest, NextQueued DEF ProcessPacketIn, ConnectionInv, ConnectionTypes
<1>3. HelloFromController'
    BY <1>1, PathRequest DEF ConnectionInv, HelloFromController, Listed
<1>4. ListedOnce(switchesList)' /\ IndexedRows'
    BY <1>1, RowsUnchanged DEF ConnectionInv
<1> QED BY <1>2, <1>3, <1>4 DEF ConnectionInv

LEMMA AckKeeps ==
    ASSUME ConnectionInv, ProcessAck
    PROVE  ConnectionInv'
<1>1. PICK s \in Switches : s = Head(msgList).msg.for
    BY NextQueued DEF ProcessAck, ConnectionInv
<1>2. PICK left : /\ left = waiting[s] \ {e.topo_index : e \in {f \in Entries : f.sw = Head(msgList).from}}
                  /\ waiting' = [waiting EXCEPT ![s] = left]
                  /\ requests' = [requests EXCEPT ![s] = IF left = {} THEN "released" ELSE @]
    BY <1>1 DEF ProcessAck
<1>3. UNCHANGED << agents, toController, toSwitch, booted, switchesList, extracted,
                   SwitchInfoTable, aborted >>
    BY DEF ProcessAck
<1>4. left \subseteq waiting[s]
    BY <1>2
<1>5. waiting' \in [Talkers -> SUBSET Switches]
    BY <1>2, <1>4 DEF ConnectionInv, ConnectionTypes
<1>6. requests' \in [Talkers -> RequestStates]
    BY <1>2 DEF ConnectionInv, ConnectionTypes, RequestStates
<1>7. ConnectionTypes'
    BY <1>3, <1>5, <1>6, NextQueued DEF ProcessAck, ConnectionInv, ConnectionTypes
<1>8. HelloFromController'
    BY <1>3 DEF ConnectionInv, HelloFromController, Listed
<1>9. ListedOnce(switchesList)' /\ IndexedRows'
    BY <1>3, RowsUnchanged DEF ConnectionInv
<1> QED BY <1>7, <1>8, <1>9 DEF ConnectionInv

(* An agent's answer to a message of the controller.                       *)
LEMMA AgentKeeps ==
    ASSUME ConnectionInv, NEW s \in Switches, processControlPlanePacket(s)
    PROVE  ConnectionInv'
<1>1. PICK m : m = Head(toSwitch[s])
    OBVIOUS
<1>2. /\ toSwitch' \in [Switches -> Seq(ForAgent)]
      /\ m \in ForAgent
      /\ 1 \in DOMAIN toSwitch[s] /\ m = toSwitch[s][1]
      /\ \A t \in Switches : \A i \in DOMAIN toSwitch'[t] :
            \E j \in DOMAIN toSwitch[t] : toSwitch'[t][i] = toSwitch[t][j]
  <2>1. /\ toSwitch \in [Switches -> Seq(ForAgent)] /\ toSwitch[s] # << >>
        /\ toSwitch' = [toSwitch EXCEPT ![s] = Tail(@)]
      BY DEF processControlPlanePacket, ConnectionInv, ConnectionTypes
  <2> QED BY <1>1, <2>1, QueueTail
<1>3. /\ m.id \in {"Hello", "FeaturesRequest", "FlowMod"}
      /\ m.for \in Switches
    BY <1>2 DEF ForAgent, Messages
<1>4. PICK answer :
        /\ answer = CASE m.id = "Hello"           -> << >>
                      [] m.id = "FeaturesRequest" -> << Message("FeaturesReply", s) >>
                      [] m.id = "FlowMod"         -> << Message("Ack", m.for) >>
        /\ toController' = [toController EXCEPT ![s] = @ \o answer]
        /\ agents' = IF m.id = "Hello" THEN [agents EXCEPT ![s].hasController = TRUE] ELSE agents
    BY <1>1 DEF processControlPlanePacket
<1>5. answer \in Seq(Messages)
  <2>1. Message("FeaturesReply", s) \in Messages /\ Message("Ack", m.for) \in Messages
      BY <1>3, MessageTypes
  <2> QED BY <1>3, <1>4, <2>1
<1>6. toController' \in [Switches -> Seq(Messages)]
    BY <1>4, <1>5, QueueConcat DEF ConnectionInv, ConnectionTypes
<1>7. agents' \in [Switches -> [connecting : BOOLEAN, hasController : BOOLEAN]]
    BY <1>4 DEF ConnectionInv, ConnectionTypes
<1>8. UNCHANGED << controllerVars, requests, aborted >>
    BY DEF processControlPlanePacket
<1>9. ConnectionTypes'
    BY <1>2, <1>6, <1>7, <1>8 DEF ConnectionInv, ConnectionTypes, controllerVars
<1>10. HelloFromController'
  <2>1. HelloFromController /\ agents \in [Switches -> [connecting : BOOLEAN, hasController : BOOLEAN]]
      BY DEF ConnectionInv, ConnectionTypes
  <2>2. \A t : Listed(switchesList', t) <=> Listed(switchesList, t)
      BY <1>8 DEF controllerVars, Listed
  <2>3. ASSUME NEW t \in Switches, agents'[t].hasController
        PROVE  agents[t].hasController \/ (t = s /\ m.id = "Hello")
      BY <1>4, <2>1, <2>3
  <2>4. m.id = "Hello" => Listed(switchesList, s)
      BY <1>2, <2>1 DEF HelloFromController
  <2>5. ASSUME NEW t \in Switches, NEW i \in DOMAIN toSwitch'[t], toSwitch'[t][i].id = "Hello"
        PROVE  Listed(switchesList, t)
      BY <1>2, <2>1, <2>5 DEF HelloFromController
  <2>6. ASSUME NEW t \in Switches, agents'[t].hasController
        PROVE  Listed(switchesList, t)
      BY <2>1, <2>3, <2>4, <2>6 DEF HelloFromController
  <2> QED BY <2>2, <2>5, <2>6 DEF HelloFromController
<1>11. ListedOnce(switchesList)' /\ IndexedRows'
    BY <1>8, RowsUnchanged DEF ConnectionInv, controllerVars
<1> QED BY <1>9, <1>10, <1>11 DEF ConnectionInv

LEMMA AdvertiseKeeps ==
    ASSUME ConnectionInv, NEW s \in Talkers, forwardSRPtoController(s)
    PROVE  ConnectionInv'
<1>1. s \in Switches
    BY ConstantTypes
<1>2. UNCHANGED << agents, toSwitch, controllerVars, aborted >>
    BY DEF forwardSRPtoController
<1>3. [toController EXCEPT ![s] = Append(@, Message("PacketIn", s))] \in [Switches -> Seq(Messages)]
    BY <1>1, QueueAppend, MessageTypes DEF ConnectionInv, ConnectionTypes
<1>4. toController' \in [Switches -> Seq(Messages)]
    BY <1>3 DEF forwardSRPtoController, ConnectionInv, ConnectionTypes
<1>5. requests' \in [Talkers -> RequestStates]
    BY DEF forwardSRPtoController, ConnectionInv, ConnectionTypes, RequestStates
<1>6. ConnectionTypes'
    BY <1>2, <1>4, <1>5 DEF ConnectionInv, ConnectionTypes, controllerVars
<1>7. HelloFromController'
    BY <1>2 DEF ConnectionInv, HelloFromController, Listed, controllerVars
<1>8. ListedOnce(switchesList)' /\ IndexedRows'
    BY <1>2, RowsUnchanged DEF ConnectionInv, controllerVars
<1> QED BY <1>6, <1>7, <1>8 DEF ConnectionInv

LEMMA ConnectionStep == ConnectionInv /\ [Next]_connectionVars => ConnectionInv'
<1> SUFFICES ASSUME ConnectionInv, [Next]_connectionVars PROVE ConnectionInv'
    OBVIOUS
<1>1. CASE UNCHANGED connectionVars
  <2>1. ConnectionTypes'
      BY <1>1 DEF connectionVars, controllerVars, ConnectionInv, ConnectionTypes
  <2>2. HelloFromController'
      BY <1>1 DEF connectionVars, controllerVars, ConnectionInv, HelloFromController, Listed
  <2>3. ListedOnce(switchesList)' /\ IndexedRows'
      BY <1>1, RowsUnchanged DEF connectionVars, controllerVars, ConnectionInv
  <2> QED BY <2>1, <2>2, <2>3 DEF ConnectionInv
<1>2. CASE Next
    BY <1>2, ConnectKeeps, BootKeeps, HandleMessageKeeps, HelloKeeps, FeaturesReplyKeeps,
       ExtractKeeps, PacketInKeeps, AckKeeps, AgentKeeps, AdvertiseKeeps DEF Next, processQueuedMsg
<1> QED BY <1>1, <1>2

(* The invariant of start-up, which the properties follow from.            *)
THEOREM ConnectionInvHolds == Spec => []ConnectionInv
BY ConnectionInit, ConnectionStep, PTL DEF Spec

-----------------------------------------------------------------------------
(* Types of the agents, the controller's tables and the requests: the list *)
(* of connections is never longer than the topology, whatever order the    *)
(* agents connect in (registerConnection).                                 *)
THEOREM ConnectionTypeCorrect == Spec => []ConnectionTypeOK
<1>1. ConnectionInv => ConnectionTypeOK
  <2> SUFFICES ASSUME ConnectionInv PROVE ConnectionTypeOK
      OBVIOUS
  <2>1. Len(switchesList) <= N
      BY ListLength DEF ConnectionInv, ConnectionTypes
  <2>2. Entries \subseteq [sw : Switches, mac : BOOLEAN, topo_index : Switches \cup {Unset}]
    <3>1. \A e \in Entries : e \in Switch_Info
        BY EntriesOf DEF ConnectionInv, ConnectionTypes
    <3> QED BY <3>1 DEF Switch_Info
  <2> QED BY <2>1, <2>2 DEF ConnectionTypeOK, ConnectionInv, ConnectionTypes, RequestStates
<1> QED BY <1>1, ConnectionInvHolds, PTL

(* An agent that believes to have a controller is in the controller's list *)
(* exactly once, so that findSwitchInfoFor finds its entry for whatever it *)
(* sends (registerConnection, processControlPlanePacket).                  *)
THEOREM HasControllerRegistered == Spec => []HasControllerIsRegistered
<1>1. ConnectionInv => HasControllerIsRegistered
  <2> SUFFICES ASSUME ConnectionInv, NEW s \in Switches, agents[s].hasController
               PROVE  Cardinality({i \in DOMAIN switchesList : switchesList[i].sw = s}) = 1
      BY DEF HasControllerIsRegistered
  <2>1. PICK i \in DOMAIN switchesList : switchesList[i].sw = s
      BY DEF ConnectionInv, HelloFromController, Listed
  <2>2. {j \in DOMAIN switchesList : switchesList[j].sw = s} = {i}
      BY <2>1 DEF ConnectionInv, ListedOnce
  <2> QED BY <2>2, FS_Singleton
<1> QED BY <1>1, ConnectionInvHolds, PTL

(* Whose connection a row of the table leads to has an entry with its MAC  *)
(* address and its own index: rules go only to switches whose ACK counts for themselves    *)
(* (extractTopology, extractSwitchInfoTable).                              *)
THEOREM AcksAttributed == Spec => []AcksAreAttributed
<1>1. ConnectionInv => AcksAreAttributed
  <2> SUFFICES ASSUME ConnectionInv, NEW m \in Switches, SwitchInfoTable[m] \in Switches
               PROVE  \E e \in Entries : e.sw = SwitchInfoTable[m] /\ e.mac /\ e.topo_index = e.sw
      BY DEF AcksAreAttributed
  <2>1. /\ m \in DOMAIN switchesList /\ SwitchInfoTable[m] = switchesList[m].sw
        /\ switchesList[m].mac /\ switchesList[m].topo_index = switchesList[m].sw
      BY ConstantTypes DEF ConnectionInv, IndexedRows
  <2>2. switchesList[m] \in Entries
      BY <2>1, EntriesOf
  <2> QED BY <2>1, <2>2
<1> QED BY <1>1, ConnectionInvHolds, PTL

(* Once every switch has its index, every row of the table is filled: the  *)
(* list is as long as the topology and each of its places has an index.    *)
LEMMA AllIndexed ==
    ASSUME ConnectionInv, \A s \in Switches : \E e \in Entries : e.sw = s /\ e.topo_index = s
    PROVE  /\ \A m \in Switches : SwitchInfoTable[m] \in Switches
           /\ \A s \in Switches : \E e \in Entries : e.sw = s /\ e.mac
<1>1. \A s \in Switches : \E i \in DOMAIN switchesList :
         switchesList[i].sw = s /\ switchesList[i].topo_index = s
    BY EntriesOf
<1>2. \A s \in Switches : Listed(switchesList, s)
    BY <1>1 DEF Listed
<1>3. DOMAIN switchesList = Switches
    BY <1>2, ListLength, ConstantTypes DEF ConnectionInv, ConnectionTypes
<1>4. ASSUME NEW m \in Switches
      PROVE  SwitchInfoTable[m] \in Switches
  <2>1. switchesList[m].sw \in Switches
    <3>1. switchesList[m] \in Switch_Info
        BY <1>3 DEF ConnectionInv, ConnectionTypes
    <3> QED BY <3>1 DEF Switch_Info
  <2>2. PICK i \in DOMAIN switchesList :
           switchesList[i].sw = switchesList[m].sw /\ switchesList[i].topo_index = switchesList[m].sw
      BY <1>1, <2>1
  <2>3. i = m
      BY <1>3, <2>2 DEF ConnectionInv, ListedOnce
  <2>4. switchesList[m].topo_index # Unset /\ switchesList[m].sw # Unset
      BY <2>1, <2>2, <2>3, ConstantTypes
  <2> QED BY <1>3, <2>1, <2>4 DEF ConnectionInv, IndexedRows
<1>5. \A s \in Switches : \E e \in Entries : e.sw = s /\ e.mac
    BY <1>1, EntriesOf, ConstantTypes DEF ConnectionInv, IndexedRows
<1> QED BY <1>4, <1>5

(* A start-up in which every switch was known when the topology was        *)
(* extracted ends the simulation no more: neither the lookup of the source *)
(* nor the access with at() to the row of a switch of the path can fail    *)
(* (ProcessPacketIn, configureDataPlane).                                  *)
THEOREM FailsInSetupOnly == Spec => FailsOnlyInSetup
<1>1. ConnectionInv /\ [Next]_connectionVars =>
         [~ aborted /\ aborted' =>
            ~ (extracted /\ \A s \in Switches : \E e \in Entries : e.sw = s /\ e.topo_index = s)
         ]_connectionVars
  <2> SUFFICES ASSUME ConnectionInv, Next, ~ aborted, aborted', extracted,
                      \A s \in Switches : \E e \in Entries : e.sw = s /\ e.topo_index = s
               PROVE  FALSE
      OBVIOUS
  <2>1. /\ \A m \in Switches : SwitchInfoTable[m] \in Switches
        /\ \A s \in Switches : \E e \in Entries : e.sw = s /\ e.mac
      BY AllIndexed
  <2>2. CASE ProcessPacketIn
      BY <2>1, <2>2, PathRequest
  <2>3. CASE UNCHANGED aborted
      BY <2>3
  <2>4. UNCHANGED aborted \/ ProcessPacketIn
      BY DEF Next, processQueuedMsg, boot, extractTopology, connect, handleMessage,
             processControlPlanePacket, forwardSRPtoController, ProcessHello, handleFeaturesReply,
             ProcessAck
  <2> QED BY <2>2, <2>3, <2>4
<1> QED BY <1>1, ConnectionInvHolds, PTL DEF Spec, FailsOnlyInSetup
=============================================================================
