------------------------ MODULE PathReconfigProofs ------------------------
(* Proofs about PathReconfig, for every set of streams, switches and paths *)
(* and every number of versions: types, deployment before release, what    *)
(* becomes of a version - handed out once, held by its stream, applied in  *)
(* the order of the numbers -, the rules a frame finds on its way, and the *)
(* steps of StreamUpdate under the refinement mapping.                     *)
EXTENDS PathReconfigRefinement, FiniteSetTheorems, FunctionTheorems, WellFoundedInduction,
        TLAPS

USE StreamsAssumption, NoSwitchAssumption, VersionSpaceAssumption, TaggingAssumption,
    IngressAssumption, MaxFlowEntriesAssumption, LastVersionAssumption, ModesAssumption

-----------------------------------------------------------------------------
(* Queues: what is in a queue after a message is appended, consumed, or a  *)
(* batch is added.                                                         *)
LEMMA HoldsAppend ==
    ASSUME NEW S, NEW q \in Seq(S), NEW x \in S, NEW m
    PROVE  Holds(Append(q, x), m) <=> Holds(q, m) \/ m = x
<1>1. /\ Len(Append(q, x)) = Len(q) + 1
      /\ \A i \in 1 .. Len(q) : Append(q, x)[i] = q[i]
      /\ Append(q, x)[Len(q) + 1] = x
      /\ DOMAIN Append(q, x) = 1 .. Len(q) + 1
      /\ DOMAIN q = 1 .. Len(q) /\ Len(q) \in Nat
    OBVIOUS
<1>2. Holds(q, m) => Holds(Append(q, x), m)
    BY <1>1 DEF Holds
<1>3. m = x => Holds(Append(q, x), m)
    BY <1>1 DEF Holds
<1>4. Holds(Append(q, x), m) => Holds(q, m) \/ m = x
    BY <1>1 DEF Holds
<1> QED BY <1>2, <1>3, <1>4

LEMMA HoldsTail ==
    ASSUME NEW S, NEW q \in Seq(S), q # << >>, NEW m
    PROVE  /\ Holds(Tail(q), m) => Holds(q, m)
           /\ Holds(q, Head(q))
           /\ Tail(q) \in Seq(S) /\ Head(q) \in S
<1>1. /\ Len(Tail(q)) = Len(q) - 1 /\ Len(q) \in Nat \ {0}
      /\ \A i \in 1 .. Len(q) - 1 : Tail(q)[i] = q[i + 1]
      /\ DOMAIN Tail(q) = 1 .. Len(q) - 1 /\ DOMAIN q = 1 .. Len(q)
      /\ Tail(q) \in Seq(S) /\ Head(q) \in S /\ Head(q) = q[1]
    OBVIOUS
<1> QED BY <1>1 DEF Holds

LEMMA HoldsConcat ==
    ASSUME NEW S, NEW q \in Seq(S), NEW r \in Seq(S), NEW m
    PROVE  /\ q \o r \in Seq(S)
           /\ Holds(q \o r, m) <=> Holds(q, m) \/ Holds(r, m)
<1>1. /\ Len(q \o r) = Len(q) + Len(r) /\ Len(q) \in Nat /\ Len(r) \in Nat
      /\ q \o r \in Seq(S)
      /\ DOMAIN (q \o r) = 1 .. Len(q) + Len(r)
      /\ DOMAIN q = 1 .. Len(q) /\ DOMAIN r = 1 .. Len(r)
      /\ \A i \in 1 .. Len(q) : (q \o r)[i] = q[i]
      /\ \A i \in 1 .. Len(r) : (q \o r)[Len(q) + i] = r[i]
      /\ \A i \in Len(q) + 1 .. Len(q) + Len(r) : (q \o r)[i] = r[i - Len(q)]
    OBVIOUS
<1>2. Holds(q, m) => Holds(q \o r, m)
    BY <1>1 DEF Holds
<1>3. Holds(r, m) => Holds(q \o r, m)
  <2>1. SUFFICES ASSUME NEW i \in 1 .. Len(r), r[i] = m
                 PROVE  Holds(q \o r, m)
      BY <1>1 DEF Holds
  <2>2. Len(q) + i \in 1 .. Len(q) + Len(r)
      BY <1>1
  <2> QED BY <1>1, <2>1, <2>2 DEF Holds
<1>4. Holds(q \o r, m) => Holds(q, m) \/ Holds(r, m)
  <2>1. SUFFICES ASSUME NEW i \in 1 .. Len(q) + Len(r), (q \o r)[i] = m
                 PROVE  Holds(q, m) \/ Holds(r, m)
      BY <1>1 DEF Holds
  <2>2. CASE i <= Len(q)
      BY <1>1, <2>1, <2>2 DEF Holds
  <2>3. CASE i > Len(q)
    <3>1. i \in Len(q) + 1 .. Len(q) + Len(r) /\ i - Len(q) \in 1 .. Len(r)
        BY <1>1, <2>3
    <3> QED BY <1>1, <2>1, <3>1 DEF Holds
  <2> QED BY <1>1, <2>2, <2>3
<1> QED BY <1>1, <1>2, <1>3, <1>4

LEMMA HoldsSingle ==
    ASSUME NEW x, NEW m
    PROVE  /\ Holds(<< x >>, m) <=> m = x
           /\ ~ Holds(<< >>, m)
BY DEF Holds

-----------------------------------------------------------------------------
(* A path the optimiser may answer with.                                   *)
LEMMA PathFacts ==
    ASSUME NEW s \in Streams, NEW p \in CandidatePaths[s]
    PROVE  /\ p \in Seq(Switches) /\ Len(p) >= 2
           /\ p[1] = Ingress[s] /\ p[1] \in Switches /\ p # << >>
           /\ SwitchesOn(p) \subseteq Switches
BY CandidatePathsAssumption DEF Paths, SwitchesOn

LEMMA MatchVersionType ==
    ASSUME NEW e \in EngineState
    PROVE  match_version(e) \in Versions
BY DEF match_version, Versions, EngineState

(* The loop body of configureDataPlane keeps the types of the engine.      *)
LEMMA AssignType ==
    ASSUME NEW e \in EngineState, NEW s \in Streams, NEW p \in CandidatePaths[s]
    PROVE  assign(e, s, p) \in EngineState
<1> DEFINE f == addMatchVersiontoStream(e, s)
           v == match_version(e)
<1>1. f \in EngineState
  <2>1. (e.OF_match_version_number + 1) % VersionSpace \in Versions
      BY DEF EngineState, Versions
  <2>2. e.OF_match_version_number \in Versions /\ e.StreamFlowVersionTable \in [Streams -> versionInfo]
      BY DEF EngineState
  <2>3. [next |-> e.OF_match_version_number,
         current |-> e.StreamFlowVersionTable[s].current] \in versionInfo
      BY <2>2 DEF versionInfo
  <2> QED BY <2>1, <2>2, <2>3 DEF addMatchVersiontoStream, EngineState
<1>2. v \in Versions
    BY MatchVersionType
<1>3. p \in Paths /\ SwitchesOn(p) \in SUBSET Switches /\ p[1] \in Switches \cup {NoSwitch}
    BY PathFacts DEF Paths
<1> QED BY <1>1, <1>2, <1>3 DEF assign, EngineState

(* A rule that switch x gets for the path p of stream s.                   *)
PathRule(s, p, x, entry) ==
    \E i \in DOMAIN p : p[i] = x /\ entry = createDesiredMatch(s, p, i, entry.tag)

(* What the loop body sends: FlowMods for this stream, of this version.    *)
LEMMA AssignSends ==
    ASSUME NEW e \in EngineState, NEW s \in Streams, NEW p \in CandidatePaths[s],
           NEW sw \in Switches
    PROVE  /\ assignSends(e, s, p, sw) \in Seq(ToSwitchMsg)
           /\ \A m : Holds(assignSends(e, s, p, sw), m) =>
                 /\ m \in ToSwitchMsg /\ m.type = "FlowMod"
                 /\ m.entry.tag = match_version(e)
                 /\ m.entry.flow = FlowOf[s] /\ PathRule(s, p, sw, m.entry)
<1> DEFINE i == CHOOSE j \in DOMAIN p : p[j] = sw
           x == FlowMod(s, p, i, match_version(e))
<1>1. CASE sw \notin SwitchesOn(p)
  <2>1. assignSends(e, s, p, sw) = << >>
      BY <1>1 DEF assignSends, insertAssignedPath
  <2>2. \A m : ~ Holds(<< >>, m)
      BY HoldsSingle
  <2> QED BY <2>1, <2>2
<1>2. CASE sw \in SwitchesOn(p)
  <2>1. i \in 1 .. Len(p) /\ Len(p) \in Nat
      BY <1>2, PathFacts DEF SwitchesOn
  <2>2. /\ i # 1 => p[i - 1] \in Switches
        /\ i # Len(p) => p[i + 1] \in Switches
      BY <2>1, PathFacts
  <2>3. x.entry \in Entry /\ x.entry.tag = match_version(e) /\ x.entry.flow = FlowOf[s]
        /\ x.type = "FlowMod" /\ x = [type |-> "FlowMod", entry |-> x.entry]
      BY <2>1, <2>2, MatchVersionType DEF FlowMod, createDesiredMatch, Entry, InPorts, OutPorts
  <2>4. x \in ToSwitchMsg
      BY <2>3 DEF ToSwitchMsg
  <2>5. assignSends(e, s, p, sw) = << x >>
      BY <1>2 DEF assignSends, insertAssignedPath
  <2>6. PathRule(s, p, sw, x.entry)
    <3>1. i \in DOMAIN p /\ p[i] = sw
        BY <1>2 DEF SwitchesOn
    <3>2. x.entry = createDesiredMatch(s, p, i, x.entry.tag)
        BY <2>3 DEF FlowMod
    <3> QED BY <3>1, <3>2 DEF PathRule
  <2> HIDE DEF x
  <2> QED BY <2>3, <2>4, <2>5, <2>6, HoldsSingle
<1> QED BY <1>1, <1>2

(* A nonempty set of stream ids has a first one.                           *)
LEMMA FirstExists ==
    ASSUME NEW T, T \subseteq Nat, T # {}
    PROVE  \E x \in T : \A y \in T : x <= y
<1> DEFINE R == OpToRel(<, Nat)
<1>1. IsWellFoundedOn(R, Nat)
    BY NatLessThanWellFounded
<1>2. \A x, y \in Nat : y < x => << y, x >> \in R
    BY DEF OpToRel
<1> HIDE DEF R
<1>3. PICK x \in T : \A y \in T : << y, x >> \notin R
    BY <1>1, WFMin
<1>4. \A y \in T : ~ (y < x)
    BY <1>2, <1>3
<1> QED BY <1>3, <1>4

(* activateMatchVersion activates a stream that waits for the version.     *)
LEMMA FirstWaiting ==
    ASSUME NEW e \in EngineState, NEW v \in Versions
    PROVE  /\ WaitingFor(e, v) # {} => FirstWaitingFor(e, v) \in WaitingFor(e, v)
           /\ WaitingFor(e, v) \subseteq Streams
           /\ ActivatedStreams(e, v) \subseteq Streams \cup {0}
<1>1. WaitingFor(e, v) \subseteq Streams /\ WaitingFor(e, v) \subseteq Nat
    BY DEF WaitingFor
<1>2. WaitingFor(e, v) # {} => FirstWaitingFor(e, v) \in WaitingFor(e, v)
    BY <1>1, FirstExists DEF FirstWaitingFor
<1> QED BY <1>1, <1>2 DEF ActivatedStreams

LEMMA ReceiveAckType ==
    ASSUME NEW e \in EngineState, NEW v \in Versions, NEW sw \in Switches
    PROVE  receiveAck(e, v, sw) \in EngineState
<1>1. StillWaiting(e, v, sw) \in SUBSET Switches
    BY DEF StillWaiting, EngineState
<1>2. activateMatchVersion(e, v) \in EngineState
  <2>1. [next |-> 0, current |-> v] \in versionInfo
      BY DEF versionInfo, Versions
  <2> QED BY <2>1, FirstWaiting DEF activateMatchVersion, EngineState
<1> QED BY <1>1, <1>2 DEF receiveAck, EngineState

(* The flow table holds entries and nothing else.                          *)
LEMMA TableType ==
    ASSUME NEW t \in Seq(Entry), NEW x \in Entry
    PROVE  /\ addEntry(t, x) \subseteq Seq(Entry)
           /\ \A pos \in DOMAIN t : removeAgedEntry(t, pos) \in Seq(Entry)
<1>1. Len(t) \in Nat /\ t \in [1 .. Len(t) -> Entry] /\ DOMAIN t = 1 .. Len(t)
    OBVIOUS
<1>2. ASSUME NEW pos \in 1 .. Len(t) + 1
      PROVE  InsertedAt(t, pos, x) \in [1 .. Len(t) + 1 -> Entry]
    BY <1>1, <1>2 DEF InsertedAt
<1>3. ASSUME NEW n \in Nat, NEW f \in [1 .. n -> Entry]
      PROVE  f \in Seq(Entry)
    BY <1>3
<1>4. ASSUME NEW pos \in DOMAIN t
      PROVE  removeAgedEntry(t, pos) \in [1 .. Len(t) - 1 -> Entry] /\ Len(t) - 1 \in Nat
    BY <1>1, <1>4 DEF removeAgedEntry
<1>5. \A pos \in DOMAIN t : removeAgedEntry(t, pos) \in Seq(Entry)
    BY <1>3, <1>4
<1>6. \A pos \in 1 .. Len(t) + 1 : InsertedAt(t, pos, x) \in Seq(Entry)
  <2>1. Len(t) + 1 \in Nat
      BY <1>1
  <2> QED BY <1>2, <1>3, <2>1
<1>7. addEntry(t, x) \subseteq Seq(Entry)
    BY <1>6 DEF addEntry
<1> QED BY <1>5, <1>7

LEMMA LookupType ==
    ASSUME NEW t \in Seq(Entry), NEW f, NEW from, lookup(t, f, from) # 0
    PROVE  /\ lookup(t, f, from) \in DOMAIN t
           /\ tryMatch(t[lookup(t, f, from)], f, from)
<1> DEFINE hits == Matching(t, f, from)
<1>1. hits \subseteq DOMAIN t /\ hits \subseteq Nat
    BY DEF Matching
<1>2. hits # {}
    BY DEF lookup
<1>3. lookup(t, f, from) \in hits
    BY <1>1, <1>2, FirstExists DEF lookup
<1> QED BY <1>3 DEF Matching

LEMMA MessageTypes ==
    ASSUME TypeOK, NEW sw \in Switches
    PROVE  /\ NextFrom(sw, "TalkerAdvertise") => Head(toController[sw]).sid \in Streams
           /\ NextFrom(sw, "ACKforFlowMod") => Head(toController[sw]).version \in Versions
           /\ NextAt(sw, "FlowMod") => Head(toSwitch[sw]).entry \in Entry
           /\ NextAt(sw, "ListenerReady") => Head(toSwitch[sw]).sid \in Streams
           /\ NextAt(sw, "ActivationMessage") =>
                 Head(toSwitch[sw]).sid \in Streams \cup {0} /\ Head(toSwitch[sw]).version \in Versions
<1>1. toController[sw] # << >> => Head(toController[sw]) \in ToControllerMsg
    BY HoldsTail DEF TypeOK
<1>2. toSwitch[sw] # << >> => Head(toSwitch[sw]) \in ToSwitchMsg
    BY HoldsTail DEF TypeOK
<1>3. \A m \in ToControllerMsg : /\ m.type = "TalkerAdvertise" => m.sid \in Streams
                                 /\ m.type = "ACKforFlowMod" => m.version \in Versions
    BY DEF ToControllerMsg
<1>4. \A m \in ToSwitchMsg :
          /\ m.type = "FlowMod" => m.entry \in Entry
          /\ m.type = "ListenerReady" => m.sid \in Streams
          /\ m.type = "ActivationMessage" => m.sid \in Streams \cup {0} /\ m.version \in Versions
    BY DEF ToSwitchMsg
<1> QED BY <1>1, <1>2, <1>3, <1>4 DEF NextFrom, NextAt

(* Consuming a message keeps the type of the queues.                       *)
LEMMA ConsumeTypes ==
    ASSUME TypeOK, NEW sw \in Switches
    PROVE  /\ toController[sw] # << >> /\ ConsumeFrom(sw) =>
                 toController' \in [Switches -> Seq(ToControllerMsg)]
           /\ toSwitch[sw] # << >> /\ ConsumeAt(sw) => toSwitch' \in [Switches -> Seq(ToSwitchMsg)]
<1>1. toController[sw] # << >> => Tail(toController[sw]) \in Seq(ToControllerMsg)
    BY HoldsTail DEF TypeOK
<1>2. toSwitch[sw] # << >> => Tail(toSwitch[sw]) \in Seq(ToSwitchMsg)
    BY HoldsTail DEF TypeOK
<1>3. toController[sw] # << >> /\ ConsumeFrom(sw) =>
          toController' \in [Switches -> Seq(ToControllerMsg)]
    BY <1>1 DEF TypeOK, ConsumeFrom
<1>4. toSwitch[sw] # << >> /\ ConsumeAt(sw) => toSwitch' \in [Switches -> Seq(ToSwitchMsg)]
    BY <1>2 DEF TypeOK, ConsumeAt
<1> QED BY <1>3, <1>4

LEMMA ListenerReadyType ==
    ASSUME NEW s \in Streams, NEW x
    PROVE  /\ sendListenerReady(s, x) \in Seq(ToSwitchMsg)
           /\ \A m : Holds(sendListenerReady(s, x), m) => m = ListenerReady(s)
<1>1. ListenerReady(s) \in ToSwitchMsg
    BY DEF ListenerReady, ToSwitchMsg
<1>2. << ListenerReady(s) >> \in Seq(ToSwitchMsg) /\ << >> \in Seq(ToSwitchMsg)
    BY <1>1
<1> QED BY <1>2, HoldsSingle DEF sendListenerReady

-----------------------------------------------------------------------------
LEMMA TypeInit == Init => TypeOK
<1>1. 0 \in Versions /\ 1 % VersionSpace \in Versions
    BY DEF Versions
<1>2. << >> \in Paths /\ << >> \in Seq(Entry) /\ << >> \in Seq(ToSwitchMsg)
      /\ << >> \in Seq(ToControllerMsg)
    BY DEF Paths
<1> QED BY <1>1, <1>2 DEF Init, EngineInit, SwitchInit, TypeOK, EngineState, versionInfo

(* Every step keeps the types: one step of the proof per action.           *)
LEMMA TypeStep ==
    ASSUME TypeOK, [Next]_vars
    PROVE  TypeOK'
<1>1. ASSUME NEW s \in Streams, Advertise(s) PROVE TypeOK'
  <2>1. TalkerAdvertise(s) \in ToControllerMsg /\ Ingress[s] \in Switches
      BY DEF TalkerAdvertise, ToControllerMsg
  <2>2. toController' \in [Switches -> Seq(ToControllerMsg)]
      BY <1>1, <2>1 DEF Advertise, TypeOK
  <2>3. SeenStreams' \in [Switches -> SUBSET Streams]
      BY <1>1, <2>1 DEF Advertise, RelayTalkerAdvertise, TypeOK
  <2> QED BY <1>1, <2>2, <2>3 DEF Advertise, RelayTalkerAdvertise, TypeOK
<1>2. ASSUME NEW sw \in Switches, RejectTalker(sw) PROVE TypeOK'
  <2>1. toController' \in [Switches -> Seq(ToControllerMsg)]
      BY <1>2, ConsumeTypes DEF RejectTalker, NextFrom
  <2> QED BY <1>2, <2>1 DEF RejectTalker, TypeOK, switchVars
<1>3. ASSUME NEW sw \in Switches, AcceptTalker(sw) PROVE TypeOK'
  <2>1. toController' \in [Switches -> Seq(ToControllerMsg)]
      BY <1>3, ConsumeTypes DEF AcceptTalker, NextFrom
  <2> DEFINE s == Head(toController[sw]).sid
  <2>2. s \in Streams /\ ce \in EngineState
      BY <1>3, MessageTypes DEF AcceptTalker, TypeOK
  <2> HIDE DEF s
  <2>3. PICK p \in CandidatePaths[s] :
        /\ ce' = assign(ce, s, p)
        /\ toSwitch' = [x \in Switches |->
                          toSwitch[x] \o assignSends(ce, s, p, x)
                          \o sendListenerReady(s, x)]
        /\ route' = [route EXCEPT ![match_version(ce)] = [sid |-> s, path |-> p]]
      BY <1>3 DEF AcceptTalker, s
  <2>4. ce' \in EngineState
      BY <2>2, <2>3, AssignType
  <2>5. toSwitch' \in [Switches -> Seq(ToSwitchMsg)]
    <3>1. ASSUME NEW x \in Switches
          PROVE toSwitch[x] \o assignSends(ce, s, p, x)
                \o sendListenerReady(s, x) \in Seq(ToSwitchMsg)
      <4>1. toSwitch[x] \in Seq(ToSwitchMsg)
          BY DEF TypeOK
      <4>2. assignSends(ce, s, p, x) \in Seq(ToSwitchMsg)
          BY <2>2, AssignSends
      <4>3. sendListenerReady(s, x) \in Seq(ToSwitchMsg)
          BY <2>2, ListenerReadyType
      <4> QED BY <4>1, <4>2, <4>3
    <3> QED BY <3>1, <2>3
  <2>6. route' \in [Versions -> [sid : Streams \cup {0}, path : Paths]]
      BY <2>2, <2>3, MatchVersionType, PathFacts DEF TypeOK, Paths
  <2> QED BY <1>3, <2>1, <2>4, <2>5, <2>6 DEF AcceptTalker, TypeOK, switchVars
<1>4. ASSUME NEW sw \in Switches, AcceptAndMove(sw) PROVE TypeOK'
  <2>1. toController' \in [Switches -> Seq(ToControllerMsg)]
      BY <1>4, ConsumeTypes DEF AcceptAndMove, NextFrom
  <2> DEFINE s == Head(toController[sw]).sid
  <2>2. s \in Streams /\ ce \in EngineState
      BY <1>4, MessageTypes DEF AcceptAndMove, TypeOK
  <2> HIDE DEF s
  <2>3. PICK p \in CandidatePaths[s], t \in Streams \ {s} : \E q \in CandidatePaths[t] :
        LET e == assign(ce, t, q) IN
        /\ ce' = assign(e, s, p)
        /\ toSwitch' = [x \in Switches |->
                          toSwitch[x] \o assignSends(ce, t, q, x)
                          \o assignSends(e, s, p, x)
                          \o sendListenerReady(s, x)]
        /\ route' = [route EXCEPT ![match_version(ce)] = [sid |-> t, path |-> q],
                                  ![match_version(e)]  = [sid |-> s, path |-> p]]
      BY <1>4 DEF AcceptAndMove, s
  <2>4. PICK q \in CandidatePaths[t] :
        LET e == assign(ce, t, q) IN
        /\ ce' = assign(e, s, p)
        /\ toSwitch' = [x \in Switches |->
                          toSwitch[x] \o assignSends(ce, t, q, x)
                          \o assignSends(e, s, p, x)
                          \o sendListenerReady(s, x)]
        /\ route' = [route EXCEPT ![match_version(ce)] = [sid |-> t, path |-> q],
                                  ![match_version(e)]  = [sid |-> s, path |-> p]]
      BY <2>3
  <2> DEFINE e == assign(ce, t, q)
  <2>5. e \in EngineState
      BY <2>2, AssignType
  <2>6. /\ ce' = assign(e, s, p)
        /\ toSwitch' = [x \in Switches |->
                          toSwitch[x] \o assignSends(ce, t, q, x)
                          \o assignSends(e, s, p, x)
                          \o sendListenerReady(s, x)]
        /\ route' = [route EXCEPT ![match_version(ce)] = [sid |-> t, path |-> q],
                                  ![match_version(e)]  = [sid |-> s, path |-> p]]
      BY <2>4
  <2> HIDE DEF e
  <2>7. ce' \in EngineState
      BY <2>2, <2>5, <2>6, AssignType
  <2>8. toSwitch' \in [Switches -> Seq(ToSwitchMsg)]
    <3>1. ASSUME NEW x \in Switches
          PROVE toSwitch[x] \o assignSends(ce, t, q, x) \o assignSends(e, s, p, x)
                \o sendListenerReady(s, x) \in Seq(ToSwitchMsg)
      <4>1. toSwitch[x] \in Seq(ToSwitchMsg)
          BY DEF TypeOK
      <4>2. assignSends(ce, t, q, x) \in Seq(ToSwitchMsg)
          BY <2>2, AssignSends
      <4>3. assignSends(e, s, p, x) \in Seq(ToSwitchMsg)
          BY <2>2, <2>5, AssignSends
      <4>4. sendListenerReady(s, x) \in Seq(ToSwitchMsg)
          BY <2>2, ListenerReadyType
      <4> QED BY <4>1, <4>2, <4>3, <4>4
    <3> QED BY <3>1, <2>6
  <2>9. route' \in [Versions -> [sid : Streams \cup {0}, path : Paths]]
    <3>1. match_version(ce) \in Versions /\ match_version(e) \in Versions
        BY <2>2, <2>5, MatchVersionType
    <3>2. p \in Paths /\ q \in Paths
        BY <2>2, PathFacts DEF Paths
    <3> QED BY <2>2, <2>6, <3>1, <3>2 DEF TypeOK
  <2> QED BY <1>4, <2>1, <2>7, <2>8, <2>9 DEF AcceptAndMove, TypeOK, switchVars
<1>5. ASSUME NEW sw \in Switches, ReceiveAck(sw) PROVE TypeOK'
  <2>1. toController' \in [Switches -> Seq(ToControllerMsg)]
      BY <1>5, ConsumeTypes DEF ReceiveAck, NextFrom
  <2> DEFINE v == Head(toController[sw]).version
  <2>2. v \in Versions /\ ce \in EngineState
      BY <1>5, MessageTypes DEF ReceiveAck, TypeOK
  <2>3. ce' \in EngineState
      BY <1>5, <2>2, ReceiveAckType DEF ReceiveAck
  <2>4. toSwitch' \in [Switches -> Seq(ToSwitchMsg)]
    <3>1. ASSUME NEW s \in ActivatedStreams(ce, v) PROVE Activation(s, v) \in ToSwitchMsg
        BY <2>2, FirstWaiting DEF Activation, ToSwitchMsg
    <3>2. CASE UNCHANGED toSwitch
        BY <3>2 DEF TypeOK
    <3>3. CASE StillWaiting(ce, v, sw) = {}
      <4>1. PICK s \in ActivatedStreams(ce, v) :
               toSwitch' = [toSwitch EXCEPT ![ce.IngressSwTable[v]] =
                                                Append(@, Activation(s, v))]
          BY <1>5, <3>3 DEF ReceiveAck
      <4>2. Activation(s, v) \in ToSwitchMsg
          BY <3>1
      <4>3. \A q \in Seq(ToSwitchMsg) : Append(q, Activation(s, v)) \in Seq(ToSwitchMsg)
          BY <4>2
      <4> HIDE DEF v
      <4> QED BY <4>1, <4>3 DEF TypeOK
    <3> QED BY <1>5, <3>2, <3>3 DEF ReceiveAck
  <2> QED BY <1>5, <2>1, <2>3, <2>4 DEF ReceiveAck, TypeOK, switchVars
<1>6. ASSUME NEW sw \in Switches, HandleFlowMod(sw) PROVE TypeOK'
  <2> DEFINE entry == Head(toSwitch[sw]).entry
  <2>1. entry \in Entry /\ toSwitch' \in [Switches -> Seq(ToSwitchMsg)]
      BY <1>6, MessageTypes, ConsumeTypes DEF HandleFlowMod, NextAt
  <2>2. Ack(entry.tag) \in ToControllerMsg
      BY <2>1 DEF Ack, ToControllerMsg, Entry
  <2>3. toController' \in [Switches -> Seq(ToControllerMsg)]
      BY <1>6, <2>2 DEF HandleFlowMod, TypeOK
  <2>4. entries' \in [Switches -> Seq(Entry)]
      BY <1>6, <2>1, TableType DEF HandleFlowMod, handleFlowMod, TypeOK
  <2> QED BY <1>6, <2>1, <2>3, <2>4 DEF HandleFlowMod, handleFlowMod, TypeOK
<1>7. ASSUME NEW sw \in Switches, HandleListenerReady(sw) PROVE TypeOK'
  <2>1. Head(toSwitch[sw]).sid \in Streams /\ toSwitch' \in [Switches -> Seq(ToSwitchMsg)]
      BY <1>7, MessageTypes, ConsumeTypes DEF HandleListenerReady, NextAt
  <2> QED BY <1>7, <2>1 DEF HandleListenerReady, TypeOK, switchVars
<1>8. ASSUME NEW sw \in Switches, HandleActivation(sw) PROVE TypeOK'
  <2>1. /\ Head(toSwitch[sw]).version \in Versions
        /\ toSwitch' \in [Switches -> Seq(ToSwitchMsg)]
      BY <1>8, MessageTypes, ConsumeTypes DEF HandleActivation, NextAt
  <2>2. StreamActiveMatchVersionMap' \in [Switches -> [Streams -> Versions]]
      BY <1>8, <2>1 DEF HandleActivation, handleMatchVersionMessage, TypeOK
  <2> QED BY <1>8, <2>1, <2>2 DEF HandleActivation, handleMatchVersionMessage, TypeOK
<1>9. ASSUME NEW sw \in Switches, ExpireRule(sw) PROVE TypeOK'
  <2>1. PICK pos \in DOMAIN entries[sw] : AgeEntry(sw, pos)
      BY <1>9 DEF ExpireRule
  <2>2. entries[sw] \in Seq(Entry)
      BY DEF TypeOK
  <2>3. removeAgedEntry(entries[sw], pos) \in Seq(Entry)
    <3>1. entries[sw][pos] \in Entry
        BY <2>2
    <3> QED BY <2>2, <3>1, TableType
  <2>4. entries' \in [Switches -> Seq(Entry)]
      BY <2>1, <2>3 DEF AgeEntry, TypeOK
  <2> QED BY <1>9, <2>1, <2>4 DEF ExpireRule, AgeEntry, TypeOK
<1>10. ASSUME NEW s \in Observed, SendFrame(s) PROVE TypeOK'
  <2>1. [at |-> Ingress[s], from |-> "talker", tag |-> 0]
        \in [at : Switches, from : InPorts, tag : Versions]
      BY DEF InPorts, Versions
  <2>2. frame' \in [Observed -> {NoFrame} \cup [at : Switches, from : InPorts, tag : Versions]]
      BY <1>10, <2>1 DEF SendFrame, TypeOK
  <2> QED BY <1>10, <2>2 DEF SendFrame, TypeOK, switchVars
<1>11. ASSUME NEW s \in Observed, RelayFrame(s) PROVE TypeOK'
  <2> DEFINE sw == frame[s].at
             out == entries[sw][RuleFor(s)].outport
             new == [at |-> out, from |-> sw, tag |-> TagAt(sw, s, frame[s].tag)]
  <2>1. frame[s] \in [at : Switches, from : InPorts, tag : Versions] /\ s \in Streams
      BY <1>11 DEF RelayFrame, TypeOK
  <2>2. sw \in Switches /\ entries[sw] \in Seq(Entry) /\ TagAt(sw, s, frame[s].tag) \in Versions
      BY <2>1 DEF TypeOK, TagAt
  <2>3. RuleFor(s) # 0 => entries[sw][RuleFor(s)] \in Entry
      BY <2>2, LookupType DEF RuleFor
  <2>4. RuleFor(s) # 0 /\ out # "listener" => out \in Switches
      BY <2>3 DEF Entry, OutPorts
  <2>5. RuleFor(s) # 0 /\ out # "listener" =>
            new \in [at : Switches, from : InPorts, tag : Versions]
      BY <2>2, <2>4 DEF InPorts
  <2>6. frame' = [frame EXCEPT ![s] = IF RuleFor(s) = 0 \/ out = "listener" THEN NoFrame ELSE new]
      BY <1>11 DEF RelayFrame
  <2> HIDE DEF new, out
  <2>7. frame' \in [Observed -> {NoFrame} \cup [at : Switches, from : InPorts, tag : Versions]]
      BY <2>5, <2>6 DEF TypeOK
  <2> QED BY <1>11, <2>7 DEF RelayFrame, TypeOK, switchVars
<1>12. CASE UNCHANGED vars
    BY <1>12 DEF TypeOK, vars, switchVars
<1> QED BY <1>1, <1>2, <1>3, <1>4, <1>5, <1>6, <1>7, <1>8, <1>9, <1>10, <1>11, <1>12
        DEF Next, Controller, Agent

(* Type correctness, for all values of the constants: in particular no     *)
(* handler ever looks up a version outside its 16 bits or sends a message  *)
(* of a shape its receiver does not know.                                  *)
THEOREM TypeCorrect == Spec => []TypeOK
BY TypeInit, TypeStep, PTL DEF Spec

-----------------------------------------------------------------------------
(* The safety of the update protocol: a version tags frames only when the  *)
(* rules of its whole path are installed.                                  *)

(* The circumstances the ACK protocol relies on: unlimited flow tables,    *)
(* rules that do not expire, tagging switched on, and an optimiser that    *)
(* moves no stream whose previous version is still pending.                *)
Undisturbed ==
    MaxFlowEntries = 0 /\ ~ RulesExpire /\ isTaggingEnabled /\ Moves # "any"

-----------------------------------------------------------------------------
(* A message that is in a queue once.                                      *)
LEMMA OnceAppend ==
    ASSUME NEW S, NEW q \in Seq(S), NEW x \in S, NEW m,
           Once(q, m), m = x => ~ Holds(q, m)
    PROVE  Once(Append(q, x), m)
<1>1. /\ Len(q) \in Nat /\ DOMAIN q = 1 .. Len(q)
      /\ DOMAIN Append(q, x) = 1 .. Len(q) + 1
      /\ \A i \in 1 .. Len(q) : Append(q, x)[i] = q[i]
      /\ Append(q, x)[Len(q) + 1] = x
    OBVIOUS
<1>2. SUFFICES ASSUME NEW i \in 1 .. Len(q) + 1, NEW j \in 1 .. Len(q) + 1,
                      Append(q, x)[i] = m, Append(q, x)[j] = m
               PROVE  i = j
    BY <1>1 DEF Once
<1>3. CASE i \in 1 .. Len(q) /\ j \in 1 .. Len(q)
    BY <1>1, <1>2, <1>3 DEF Once
<1>4. CASE i = Len(q) + 1 \/ j = Len(q) + 1
  <2>1. m = x
      BY <1>1, <1>2, <1>4
  <2>2. ~ (i \in 1 .. Len(q)) /\ ~ (j \in 1 .. Len(q))
      BY <1>1, <1>2, <2>1 DEF Holds
  <2> QED BY <1>1, <2>2
<1> QED BY <1>1, <1>3, <1>4

LEMMA OnceTail ==
    ASSUME NEW S, NEW q \in Seq(S), q # << >>, NEW m, Once(q, m)
    PROVE  Once(Tail(q), m) /\ (m = Head(q) => ~ Holds(Tail(q), m))
<1>1. /\ Len(q) \in Nat \ {0} /\ DOMAIN q = 1 .. Len(q)
      /\ DOMAIN Tail(q) = 1 .. Len(q) - 1
      /\ \A i \in 1 .. Len(q) - 1 : Tail(q)[i] = q[i + 1]
      /\ Head(q) = q[1]
    OBVIOUS
<1>2. \A i \in 1 .. Len(q) - 1 : i + 1 \in 1 .. Len(q) /\ i + 1 # 1
    BY <1>1
<1>3. ASSUME NEW i \in 1 .. Len(q) - 1, NEW j \in 1 .. Len(q) - 1,
             Tail(q)[i] = m, Tail(q)[j] = m
      PROVE  i = j
  <2>1. i + 1 = j + 1
      BY <1>1, <1>2, <1>3 DEF Once
  <2> QED BY <2>1
<1>4. ASSUME m = Head(q), NEW i \in 1 .. Len(q) - 1, Tail(q)[i] = m
      PROVE  FALSE
  <2>1. i + 1 = 1
      BY <1>1, <1>2, <1>4 DEF Once
  <2> QED BY <2>1
<1> QED BY <1>1, <1>3, <1>4 DEF Once, Holds

(* What may stand behind a message in the queue of a switch: rules of      *)
(* other versions, later versions of the same stream.                      *)
Follows(m, k) ==
    /\ m.type = "FlowMod" /\ k.type = "FlowMod" => m.entry.tag # k.entry.tag
    /\ m.type = "ActivationMessage" /\ k.type = "ActivationMessage" /\ m.sid = k.sid =>
           m.version < k.version

InOrder(q) == \A i, j \in DOMAIN q : i < j => Follows(q[i], q[j])

LEMMA InOrderConcat ==
    ASSUME NEW S, NEW q \in Seq(S), NEW r \in Seq(S), InOrder(q), InOrder(r),
           \A m, k : Holds(q, m) /\ Holds(r, k) => Follows(m, k)
    PROVE  InOrder(q \o r)
<1>1. /\ Len(q) \in Nat /\ Len(r) \in Nat
      /\ DOMAIN q = 1 .. Len(q) /\ DOMAIN r = 1 .. Len(r)
      /\ DOMAIN (q \o r) = 1 .. Len(q) + Len(r)
      /\ \A i \in 1 .. Len(q) : (q \o r)[i] = q[i]
      /\ \A i \in Len(q) + 1 .. Len(q) + Len(r) : (q \o r)[i] = r[i - Len(q)]
    OBVIOUS
<1>2. SUFFICES ASSUME NEW i \in 1 .. Len(q) + Len(r), NEW j \in 1 .. Len(q) + Len(r), i < j
               PROVE  Follows((q \o r)[i], (q \o r)[j])
    BY <1>1 DEF InOrder
<1>3. CASE j <= Len(q)
  <2>1. i \in 1 .. Len(q) /\ j \in 1 .. Len(q)
      BY <1>1, <1>2, <1>3
  <2> QED BY <1>1, <1>2, <2>1 DEF InOrder
<1>4. CASE i > Len(q)
  <2>1. /\ i - Len(q) \in 1 .. Len(r) /\ j - Len(q) \in 1 .. Len(r)
        /\ i - Len(q) < j - Len(q)
        /\ i \in Len(q) + 1 .. Len(q) + Len(r) /\ j \in Len(q) + 1 .. Len(q) + Len(r)
      BY <1>1, <1>2, <1>4
  <2> QED BY <1>1, <2>1 DEF InOrder
<1>5. CASE i <= Len(q) /\ j > Len(q)
  <2>1. /\ i \in 1 .. Len(q) /\ j - Len(q) \in 1 .. Len(r)
        /\ j \in Len(q) + 1 .. Len(q) + Len(r)
      BY <1>1, <1>2, <1>5
  <2>2. Holds(q, (q \o r)[i]) /\ Holds(r, (q \o r)[j])
      BY <1>1, <2>1 DEF Holds
  <2> QED BY <2>2
<1> QED BY <1>1, <1>2, <1>3, <1>4, <1>5

LEMMA InOrderAppend ==
    ASSUME NEW S, NEW q \in Seq(S), NEW x \in S, InOrder(q),
           \A m : Holds(q, m) => Follows(m, x)
    PROVE  InOrder(Append(q, x))
<1>1. << x >> \in Seq(S) /\ InOrder(<< x >>)
    BY DEF InOrder
<1>2. \A m : Holds(<< x >>, m) => m = x
    BY HoldsSingle
<1>3. InOrder(q \o << x >>)
    BY <1>1, <1>2, InOrderConcat
<1>4. Append(q, x) = q \o << x >>
    OBVIOUS
<1> QED BY <1>3, <1>4

LEMMA InOrderTail ==
    ASSUME NEW S, NEW q \in Seq(S), q # << >>, InOrder(q)
    PROVE  InOrder(Tail(q)) /\ \A m : Holds(Tail(q), m) => Follows(Head(q), m)
<1>1. /\ Len(q) \in Nat \ {0} /\ DOMAIN q = 1 .. Len(q)
      /\ DOMAIN Tail(q) = 1 .. Len(q) - 1
      /\ \A i \in 1 .. Len(q) - 1 : Tail(q)[i] = q[i + 1]
      /\ Head(q) = q[1]
    OBVIOUS
<1>2. \A i \in 1 .. Len(q) - 1 : i + 1 \in 1 .. Len(q) /\ 1 < i + 1 /\ 1 \in 1 .. Len(q)
    BY <1>1
<1>3. ASSUME NEW i \in 1 .. Len(q) - 1, NEW j \in 1 .. Len(q) - 1, i < j
      PROVE  Follows(Tail(q)[i], Tail(q)[j])
  <2>1. i + 1 < j + 1
      BY <1>1, <1>3
  <2> QED BY <1>1, <1>2, <2>1 DEF InOrder
<1>4. ASSUME NEW i \in 1 .. Len(q) - 1 PROVE Follows(Head(q), Tail(q)[i])
    BY <1>1, <1>2 DEF InOrder
<1> QED BY <1>1, <1>3, <1>4 DEF InOrder, Holds

-----------------------------------------------------------------------------
LEMMA ModSmall ==
    ASSUME NEW m \in Nat, NEW k \in Nat, m < k
    PROVE  m % k = m
<1>1. k > 0 /\ m = k * 0 + m
    OBVIOUS
<1> QED BY <1>1

Row(e, s) == e.StreamFlowVersionTable[s]

(* f is the engine e after one assignment of path p to stream s by         *)
(* configureDataPlane: one version number is used up, which gets the       *)
(* waiting path and the ingress switch of the assignment.                  *)
AssignedTo(e, f, s, p) ==
    LET n == e.OF_match_version_number IN
    /\ f.OF_match_version_number = n + 1
    /\ f.AckWaitingPaths[n] = SwitchesOn(p) /\ f.IngressSwTable[n] = Ingress[s]
    /\ \A v \in Versions \ {n} : /\ f.AckWaitingPaths[v] = e.AckWaitingPaths[v]
                                 /\ f.IngressSwTable[v] = e.IngressSwTable[v]
    /\ Row(f, s).next = n /\ Row(f, s).current = Row(e, s).current
    /\ f.prevAssignments[s] = p
    /\ \A u \in Streams \ {s} : /\ Row(f, u) = Row(e, u)
                                /\ f.prevAssignments[u] = e.prevAssignments[u]

LEMMA AssignFacts ==
    ASSUME NEW e \in EngineState, NEW s \in Streams, NEW p \in CandidatePaths[s],
           isTaggingEnabled, ~ Pending(e, s),
           e.OF_match_version_number + 1 < VersionSpace
    PROVE  /\ match_version(e) = e.OF_match_version_number
           /\ e.OF_match_version_number \in Versions
           /\ AssignedTo(e, assign(e, s, p), s, p)
<1> DEFINE n == e.OF_match_version_number
           f == assign(e, s, p)
           g == addMatchVersiontoStream(e, s)
           row == [next |-> n, current |-> Row(e, s).current]
<1>1. match_version(e) = n /\ n \in Versions
    BY DEF match_version, EngineState
<1>2. (n + 1) % VersionSpace = n + 1
  <2>1. n + 1 \in Nat /\ n + 1 < VersionSpace
      BY <1>1 DEF Versions
  <2> HIDE DEF n
  <2> QED BY <2>1, ModSmall
<1>3. g = [e EXCEPT !.StreamFlowVersionTable[s] = row,
                    !.OF_match_version_number = (n + 1) % VersionSpace]
    BY DEF addMatchVersiontoStream, Row
<1>4. /\ f.OF_match_version_number = n + 1
      /\ f.AckWaitingPaths = [e.AckWaitingPaths EXCEPT ![n] = SwitchesOn(p)]
      /\ f.IngressSwTable = [e.IngressSwTable EXCEPT ![n] = p[1]]
      /\ f.prevAssignments = [e.prevAssignments EXCEPT ![s] = p]
      /\ f.StreamFlowVersionTable = [e.StreamFlowVersionTable EXCEPT ![s] = row]
    BY <1>1, <1>2, <1>3 DEF assign, EngineState
<1>5. /\ e.AckWaitingPaths \in [Versions -> SUBSET Switches]
      /\ e.IngressSwTable \in [Versions -> Switches \cup {NoSwitch}]
      /\ e.prevAssignments \in [Streams -> Paths]
      /\ e.StreamFlowVersionTable \in [Streams -> versionInfo]
    BY DEF EngineState
<1>6. p[1] = Ingress[s]
    BY PathFacts
<1>7. row.next = n /\ row.current = Row(e, s).current
    OBVIOUS
<1> HIDE DEF f, row
<1>8. AssignedTo(e, f, s, p)
    BY <1>1, <1>4, <1>5, <1>6, <1>7 DEF AssignedTo, Row
<1> QED BY <1>1, <1>8 DEF f

(* An ACK takes its switch off the waiting path and touches nothing else   *)
(* but pending versions, which it can only clear.                          *)
LEMMA ReceiveAckFacts ==
    ASSUME NEW e \in EngineState, NEW v \in Versions, NEW sw \in Switches
    PROVE  LET f == receiveAck(e, v, sw) IN
           /\ f.OF_match_version_number = e.OF_match_version_number
           /\ f.prevAssignments = e.prevAssignments
           /\ f.AckWaitingPaths = [e.AckWaitingPaths EXCEPT ![v] = @ \ {sw}]
           /\ \A u \in Streams : ~ Pending(e, u) => ~ Pending(f, u)
<1> DEFINE f == receiveAck(e, v, sw)
           g == activateMatchVersion(e, v)
<1>1. CASE StillWaiting(e, v, sw) # {}
    BY <1>1 DEF receiveAck, StillWaiting, EngineState, Pending
<1>2. CASE StillWaiting(e, v, sw) = {}
  <2>1. /\ g.OF_match_version_number = e.OF_match_version_number
        /\ g.prevAssignments = e.prevAssignments
        /\ g.AckWaitingPaths = e.AckWaitingPaths
        /\ \A u \in Streams : ~ Pending(e, u) => ~ Pending(g, u)
        /\ g \in EngineState
    <3>1. CASE WaitingFor(e, v) = {}
      <4>1. g = e
          BY <3>1 DEF activateMatchVersion
      <4> HIDE DEF g
      <4> QED BY <4>1
    <3>2. CASE WaitingFor(e, v) # {}
      <4>1. g = [e EXCEPT !.StreamFlowVersionTable[FirstWaitingFor(e, v)] =
                             [next |-> 0, current |-> v]]
          BY <3>2 DEF activateMatchVersion
      <4>2. FirstWaitingFor(e, v) \in Streams
          BY <3>2, FirstWaiting
      <4>3. [next |-> 0, current |-> v] \in versionInfo
          BY DEF versionInfo, Versions
      <4> HIDE DEF g
      <4> QED BY <4>1, <4>2, <4>3 DEF EngineState, Pending
    <3> QED BY <3>1, <3>2
  <2>2. f = [g EXCEPT !.AckWaitingPaths[v] = {}]
      BY <1>2 DEF receiveAck
  <2> HIDE DEF f, g
  <2>3. /\ f.OF_match_version_number = g.OF_match_version_number
        /\ f.prevAssignments = g.prevAssignments
        /\ f.StreamFlowVersionTable = g.StreamFlowVersionTable
        /\ f.AckWaitingPaths = [g.AckWaitingPaths EXCEPT ![v] = {}]
      BY <2>1, <2>2 DEF EngineState
  <2>4. e.AckWaitingPaths[v] \ {sw} = {}
      BY <1>2 DEF StillWaiting
  <2> QED BY <2>1, <2>3, <2>4 DEF Pending, f
<1> QED BY <1>1, <1>2

(* A table without a limit takes the new entry and keeps all the others.   *)
LEMMA AddEntryKeeps ==
    ASSUME MaxFlowEntries = 0, NEW t \in Seq(Entry), NEW x \in Entry,
           NEW u \in addEntry(t, x)
    PROVE  /\ \A i \in DOMAIN t : \E j \in DOMAIN u : u[j] = t[i]
           /\ \E j \in DOMAIN u : u[j] = x
<1>1. PICK pos \in 1 .. Len(t) + 1 : u = InsertedAt(t, pos, x)
    BY DEF addEntry, Full
<1>2. /\ DOMAIN t = 1 .. Len(t) /\ Len(t) \in Nat /\ DOMAIN u = 1 .. Len(t) + 1
      /\ \A j \in 1 .. Len(t) + 1 : u[j] = IF j < pos THEN t[j]
                                           ELSE IF j = pos THEN x ELSE t[j - 1]
    BY <1>1 DEF InsertedAt
<1>3. ASSUME NEW i \in 1 .. Len(t) PROVE \E j \in 1 .. Len(t) + 1 : u[j] = t[i]
  <2>1. CASE i < pos
      BY <1>2, <2>1
  <2>2. CASE i >= pos
    <3>1. i + 1 \in 1 .. Len(t) + 1 /\ ~ (i + 1 < pos) /\ i + 1 # pos /\ (i + 1) - 1 = i
        BY <1>2, <2>2
    <3>2. u[i + 1] = t[i]
        BY <1>2, <3>1
    <3> QED BY <3>1, <3>2
  <2> QED BY <1>2, <2>1, <2>2
<1>4. u[pos] = x /\ pos \in DOMAIN u
    BY <1>2
<1> QED BY <1>2, <1>3, <1>4

-----------------------------------------------------------------------------
LEMMA MessagesDiffer ==
    ASSUME NEW s, NEW t, NEW v, NEW w
    PROVE  /\ TalkerAdvertise(s) # Ack(v)
           /\ TalkerAdvertise(s) = TalkerAdvertise(t) => s = t
           /\ Ack(v) = Ack(w) => v = w
           /\ ListenerReady(s) # Activation(t, v)
           /\ ListenerReady(s).type # "FlowMod" /\ Activation(s, v).type # "FlowMod"
           /\ Activation(s, v) = Activation(t, w) => s = t /\ v = w
<1>1. /\ TalkerAdvertise(s).type = "TalkerAdvertise" /\ Ack(v).type = "ACKforFlowMod"
      /\ TalkerAdvertise(s).sid = s /\ TalkerAdvertise(t).sid = t
      /\ Ack(v).version = v /\ Ack(w).version = w
    BY DEF TalkerAdvertise, Ack
<1>2. /\ ListenerReady(s).type = "ListenerReady"
      /\ Activation(t, v).type = "ActivationMessage" /\ Activation(s, v).type = "ActivationMessage"
      /\ Activation(s, v).sid = s /\ Activation(t, w).sid = t
      /\ Activation(s, v).version = v /\ Activation(t, w).version = w
    BY DEF ListenerReady, Activation
<1> QED BY <1>1, <1>2

(* The first messages of the queues, as the handlers read them.            *)
LEMMA HeadIs ==
    ASSUME TypeOK, NEW sw \in Switches
    PROVE  /\ NextFrom(sw, "TalkerAdvertise") =>
                 Head(toController[sw]) = TalkerAdvertise(Head(toController[sw]).sid)
           /\ NextFrom(sw, "ACKforFlowMod") =>
                 Head(toController[sw]) = Ack(Head(toController[sw]).version)
           /\ NextAt(sw, "ActivationMessage") =>
                 Head(toSwitch[sw]) = Activation(Head(toSwitch[sw]).sid, Head(toSwitch[sw]).version)
<1>1. toController[sw] # << >> => Head(toController[sw]) \in ToControllerMsg
    BY HoldsTail DEF TypeOK
<1>2. toSwitch[sw] # << >> => Head(toSwitch[sw]) \in ToSwitchMsg
    BY HoldsTail DEF TypeOK
<1>3. \A m \in ToControllerMsg :
          /\ m.type = "TalkerAdvertise" => m = TalkerAdvertise(m.sid)
          /\ m.type = "ACKforFlowMod" => m = Ack(m.version)
    BY DEF ToControllerMsg, TalkerAdvertise, Ack
<1>4. \A m \in ToSwitchMsg :
          m.type = "ActivationMessage" => m = Activation(m.sid, m.version)
    BY DEF ToSwitchMsg, Activation
<1> QED BY <1>1, <1>2, <1>3, <1>4 DEF NextFrom, NextAt

(* The rules in a queue, message by message.                               *)
RuleOK(m) == Issued(m.entry.tag) /\ m.entry.flow = FlowOf[route[m.entry.tag].sid]

LEMMA QueuedRules ==
    QueuedRulesIssued <=>
        \A sw \in Switches : \A m : Holds(toSwitch[sw], m) /\ m.type = "FlowMod" => RuleOK(m)
BY DEF QueuedRulesIssued, Holds, RuleOK

(* Every handler of the controller takes the first message of one queue.   *)
LEMMA ConsumeFromFacts ==
    ASSUME TypeOK, NEW sw \in Switches, toController[sw] # << >>, ConsumeFrom(sw)
    PROVE  /\ \A x \in Switches : \A m : Holds(toController[x]', m) => Holds(toController[x], m)
           /\ \A x \in Switches : \A m : Once(toController[x], m) => Once(toController[x], m)'
           /\ \A m : Once(toController[sw], m) /\ m = Head(toController[sw]) =>
                        ~ Holds(toController[sw], m)'
           /\ Holds(toController[sw], Head(toController[sw]))
<1>1. /\ toController \in [Switches -> Seq(ToControllerMsg)]
      /\ toController' = [toController EXCEPT ![sw] = Tail(@)]
    BY DEF TypeOK, ConsumeFrom
<1>2. toController'[sw] = Tail(toController[sw])
      /\ \A x \in Switches \ {sw} : toController'[x] = toController[x]
    BY <1>1
<1>3. toController[sw] \in Seq(ToControllerMsg)
    BY <1>1
<1>4. \A m : /\ Holds(Tail(toController[sw]), m) => Holds(toController[sw], m)
             /\ Once(toController[sw], m) => Once(Tail(toController[sw]), m)
             /\ Once(toController[sw], m) /\ m = Head(toController[sw]) =>
                   ~ Holds(Tail(toController[sw]), m)
    BY <1>3, HoldsTail, OnceTail
<1>5. Holds(toController[sw], Head(toController[sw]))
    BY <1>3, HoldsTail
<1>6. \A x \in Switches : \A m : Holds(toController[x]', m) => Holds(toController[x], m)
    BY <1>2, <1>4
<1>7. ASSUME NEW x \in Switches, NEW m, Once(toController[x], m)
      PROVE  Once(toController'[x], m)
    BY <1>2, <1>4, <1>7
<1>8. ASSUME NEW m, Once(toController[sw], m), m = Head(toController[sw])
      PROVE  ~ Holds(toController'[sw], m)
    BY <1>2, <1>4, <1>8
<1> QED BY <1>5, <1>6, <1>7, <1>8

LEMMA ConsumeAtFacts ==
    ASSUME TypeOK, NEW sw \in Switches, toSwitch[sw] # << >>, ConsumeAt(sw)
    PROVE  /\ \A x \in Switches : \A m : Holds(toSwitch'[x], m) => Holds(toSwitch[x], m)
           /\ Holds(toSwitch[sw], Head(toSwitch[sw]))
<1>1. /\ toSwitch \in [Switches -> Seq(ToSwitchMsg)]
      /\ toSwitch' = [toSwitch EXCEPT ![sw] = Tail(@)]
    BY DEF TypeOK, ConsumeAt
<1>2. toSwitch'[sw] = Tail(toSwitch[sw])
      /\ \A x \in Switches \ {sw} : toSwitch'[x] = toSwitch[x]
    BY <1>1
<1>3. toSwitch[sw] \in Seq(ToSwitchMsg)
    BY <1>1
<1> QED BY <1>2, <1>3, HoldsTail

-----------------------------------------------------------------------------
(* Requests: the ones on their way are answered once, and no stream has a  *)
(* path or a version before its request was answered.                      *)
LEMMA AdvertiseRequests ==
    ASSUME TypeOK, AdvertisedOnce, UnadvertisedIdle, NEW s \in Streams, Advertise(s)
    PROVE  AdvertisedOnce' /\ UnadvertisedIdle'
<1> DEFINE sw == Ingress[s]
<1>1. /\ sw \in Switches /\ s \notin SeenStreams[sw]
      /\ SeenStreams' = [SeenStreams EXCEPT ![sw] = @ \cup {s}]
      /\ toController' = [toController EXCEPT ![sw] = Append(@, TalkerAdvertise(s))]
      /\ ce' = ce
    BY DEF Advertise, RelayTalkerAdvertise
<1>2. /\ toController \in [Switches -> Seq(ToControllerMsg)]
      /\ SeenStreams \in [Switches -> SUBSET Streams]
      /\ TalkerAdvertise(s) \in ToControllerMsg
    BY DEF TypeOK, TalkerAdvertise, ToControllerMsg
<1>3. /\ toController'[sw] = Append(toController[sw], TalkerAdvertise(s))
      /\ \A x \in Switches \ {sw} : toController'[x] = toController[x]
      /\ toController[sw] \in Seq(ToControllerMsg)
    BY <1>1, <1>2
<1> HIDE DEF sw
<1>4. \A m : Holds(toController'[sw], m) <=> Holds(toController[sw], m) \/ m = TalkerAdvertise(s)
    BY <1>2, <1>3, HoldsAppend
<1>5. AdvertisedOnce'
  <2>1. SUFFICES ASSUME NEW x \in Switches, NEW u \in Streams
                 PROVE  /\ Once(toController'[x], TalkerAdvertise(u))
                        /\ Holds(toController'[x], TalkerAdvertise(u)) =>
                              /\ x = Ingress[u] /\ u \in SeenStreams'[x]
                              /\ ~ Assigned(ce, u) /\ ~ Pending(ce, u)
      BY <1>1 DEF AdvertisedOnce, TalkerAdvertise, Assigned, Pending
  <2>2. /\ Once(toController[x], TalkerAdvertise(u))
        /\ Holds(toController[x], TalkerAdvertise(u)) =>
              /\ x = Ingress[u] /\ u \in SeenStreams[x]
              /\ ~ Assigned(ce, u) /\ ~ Pending(ce, u)
      BY DEF AdvertisedOnce
  <2>3. \A y \in Switches : SeenStreams[y] \subseteq SeenStreams'[y]
      BY <1>1, <1>2
  <2>4. CASE x # sw
      BY <1>3, <2>2, <2>3, <2>4
  <2>5. ASSUME Once(toController[sw], TalkerAdvertise(u)),
               TalkerAdvertise(u) = TalkerAdvertise(s) =>
                   ~ Holds(toController[sw], TalkerAdvertise(u))
        PROVE  Once(toController'[sw], TalkerAdvertise(u))
    <3>1. Once(Append(toController[sw], TalkerAdvertise(s)), TalkerAdvertise(u))
        BY <1>2, <1>3, <2>5, OnceAppend
    <3> QED BY <1>3, <3>1
  <2>6. CASE x = sw /\ u # s
    <3>1. TalkerAdvertise(u) # TalkerAdvertise(s)
        BY <2>6, MessagesDiffer
    <3>2. Once(toController'[x], TalkerAdvertise(u))
        BY <2>2, <2>6, <2>5, <3>1
    <3> QED BY <1>4, <2>2, <2>3, <2>6, <3>1, <3>2
  <2>7. CASE x = sw /\ u = s
    <3>1. ~ Holds(toController[x], TalkerAdvertise(u))
        BY <1>1, <2>2, <2>7
    <3>2. Once(toController'[x], TalkerAdvertise(u))
        BY <2>2, <2>7, <2>5, <3>1
    <3>3. s \in SeenStreams'[sw]
        BY <1>1, <1>2
    <3>4. ~ Assigned(ce, s) /\ ~ Pending(ce, s)
        BY <1>1 DEF sw, UnadvertisedIdle
    <3> QED BY <2>7, <3>2, <3>3, <3>4 DEF sw
  <2> QED BY <2>4, <2>6, <2>7
<1>6. UnadvertisedIdle'
  <2>1. \A u \in Streams : u \notin SeenStreams'[Ingress[u]] => u \notin SeenStreams[Ingress[u]]
      BY <1>1, <1>2
  <2> QED BY <1>1, <2>1 DEF UnadvertisedIdle, Assigned, Pending
<1> QED BY <1>5, <1>6

LEMMA QuietRequests ==
    ASSUME AdvertisedOnce, UnadvertisedIdle, SeenStreams' = SeenStreams,
           \A x \in Switches : \A u \in Streams :
               /\ Holds(toController'[x], TalkerAdvertise(u)) =>
                     Holds(toController[x], TalkerAdvertise(u))
               /\ Once(toController[x], TalkerAdvertise(u)) =>
                     Once(toController'[x], TalkerAdvertise(u)),
           \A u \in Streams : /\ ~ Assigned(ce, u) => ~ Assigned(ce', u)
                              /\ ~ Pending(ce, u) => ~ Pending(ce', u)
    PROVE  AdvertisedOnce' /\ UnadvertisedIdle'
<1>1. AdvertisedOnce'
  <2>1. SUFFICES ASSUME NEW x \in Switches, NEW u \in Streams
                 PROVE  /\ Once(toController'[x], TalkerAdvertise(u))
                        /\ Holds(toController'[x], TalkerAdvertise(u)) =>
                              /\ x = Ingress[u] /\ u \in SeenStreams[x]
                              /\ ~ Assigned(ce', u) /\ ~ Pending(ce', u)
      BY DEF AdvertisedOnce, TalkerAdvertise, Assigned, Pending
  <2> QED BY DEF AdvertisedOnce
<1>2. UnadvertisedIdle'
  <2>1. SUFFICES ASSUME NEW u \in Streams, u \notin SeenStreams[Ingress[u]]
                 PROVE  ~ Assigned(ce', u) /\ ~ Pending(ce', u)
      BY DEF UnadvertisedIdle, Assigned, Pending
  <2> QED BY <2>1 DEF UnadvertisedIdle
<1> QED BY <1>1, <1>2

-----------------------------------------------------------------------------
(* What an accepted talker changes, whether or not another stream is moved *)
(* with it: k fresh versions are issued, each with a stream, a waiting     *)
(* path, an ingress switch and rules of its own, and nothing of an issued  *)
(* version changes.                                                        *)
Fresh(v) == v \in ce.OF_match_version_number .. ce'.OF_match_version_number - 1

Accepted(sw, s, k) ==
    /\ toController[sw] # << >> /\ Head(toController[sw]) = TalkerAdvertise(s)
    /\ ConsumeFrom(sw) /\ UNCHANGED switchVars
    /\ k >= 1 /\ ce.OF_match_version_number + k < VersionSpace
    /\ ce'.OF_match_version_number = ce.OF_match_version_number + k
    /\ \A v \in Versions : Issued(v) =>
          /\ ce'.AckWaitingPaths[v] = ce.AckWaitingPaths[v]
          /\ ce'.IngressSwTable[v] = ce.IngressSwTable[v]
          /\ route'[v] = route[v]
    /\ route'[0] = route[0]
    /\ \A v \in Versions : Fresh(v) =>
          /\ route'[v].sid \in Streams /\ Row(ce', route'[v].sid).next = v
          /\ route'[v].path \in CandidatePaths[route'[v].sid]
          /\ ce'.AckWaitingPaths[v] = SwitchesOn(route'[v].path)
          /\ ce'.IngressSwTable[v] = Ingress[route'[v].sid]
    /\ \A u \in Streams :
          \/ Row(ce', u) = Row(ce, u) /\ ce'.prevAssignments[u] = ce.prevAssignments[u]
          \/ /\ ~ Pending(ce, u) /\ (u = s \/ Assigned(ce, u)) /\ Assigned(ce', u)
             /\ Row(ce', u).current = Row(ce, u).current
             /\ Fresh(Row(ce', u).next) /\ route'[Row(ce', u).next].sid = u
    /\ \A x \in Switches : \A m : Holds(toSwitch'[x], m) =>
          \/ Holds(toSwitch[x], m)
          \/ m = ListenerReady(s)
          \/ /\ m.type = "FlowMod" /\ Fresh(m.entry.tag)
             /\ m.entry.flow = FlowOf[route'[m.entry.tag].sid]
             /\ x \in SwitchesOn(route'[m.entry.tag].path)
             /\ PathRule(route'[m.entry.tag].sid, route'[m.entry.tag].path, x, m.entry)
    /\ \A x \in Switches : \A m : Holds(toSwitch[x], m) => Holds(toSwitch'[x], m)
    /\ \A x \in Switches :
          /\ InOrder(toSwitch[x])
          /\ \A m : Holds(toSwitch[x], m) /\ m.type = "FlowMod" => Issued(m.entry.tag)
          => InOrder(toSwitch'[x])

LEMMA AcceptRequests ==
    ASSUME TypeOK, AdvertisedOnce, UnadvertisedIdle,
           NEW sw \in Switches, NEW s \in Streams, NEW k \in Nat, Accepted(sw, s, k)
    PROVE  AdvertisedOnce' /\ UnadvertisedIdle'
<1>1. /\ toController[sw] # << >> /\ Head(toController[sw]) = TalkerAdvertise(s)
      /\ ConsumeFrom(sw) /\ SeenStreams' = SeenStreams
    BY DEF Accepted, switchVars
<1>2. sw = Ingress[s] /\ s \in SeenStreams[sw] /\ Once(toController[sw], TalkerAdvertise(s))
  <2>1. Holds(toController[sw], TalkerAdvertise(s))
      BY <1>1, ConsumeFromFacts
  <2> QED BY <2>1 DEF AdvertisedOnce
<1>3. \A u \in Streams \ {s} : ~ Assigned(ce, u) =>
          ~ Assigned(ce', u) /\ (~ Pending(ce, u) => ~ Pending(ce', u))
    BY DEF Accepted, Assigned, Pending, Row
<1>4. AdvertisedOnce'
  <2>1. SUFFICES ASSUME NEW x \in Switches, NEW u \in Streams
                 PROVE  /\ Once(toController'[x], TalkerAdvertise(u))
                        /\ Holds(toController'[x], TalkerAdvertise(u)) =>
                              /\ x = Ingress[u] /\ u \in SeenStreams[x]
                              /\ ~ Assigned(ce', u) /\ ~ Pending(ce', u)
      BY <1>1 DEF AdvertisedOnce, TalkerAdvertise, Assigned, Pending
  <2>2. /\ Once(toController[x], TalkerAdvertise(u))
        /\ Holds(toController[x], TalkerAdvertise(u)) =>
              /\ x = Ingress[u] /\ u \in SeenStreams[x]
              /\ ~ Assigned(ce, u) /\ ~ Pending(ce, u)
      BY DEF AdvertisedOnce
  <2>3. /\ Once(toController'[x], TalkerAdvertise(u))
        /\ Holds(toController'[x], TalkerAdvertise(u)) => Holds(toController[x], TalkerAdvertise(u))
      BY <1>1, <2>2, ConsumeFromFacts
  <2>4. CASE u # s
      BY <2>2, <2>3, <2>4, <1>3
  <2>5. CASE u = s
    <3>1. ~ Holds(toController'[sw], TalkerAdvertise(s))
        BY <1>1, <1>2, ConsumeFromFacts
    <3> QED BY <2>2, <2>3, <2>5, <3>1, <1>2
  <2> QED BY <2>4, <2>5
<1>5. UnadvertisedIdle'
  <2>1. SUFFICES ASSUME NEW u \in Streams, u \notin SeenStreams[Ingress[u]]
                 PROVE  ~ Assigned(ce', u) /\ ~ Pending(ce', u)
      BY <1>1 DEF UnadvertisedIdle, Assigned, Pending
  <2>2. u # s
      BY <2>1, <1>2
  <2> QED BY <2>1, <2>2, <1>3 DEF UnadvertisedIdle
<1> QED BY <1>4, <1>5

(* r is the queue q of switch x after the rule of version v for stream s   *)
(* on path p.                                                              *)
RuleAdded(q, r, v, s, p, x) ==
    /\ r \in Seq(ToSwitchMsg)
    /\ \A m : Holds(r, m) =>
          \/ Holds(q, m)
          \/ /\ m.type = "FlowMod" /\ m.entry.tag = v
             /\ m.entry.flow = FlowOf[s] /\ x \in SwitchesOn(p)
             /\ PathRule(s, p, x, m.entry)
    /\ \A m : Holds(q, m) => Holds(r, m)
    /\ InOrder(q) /\ (\A m : Holds(q, m) /\ m.type = "FlowMod" => m.entry.tag # v)
          => InOrder(r)

LEMMA SendRules ==
    ASSUME NEW e \in EngineState, NEW s \in Streams, NEW p \in CandidatePaths[s],
           NEW x \in Switches, NEW q \in Seq(ToSwitchMsg)
    PROVE  RuleAdded(q, q \o assignSends(e, s, p, x), match_version(e), s, p, x)
<1> DEFINE A == assignSends(e, s, p, x)
<1>1. /\ A \in Seq(ToSwitchMsg)
      /\ \A m : Holds(A, m) => /\ m.type = "FlowMod" /\ m.entry.tag = match_version(e)
                               /\ m.entry.flow = FlowOf[s] /\ PathRule(s, p, x, m.entry)
    BY AssignSends
<1>2. /\ x \notin SwitchesOn(p) => A = << >>
      /\ \/ A = << >>
         \/ \E m : A = << m >>
    BY DEF assignSends, insertAssignedPath
<1> HIDE DEF A
<1>3. InOrder(A)
    BY <1>2 DEF InOrder
<1>4. /\ q \o A \in Seq(ToSwitchMsg)
      /\ \A m : Holds(q \o A, m) <=> Holds(q, m) \/ Holds(A, m)
    BY <1>1, HoldsConcat
<1>5. \A m : Holds(A, m) => x \in SwitchesOn(p)
    BY <1>2, HoldsSingle
<1>6. ASSUME InOrder(q), \A m : Holds(q, m) /\ m.type = "FlowMod" =>
                                   m.entry.tag # match_version(e)
      PROVE  InOrder(q \o A)
  <2>1. \A m, k : Holds(q, m) /\ Holds(A, k) => Follows(m, k)
      BY <1>1, <1>6 DEF Follows
  <2> QED BY <1>1, <1>3, <1>6, <2>1, InOrderConcat
<1>7. /\ q \o A \in Seq(ToSwitchMsg)
      /\ \A m : Holds(q \o A, m) =>
            \/ Holds(q, m)
            \/ /\ m.type = "FlowMod" /\ m.entry.tag = match_version(e)
               /\ m.entry.flow = FlowOf[s] /\ x \in SwitchesOn(p)
               /\ PathRule(s, p, x, m.entry)
      /\ \A m : Holds(q, m) => Holds(q \o A, m)
    BY <1>1, <1>4, <1>5
<1> QED BY <1>6, <1>7 DEF A, RuleAdded

LEMMA SendReady ==
    ASSUME NEW s \in Streams, NEW x \in Switches, NEW q \in Seq(ToSwitchMsg)
    PROVE  /\ \A m : Holds(q \o sendListenerReady(s, x), m) =>
                 Holds(q, m) \/ m = ListenerReady(s)
           /\ \A m : Holds(q, m) => Holds(q \o sendListenerReady(s, x), m)
           /\ InOrder(q) => InOrder(q \o sendListenerReady(s, x))
<1> DEFINE C == sendListenerReady(s, x)
<1>1. C \in Seq(ToSwitchMsg) /\ \A m : Holds(C, m) => m = ListenerReady(s)
    BY ListenerReadyType
<1>2. C = << >> \/ C = << ListenerReady(s) >>
    BY DEF sendListenerReady
<1> HIDE DEF C
<1>3. InOrder(C)
    BY <1>2 DEF InOrder
<1>4. \A m : Holds(q \o C, m) <=> Holds(q, m) \/ Holds(C, m)
    BY <1>1, HoldsConcat
<1>5. \A m, k : Holds(q, m) /\ Holds(C, k) => Follows(m, k)
    BY <1>1, MessagesDiffer DEF Follows, ListenerReady
<1>6. InOrder(q) => InOrder(q \o C)
    BY <1>1, <1>3, <1>5, InOrderConcat
<1> QED BY <1>1, <1>4, <1>6 DEF C

(* Tagging is on, and no stream is moved while a version of it is pending. *)
Orderly == isTaggingEnabled /\ Moves # "any"

LEMMA AcceptTalkerFacts ==
    ASSUME Orderly, TypeOK, NumberInRange, AdvertisedOnce, NEW sw \in Switches, AcceptTalker(sw)
    PROVE  \E s \in Streams : Accepted(sw, s, 1)
<1> DEFINE n == ce.OF_match_version_number
<1>0. PICK s \in Streams : s = Head(toController[sw]).sid
    BY MessageTypes DEF AcceptTalker
<1>1. /\ ce \in EngineState
      /\ toController[sw] # << >> /\ Head(toController[sw]) = TalkerAdvertise(s)
      /\ n \in 1 .. VersionSpace - 1
    BY <1>0, HeadIs DEF AcceptTalker, TypeOK, NumberInRange, NextFrom
<1>2. ~ Pending(ce, s) /\ n + 1 < VersionSpace
  <2>1. Holds(toController[sw], TalkerAdvertise(s))
      BY <1>1, HoldsTail DEF TypeOK
  <2>2. n < LastVersion
      BY DEF AcceptTalker
  <2> QED BY <1>1, <2>1, <2>2 DEF AdvertisedOnce
<1>3. PICK p \in CandidatePaths[s] :
        /\ ce' = assign(ce, s, p)
        /\ toSwitch' = [x \in Switches |->
                          toSwitch[x] \o assignSends(ce, s, p, x) \o sendListenerReady(s, x)]
        /\ route' = [route EXCEPT ![match_version(ce)] = [sid |-> s, path |-> p]]
    BY <1>0 DEF AcceptTalker
<1>4. match_version(ce) = n /\ n \in Versions /\ AssignedTo(ce, ce', s, p)
  <2>1. isTaggingEnabled /\ ce.OF_match_version_number + 1 < VersionSpace
      BY <1>2 DEF Orderly
  <2> QED BY <1>1, <1>2, <1>3, <2>1, AssignFacts
<1>5. /\ route \in [Versions -> [sid : Streams \cup {0}, path : Paths]]
      /\ \A x \in Switches : toSwitch[x] \in Seq(ToSwitchMsg)
    BY DEF TypeOK
<1>6. /\ ce'.OF_match_version_number = n + 1
      /\ ce'.AckWaitingPaths[n] = SwitchesOn(p) /\ ce'.IngressSwTable[n] = Ingress[s]
      /\ route'[n] = [sid |-> s, path |-> p] /\ \A v \in Versions \ {n} : route'[v] = route[v]
      /\ Row(ce', s).next = n /\ Row(ce', s).current = Row(ce, s).current
      /\ ce'.prevAssignments[s] = p /\ p # << >>
    BY <1>3, <1>4, <1>5, PathFacts DEF AssignedTo
<1>7. \A v \in Versions : Fresh(v) <=> v = n
    BY <1>1, <1>6 DEF Fresh, Issued
<1>8. \A v \in Versions : Issued(v) =>
          /\ ce'.AckWaitingPaths[v] = ce.AckWaitingPaths[v]
          /\ ce'.IngressSwTable[v] = ce.IngressSwTable[v]
          /\ route'[v] = route[v]
    BY <1>1, <1>4, <1>6 DEF Issued, AssignedTo
<1>9. \A u \in Streams \ {s} : Row(ce', u) = Row(ce, u)
                               /\ ce'.prevAssignments[u] = ce.prevAssignments[u]
    BY <1>4 DEF AssignedTo
<1>10. ASSUME NEW x \in Switches
       PROVE  /\ \A m : Holds(toSwitch'[x], m) =>
                    \/ Holds(toSwitch[x], m)
                    \/ m = ListenerReady(s)
                    \/ /\ m.type = "FlowMod" /\ m.entry.tag = n /\ m.entry.flow = FlowOf[s]
                       /\ x \in SwitchesOn(p) /\ PathRule(s, p, x, m.entry)
              /\ \A m : Holds(toSwitch[x], m) => Holds(toSwitch'[x], m)
              /\ /\ InOrder(toSwitch[x])
                 /\ \A m : Holds(toSwitch[x], m) /\ m.type = "FlowMod" => Issued(m.entry.tag)
                 => InOrder(toSwitch'[x])
  <2> DEFINE r == toSwitch[x] \o assignSends(ce, s, p, x)
  <2>1. ~ Issued(n)
      BY <1>1 DEF Issued
  <2>2. RuleAdded(toSwitch[x], r, n, s, p, x)
    <3>1. toSwitch[x] \in Seq(ToSwitchMsg)
        BY <1>5
    <3>2. RuleAdded(toSwitch[x], r, match_version(ce), s, p, x)
        BY <1>1, <3>1, SendRules
    <3> QED BY <1>4, <3>2
  <2>3. toSwitch'[x] = r \o sendListenerReady(s, x)
      BY <1>3
  <2> HIDE DEF r
  <2>4. /\ \A m : Holds(toSwitch'[x], m) => Holds(r, m) \/ m = ListenerReady(s)
        /\ \A m : Holds(r, m) => Holds(toSwitch'[x], m)
        /\ InOrder(r) => InOrder(toSwitch'[x])
    <3>1. r \in Seq(ToSwitchMsg)
        BY <2>2 DEF RuleAdded
    <3> QED BY <2>3, <3>1, SendReady
  <2> QED BY <2>1, <2>2, <2>4 DEF RuleAdded
<1>11. ConsumeFrom(sw) /\ UNCHANGED switchVars
    BY DEF AcceptTalker
<1>12. \A v \in Versions : Fresh(v) =>
          /\ route'[v].sid \in Streams /\ Row(ce', route'[v].sid).next = v
          /\ route'[v].path \in CandidatePaths[route'[v].sid]
          /\ ce'.AckWaitingPaths[v] = SwitchesOn(route'[v].path)
          /\ ce'.IngressSwTable[v] = Ingress[route'[v].sid]
    BY <1>6, <1>7
<1>13. \A u \in Streams :
          \/ Row(ce', u) = Row(ce, u) /\ ce'.prevAssignments[u] = ce.prevAssignments[u]
          \/ /\ ~ Pending(ce, u) /\ (u = s \/ Assigned(ce, u)) /\ Assigned(ce', u)
             /\ Row(ce', u).current = Row(ce, u).current
             /\ Fresh(Row(ce', u).next) /\ route'[Row(ce', u).next].sid = u
    BY <1>2, <1>4, <1>6, <1>7, <1>9 DEF Assigned
<1>14. \A x \in Switches : \A m : Holds(toSwitch'[x], m) =>
          \/ Holds(toSwitch[x], m)
          \/ m = ListenerReady(s)
          \/ /\ m.type = "FlowMod" /\ Fresh(m.entry.tag)
             /\ m.entry.flow = FlowOf[route'[m.entry.tag].sid]
             /\ x \in SwitchesOn(route'[m.entry.tag].path)
             /\ PathRule(route'[m.entry.tag].sid, route'[m.entry.tag].path, x, m.entry)
    BY <1>4, <1>6, <1>7, <1>10
<1>15. /\ 1 >= 1 /\ n + 1 < VersionSpace /\ ce'.OF_match_version_number = n + 1
       /\ route'[0] = route[0]
  <2>1. 0 \in Versions /\ 0 # n
      BY <1>1 DEF Versions
  <2> QED BY <1>2, <1>6, <2>1
<1>16. Accepted(sw, s, 1)
    BY <1>1, <1>8, <1>10, <1>11, <1>12, <1>13, <1>14, <1>15 DEF Accepted
<1> QED BY <1>16

LEMMA AcceptAndMoveFacts ==
    ASSUME Orderly, TypeOK, NumberInRange, AdvertisedOnce, NEW sw \in Switches, AcceptAndMove(sw)
    PROVE  \E s \in Streams : Accepted(sw, s, 2)
<1> DEFINE n == ce.OF_match_version_number
<1>0. PICK s \in Streams : s = Head(toController[sw]).sid
    BY MessageTypes DEF AcceptAndMove
<1>1. /\ ce \in EngineState
      /\ toController[sw] # << >> /\ Head(toController[sw]) = TalkerAdvertise(s)
      /\ n \in 1 .. VersionSpace - 1
    BY <1>0, HeadIs DEF AcceptAndMove, TypeOK, NumberInRange, NextFrom
<1>2. ~ Pending(ce, s) /\ n + 2 < VersionSpace /\ n + 1 < VersionSpace
  <2>1. Holds(toController[sw], TalkerAdvertise(s))
      BY <1>1, HoldsTail DEF TypeOK
  <2>2. n + 1 < LastVersion
      BY DEF AcceptAndMove
  <2> QED BY <1>1, <2>1, <2>2 DEF AdvertisedOnce
<1>3. PICK p \in CandidatePaths[s], t \in Streams \ {s} : \E q \in CandidatePaths[t] :
        LET f == assign(ce, t, q) IN
        /\ MayMove(t) /\ ce' = assign(f, s, p)
        /\ toSwitch' = [x \in Switches |->
                          toSwitch[x] \o assignSends(ce, t, q, x)
                          \o assignSends(f, s, p, x) \o sendListenerReady(s, x)]
        /\ route' = [route EXCEPT ![match_version(ce)] = [sid |-> t, path |-> q],
                                  ![match_version(f)]  = [sid |-> s, path |-> p]]
    BY <1>0, ZenonT(60) DEF AcceptAndMove
<1>4. PICK q \in CandidatePaths[t] :
        LET f == assign(ce, t, q) IN
        /\ MayMove(t) /\ ce' = assign(f, s, p)
        /\ toSwitch' = [x \in Switches |->
                          toSwitch[x] \o assignSends(ce, t, q, x)
                          \o assignSends(f, s, p, x) \o sendListenerReady(s, x)]
        /\ route' = [route EXCEPT ![match_version(ce)] = [sid |-> t, path |-> q],
                                  ![match_version(f)]  = [sid |-> s, path |-> p]]
    BY <1>3
<1> DEFINE e == assign(ce, t, q)
<1>5. /\ MayMove(t) /\ ce' = assign(e, s, p)
      /\ toSwitch' = [x \in Switches |->
                        toSwitch[x] \o assignSends(ce, t, q, x)
                        \o assignSends(e, s, p, x) \o sendListenerReady(s, x)]
      /\ route' = [route EXCEPT ![match_version(ce)] = [sid |-> t, path |-> q],
                                ![match_version(e)]  = [sid |-> s, path |-> p]]
    BY <1>4
<1>6. e \in EngineState /\ ~ Pending(ce, t) /\ Assigned(ce, t)
    BY <1>1, <1>5, AssignType DEF MayMove, Orderly
<1>7. match_version(ce) = n /\ n \in Versions /\ AssignedTo(ce, e, t, q)
  <2>1. isTaggingEnabled /\ ce.OF_match_version_number + 1 < VersionSpace
      BY <1>2 DEF Orderly
  <2> QED BY <1>1, <1>6, <2>1, AssignFacts
<1> HIDE DEF e
<1>8. /\ route \in [Versions -> [sid : Streams \cup {0}, path : Paths]]
      /\ \A x \in Switches : toSwitch[x] \in Seq(ToSwitchMsg)
    BY DEF TypeOK
<1>9. match_version(e) = n + 1 /\ n + 1 \in Versions /\ AssignedTo(e, ce', s, p)
  <2>1. ~ Pending(e, s)
      BY <1>2, <1>7 DEF Pending, AssignedTo, Row
  <2>2. e.OF_match_version_number = n + 1 /\ (n + 1) + 1 < VersionSpace
      BY <1>1, <1>2, <1>7 DEF AssignedTo
  <2>3. isTaggingEnabled
      BY DEF Orderly
  <2> QED BY <1>5, <1>6, <2>1, <2>2, <2>3, AssignFacts
<1>10. /\ route'[n] = [sid |-> t, path |-> q] /\ route'[n + 1] = [sid |-> s, path |-> p]
       /\ e.OF_match_version_number = n + 1 /\ ce'.OF_match_version_number = n + 2
       /\ ce'.AckWaitingPaths[n] = SwitchesOn(q) /\ ce'.AckWaitingPaths[n + 1] = SwitchesOn(p)
       /\ ce'.IngressSwTable[n] = Ingress[t] /\ ce'.IngressSwTable[n + 1] = Ingress[s]
       /\ \A v \in Versions \ {n, n + 1} :
             /\ ce'.AckWaitingPaths[v] = ce.AckWaitingPaths[v]
             /\ ce'.IngressSwTable[v] = ce.IngressSwTable[v]
             /\ route'[v] = route[v]
  <2>1. e.OF_match_version_number = n + 1 /\ ce'.OF_match_version_number = n + 2 /\ n # n + 1
      BY <1>1, <1>7, <1>9 DEF AssignedTo
  <2>2. /\ route'[n] = [sid |-> t, path |-> q] /\ route'[n + 1] = [sid |-> s, path |-> p]
        /\ \A v \in Versions \ {n, n + 1} : route'[v] = route[v]
      BY <1>5, <1>7, <1>8, <1>9, <2>1
  <2> QED BY <1>7, <1>9, <2>1, <2>2 DEF AssignedTo
<1>11. /\ Row(ce', t).next = n /\ Row(ce', t).current = Row(ce, t).current
       /\ Row(ce', s).next = n + 1 /\ Row(ce', s).current = Row(ce, s).current
       /\ ce'.prevAssignments[t] = q /\ ce'.prevAssignments[s] = p
       /\ p # << >> /\ q # << >>
       /\ \A u \in Streams \ {s, t} : Row(ce', u) = Row(ce, u)
                                      /\ ce'.prevAssignments[u] = ce.prevAssignments[u]
  <2>1. p # << >> /\ q # << >>
      BY PathFacts
  <2>2. /\ Row(e, t).next = n /\ Row(e, t).current = Row(ce, t).current
        /\ e.prevAssignments[t] = q
        /\ \A u \in Streams \ {t} : Row(e, u) = Row(ce, u)
                                     /\ e.prevAssignments[u] = ce.prevAssignments[u]
      BY <1>7 DEF AssignedTo
  <2>3. /\ Row(ce', s).next = n + 1 /\ Row(ce', s).current = Row(e, s).current
        /\ ce'.prevAssignments[s] = p
        /\ \A u \in Streams \ {s} : Row(ce', u) = Row(e, u)
                                     /\ ce'.prevAssignments[u] = e.prevAssignments[u]
      BY <1>9, <1>10 DEF AssignedTo
  <2>4. t # s
      BY <1>7, <1>9, <1>10 DEF AssignedTo
  <2> QED BY <2>1, <2>2, <2>3, <2>4
<1>12. \A v \in Versions : Issued(v) =>
          /\ ce'.AckWaitingPaths[v] = ce.AckWaitingPaths[v]
          /\ ce'.IngressSwTable[v] = ce.IngressSwTable[v]
          /\ route'[v] = route[v]
    BY <1>1, <1>10 DEF Issued
<1>13. \A v \in Versions : Fresh(v) <=> v = n \/ v = n + 1
    BY <1>1, <1>10 DEF Fresh, Issued
<1>14. ASSUME NEW x \in Switches
       PROVE  /\ \A m : Holds(toSwitch'[x], m) =>
                    \/ Holds(toSwitch[x], m)
                    \/ m = ListenerReady(s)
                    \/ /\ m.type = "FlowMod" /\ m.entry.tag = n /\ m.entry.flow = FlowOf[t]
                       /\ x \in SwitchesOn(q) /\ PathRule(t, q, x, m.entry)
                    \/ /\ m.type = "FlowMod" /\ m.entry.tag = n + 1 /\ m.entry.flow = FlowOf[s]
                       /\ x \in SwitchesOn(p) /\ PathRule(s, p, x, m.entry)
              /\ \A m : Holds(toSwitch[x], m) => Holds(toSwitch'[x], m)
              /\ /\ InOrder(toSwitch[x])
                 /\ \A m : Holds(toSwitch[x], m) /\ m.type = "FlowMod" => Issued(m.entry.tag)
                 => InOrder(toSwitch'[x])
  <2> DEFINE r == toSwitch[x] \o assignSends(ce, t, q, x)
             w == r \o assignSends(e, s, p, x)
  <2>1. ~ Issued(n) /\ ~ Issued(n + 1) /\ n # n + 1
      BY <1>1 DEF Issued
  <2>2. RuleAdded(toSwitch[x], r, n, t, q, x)
    <3>1. toSwitch[x] \in Seq(ToSwitchMsg)
        BY <1>8
    <3>2. RuleAdded(toSwitch[x], r, match_version(ce), t, q, x)
        BY <1>1, <3>1, SendRules
    <3> QED BY <1>7, <3>2
  <2> HIDE DEF r
  <2>3. RuleAdded(r, w, n + 1, s, p, x)
    <3>1. r \in Seq(ToSwitchMsg)
        BY <2>2 DEF RuleAdded
    <3> QED BY <1>6, <1>9, <3>1, SendRules
  <2>4. toSwitch'[x] = w \o sendListenerReady(s, x)
      BY <1>5 DEF r
  <2> HIDE DEF w
  <2>5. /\ \A m : Holds(toSwitch'[x], m) => Holds(w, m) \/ m = ListenerReady(s)
        /\ \A m : Holds(w, m) => Holds(toSwitch'[x], m)
        /\ InOrder(w) => InOrder(toSwitch'[x])
    <3>1. w \in Seq(ToSwitchMsg)
        BY <2>3 DEF RuleAdded
    <3> QED BY <2>4, <3>1, SendReady
  <2> QED BY <2>1, <2>2, <2>3, <2>5 DEF RuleAdded
<1>15. ConsumeFrom(sw) /\ UNCHANGED switchVars
    BY DEF AcceptAndMove
<1>16. \A v \in Versions : Fresh(v) =>
          /\ route'[v].sid \in Streams /\ Row(ce', route'[v].sid).next = v
          /\ route'[v].path \in CandidatePaths[route'[v].sid]
          /\ ce'.AckWaitingPaths[v] = SwitchesOn(route'[v].path)
          /\ ce'.IngressSwTable[v] = Ingress[route'[v].sid]
    BY <1>10, <1>11, <1>13
<1>17. \A u \in Streams :
          \/ Row(ce', u) = Row(ce, u) /\ ce'.prevAssignments[u] = ce.prevAssignments[u]
          \/ /\ ~ Pending(ce, u) /\ (u = s \/ Assigned(ce, u)) /\ Assigned(ce', u)
             /\ Row(ce', u).current = Row(ce, u).current
             /\ Fresh(Row(ce', u).next) /\ route'[Row(ce', u).next].sid = u
    BY <1>2, <1>6, <1>7, <1>9, <1>10, <1>11, <1>13 DEF Assigned
<1>18. \A x \in Switches : \A m : Holds(toSwitch'[x], m) =>
          \/ Holds(toSwitch[x], m)
          \/ m = ListenerReady(s)
          \/ /\ m.type = "FlowMod" /\ Fresh(m.entry.tag)
             /\ m.entry.flow = FlowOf[route'[m.entry.tag].sid]
             /\ x \in SwitchesOn(route'[m.entry.tag].path)
             /\ PathRule(route'[m.entry.tag].sid, route'[m.entry.tag].path, x, m.entry)
    BY <1>7, <1>9, <1>10, <1>13, <1>14
<1>19. /\ 2 >= 1 /\ n + 2 < VersionSpace /\ ce'.OF_match_version_number = n + 2
       /\ route'[0] = route[0]
  <2>1. 0 \in Versions /\ 0 \notin {n, n + 1}
      BY <1>1 DEF Versions
  <2> QED BY <1>2, <1>10, <2>1
<1>20. Accepted(sw, s, 2)
    BY <1>1, <1>12, <1>14, <1>15, <1>16, <1>17, <1>18, <1>19 DEF Accepted
<1> QED BY <1>20

-----------------------------------------------------------------------------
(* The answer to a talker keeps the invariant of deployment.               *)
LEMMA AcceptPreserves ==
    ASSUME DeployInv, TypeOK', NEW sw \in Switches, NEW s \in Streams, NEW k \in Nat,
           Accepted(sw, s, k)
    PROVE  DeployInv'
<1> DEFINE n == ce.OF_match_version_number
<1>0. /\ n \in 1 .. VersionSpace - 1 /\ TypeOK /\ k >= 1 /\ n + k < VersionSpace
      /\ ce'.OF_match_version_number = n + k
      /\ toController[sw] # << >> /\ ConsumeFrom(sw) /\ UNCHANGED switchVars
      /\ \A v \in Versions : Issued(v) =>
             ce'.AckWaitingPaths[v] = ce.AckWaitingPaths[v] /\ route'[v] = route[v]
      /\ \A v \in Versions : Fresh(v) => ce'.AckWaitingPaths[v] = SwitchesOn(route'[v].path)
    BY DEF DeployInv, NumberInRange, Accepted
<1>1. \A v \in Versions : Issued(v) => Issued(v)'
    BY <1>0 DEF Issued
<1>2. NumberInRange'
    BY <1>0 DEF NumberInRange
<1>3. \A x \in Switches : \A u, v : Installed(x, u, v)' <=> Installed(x, u, v)
    BY <1>0 DEF Installed, switchVars
<1>4. QueuedRulesIssued'
  <2>1. SUFFICES ASSUME NEW x \in Switches, NEW m, Holds(toSwitch'[x], m), m.type = "FlowMod"
                 PROVE  RuleOK(m)'
      BY DEF QueuedRulesIssued, Holds, RuleOK
  <2>2. CASE Holds(toSwitch[x], m)
    <3>1. RuleOK(m)
        BY <2>1, <2>2, QueuedRules DEF DeployInv
    <3>2. m.entry.tag \in Versions
        BY <1>0, <3>1 DEF RuleOK, Issued, Versions
    <3> QED BY <1>0, <3>1, <3>2, <1>1 DEF RuleOK
  <2>3. m # ListenerReady(s)
      BY <2>1, MessagesDiffer
  <2>4. CASE Fresh(m.entry.tag) /\ m.entry.flow = FlowOf[route'[m.entry.tag].sid]
      BY <1>0, <2>4 DEF RuleOK, Fresh, Issued
  <2> QED BY <2>1, <2>2, <2>3, <2>4 DEF Accepted
<1>5. AcksTruthful'
  <2>1. SUFFICES ASSUME NEW x \in Switches, NEW v \in Versions, Holds(toController'[x], Ack(v))
                 PROVE  Issued(v)' /\ Installed(x, route[v].sid, v)'
      BY DEF AcksTruthful, Ack
  <2>2. Holds(toController[x], Ack(v))
      BY <1>0, <2>1, ConsumeFromFacts
  <2>3. Issued(v) /\ Installed(x, route[v].sid, v)
      BY <2>2 DEF DeployInv, AcksTruthful
  <2> QED BY <2>3, <1>0, <1>1, <1>3
<1>6. AckedInstalled'
  <2>1. SUFFICES ASSUME NEW v \in Versions, Issued(v)',
                        NEW x \in SwitchesOn(route'[v].path) \ ce'.AckWaitingPaths[v]
                 PROVE  Installed(x, route[v].sid, v)'
      BY DEF AckedInstalled
  <2>2. Issued(v)
      BY <1>0, <2>1 DEF Fresh, Issued
  <2>3. Installed(x, route[v].sid, v) /\ route'[v] = route[v]
      BY <1>0, <2>2 DEF DeployInv, AckedInstalled
  <2>4. x \in Switches
    <3>1. \A p \in Paths : SwitchesOn(p) \subseteq Switches
        BY DEF Paths, SwitchesOn
    <3>2. route'[v].path \in Paths
        BY DEF TypeOK
    <3> QED BY <2>1, <3>1, <3>2
  <2> QED BY <2>3, <2>4, <1>3
<1>7. ReleasedComplete'
  <2>1. SUFFICES ASSUME NEW v \in Versions, Released(v)'
                 PROVE  Issued(v)' /\ ce'.AckWaitingPaths[v] = {}
      BY DEF ReleasedComplete
  <2>2. Released(v)
    <3>1. \A x \in Switches, u \in Streams \cup {0} :
              Holds(toSwitch'[x], Activation(u, v)) => Holds(toSwitch[x], Activation(u, v))
      <4>1. \A u : ListenerReady(s) # Activation(u, v) /\ Activation(u, v).type # "FlowMod"
          BY MessagesDiffer
      <4> QED BY <4>1 DEF Accepted
    <3> QED BY <1>0, <2>1, <3>1 DEF Released, ActiveVersion, Activation, switchVars
  <2> QED BY <1>0, <1>1, <2>2 DEF DeployInv, ReleasedComplete
<1>8. AdvertisedOnce' /\ UnadvertisedIdle'
    BY <1>0, AcceptRequests DEF DeployInv
<1> QED BY <1>2, <1>4, <1>5, <1>6, <1>7, <1>8 DEF DeployInv

LEMMA AcceptTalkerStep ==
    ASSUME Undisturbed, DeployInv, TypeOK', NEW sw \in Switches,
           AcceptTalker(sw) \/ AcceptAndMove(sw)
    PROVE  DeployInv'
<1>1. Orderly /\ TypeOK /\ NumberInRange /\ AdvertisedOnce
    BY DEF Undisturbed, Orderly, DeployInv
<1>2. \E s \in Streams : Accepted(sw, s, 1) \/ Accepted(sw, s, 2)
    BY <1>1, AcceptTalkerFacts, AcceptAndMoveFacts
<1> QED BY <1>2, AcceptPreserves

-----------------------------------------------------------------------------
LEMMA AdvertiseStep ==
    ASSUME DeployInv, TypeOK', NEW s \in Streams, Advertise(s)
    PROVE  DeployInv'
<1> DEFINE sw == Ingress[s]
<1>1. /\ sw \in Switches /\ s \notin SeenStreams[sw]
      /\ SeenStreams' = [SeenStreams EXCEPT ![sw] = @ \cup {s}]
      /\ toController' = [toController EXCEPT ![sw] = Append(@, TalkerAdvertise(s))]
      /\ UNCHANGED << ce, entries, StreamActiveMatchVersionMap, toSwitch, route >>
    BY DEF Advertise, RelayTalkerAdvertise
<1>2. /\ toController \in [Switches -> Seq(ToControllerMsg)] /\ TypeOK
      /\ SeenStreams \in [Switches -> SUBSET Streams]
      /\ TalkerAdvertise(s) \in ToControllerMsg
    BY DEF DeployInv, TypeOK, TalkerAdvertise, ToControllerMsg
<1>3. /\ toController'[sw] = Append(toController[sw], TalkerAdvertise(s))
      /\ \A x \in Switches \ {sw} : toController'[x] = toController[x]
      /\ toController[sw] \in Seq(ToControllerMsg)
    BY <1>1, <1>2
<1> HIDE DEF sw
<1>4. \A m : Holds(toController'[sw], m) <=> Holds(toController[sw], m) \/ m = TalkerAdvertise(s)
    BY <1>2, <1>3, HoldsAppend
<1>5. AcksTruthful'
  <2>1. SUFFICES ASSUME NEW x \in Switches, NEW v \in Versions, Holds(toController'[x], Ack(v))
                 PROVE  Issued(v) /\ Installed(x, route[v].sid, v)
      BY <1>1 DEF AcksTruthful, Ack, Issued, Installed
  <2>2. Holds(toController[x], Ack(v))
      BY <1>3, <1>4, <2>1, MessagesDiffer
  <2> QED BY <2>2 DEF DeployInv, AcksTruthful
<1>6. AdvertisedOnce' /\ UnadvertisedIdle'
    BY AdvertiseRequests DEF DeployInv
<1>7. NumberInRange' /\ QueuedRulesIssued' /\ AckedInstalled' /\ ReleasedComplete'
  <2>1. NumberInRange' /\ QueuedRulesIssued'
      BY <1>1 DEF DeployInv, NumberInRange, QueuedRulesIssued, Issued
  <2>2. AckedInstalled'
      BY <1>1 DEF DeployInv, AckedInstalled, Issued, Installed
  <2>3. ReleasedComplete'
      BY <1>1 DEF DeployInv, ReleasedComplete, Released, ActiveVersion, Issued, Holds, Activation
  <2> QED BY <2>1, <2>2, <2>3
<1> QED BY <1>5, <1>6, <1>7 DEF DeployInv

(* Steps that change neither the engine's versions nor the tables and take *)
(* at most messages out of the queues.                                     *)
LEMMA QuietStep ==
    ASSUME DeployInv, TypeOK',
           UNCHANGED << ce, entries, SeenStreams, route >>,
           \A x \in Switches : \A m : Holds(toController'[x], m) => Holds(toController[x], m),
           \A x \in Switches : \A m : Once(toController[x], m) => Once(toController'[x], m),
           \A x \in Switches : \A m : Holds(toSwitch'[x], m) => Holds(toSwitch[x], m),
           \A v \in Versions : Released(v)' => Released(v)
    PROVE  DeployInv'
<1>1. NumberInRange'
    BY DEF DeployInv, NumberInRange
<1>2. QueuedRulesIssued'
  <2>1. \A x \in Switches : \A m : Holds(toSwitch[x], m) /\ m.type = "FlowMod" => RuleOK(m)
      BY QueuedRules DEF DeployInv
  <2>2. \A x \in Switches : \A m : Holds(toSwitch'[x], m) /\ m.type = "FlowMod" => RuleOK(m)
      BY <2>1
  <2> QED BY <2>2 DEF QueuedRulesIssued, Holds, RuleOK, Issued
<1>3. AcksTruthful'
  <2>1. SUFFICES ASSUME NEW x \in Switches, NEW v \in Versions, Holds(toController'[x], Ack(v))
                 PROVE  Issued(v) /\ Installed(x, route[v].sid, v)
      BY DEF AcksTruthful, Ack, Issued, Installed
  <2> QED BY <2>1 DEF DeployInv, AcksTruthful
<1>4. AckedInstalled'
    BY DEF DeployInv, AckedInstalled, Issued, Installed
<1>5. ReleasedComplete'
  <2>1. SUFFICES ASSUME NEW v \in Versions, Released(v)'
                 PROVE  Issued(v) /\ ce.AckWaitingPaths[v] = {}
      BY DEF ReleasedComplete, Issued
  <2> QED BY <2>1 DEF DeployInv, ReleasedComplete
<1>6. AdvertisedOnce' /\ UnadvertisedIdle'
    BY QuietRequests DEF DeployInv, Assigned, Pending
<1> QED BY <1>1, <1>2, <1>3, <1>4, <1>5, <1>6 DEF DeployInv

LEMMA ReceiveAckStep ==
    ASSUME DeployInv, TypeOK', NEW sw \in Switches, ReceiveAck(sw)
    PROVE  DeployInv'
<1>0. PICK v \in Versions : v = Head(toController[sw]).version
    BY MessageTypes DEF ReceiveAck, DeployInv
<1>1. /\ TypeOK /\ ce \in EngineState /\ toController[sw] # << >>
      /\ Head(toController[sw]) = Ack(v)
      /\ ce' = receiveAck(ce, v, sw)
      /\ ConsumeFrom(sw) /\ UNCHANGED << entries, SeenStreams, StreamActiveMatchVersionMap, route >>
    BY <1>0, HeadIs DEF ReceiveAck, DeployInv, TypeOK, NextFrom, switchVars
<1>2. Issued(v) /\ Installed(sw, route[v].sid, v)
  <2>1. Holds(toController[sw], Ack(v))
      BY <1>1, ConsumeFromFacts
  <2> QED BY <2>1 DEF DeployInv, AcksTruthful
<1>3. /\ ce'.OF_match_version_number = ce.OF_match_version_number
      /\ ce'.prevAssignments = ce.prevAssignments
      /\ ce'.AckWaitingPaths = [ce.AckWaitingPaths EXCEPT ![v] = @ \ {sw}]
      /\ \A u \in Streams : ~ Pending(ce, u) => ~ Pending(ce', u)
    BY <1>1, ReceiveAckFacts
<1>4. \A u \in Streams : /\ ~ Assigned(ce, u) => ~ Assigned(ce', u)
                         /\ ~ Pending(ce, u) => ~ Pending(ce', u)
    BY <1>3 DEF Assigned
<1>5. /\ \A w : Issued(w)' <=> Issued(w)
      /\ \A x, u, w : Installed(x, u, w)' <=> Installed(x, u, w)
    BY <1>1, <1>3 DEF Issued, Installed
<1>6. ce.AckWaitingPaths \in [Versions -> SUBSET Switches]
    BY <1>1 DEF EngineState
<1>7. \A x \in Switches : \A m : Holds(toSwitch'[x], m) =>
          Holds(toSwitch[x], m) \/
          (ce'.AckWaitingPaths[v] = {} /\ \E s \in Streams \cup {0} : m = Activation(s, v))
  <2>1. CASE StillWaiting(ce, v, sw) # {}
      BY <1>0, <2>1 DEF ReceiveAck
  <2>2. CASE StillWaiting(ce, v, sw) = {}
    <3>1. PICK s \in ActivatedStreams(ce, v) :
             toSwitch' = [toSwitch EXCEPT ![ce.IngressSwTable[v]] = Append(@, Activation(s, v))]
        BY <1>0, <2>2 DEF ReceiveAck
    <3>2. s \in Streams \cup {0}
        BY <1>1, FirstWaiting
    <3>3. Activation(s, v) \in ToSwitchMsg
        BY <3>2 DEF Activation, ToSwitchMsg
    <3>4. toSwitch \in [Switches -> Seq(ToSwitchMsg)]
        BY <1>1 DEF TypeOK
    <3>5. \A x \in Switches : toSwitch'[x] = toSwitch[x]
                              \/ toSwitch'[x] = Append(toSwitch[x], Activation(s, v))
        BY <3>1, <3>4
    <3>6. \A x \in Switches : \A m : Holds(Append(toSwitch[x], Activation(s, v)), m) =>
              Holds(toSwitch[x], m) \/ m = Activation(s, v)
        BY <3>3, <3>4, HoldsAppend
    <3>7. ce'.AckWaitingPaths[v] = {}
        BY <1>3, <1>6, <2>2 DEF StillWaiting
    <3> QED BY <3>2, <3>5, <3>6, <3>7
  <2> QED BY <2>1, <2>2
<1>8. NumberInRange'
    BY <1>3 DEF DeployInv, NumberInRange
<1>9. QueuedRulesIssued'
  <2>1. SUFFICES ASSUME NEW x \in Switches, NEW m, Holds(toSwitch'[x], m), m.type = "FlowMod"
                 PROVE  RuleOK(m)'
      BY DEF QueuedRulesIssued, Holds, RuleOK
  <2>2. Holds(toSwitch[x], m)
      BY <1>7, <2>1, MessagesDiffer
  <2>3. RuleOK(m)
      BY <2>1, <2>2, QueuedRules DEF DeployInv
  <2> QED BY <1>1, <1>5, <2>3 DEF RuleOK
<1>10. AcksTruthful'
  <2>1. SUFFICES ASSUME NEW x \in Switches, NEW w \in Versions, Holds(toController'[x], Ack(w))
                 PROVE  Issued(w) /\ Installed(x, route[w].sid, w)
      BY <1>1, <1>5 DEF AcksTruthful, Ack
  <2>2. Holds(toController[x], Ack(w))
      BY <1>1, <2>1, ConsumeFromFacts
  <2> QED BY <2>2 DEF DeployInv, AcksTruthful
<1>11. AckedInstalled'
  <2>1. SUFFICES ASSUME NEW w \in Versions, Issued(w),
                        NEW x \in SwitchesOn(route[w].path) \ ce'.AckWaitingPaths[w]
                 PROVE  Installed(x, route[w].sid, w)
      BY <1>1, <1>5 DEF AckedInstalled
  <2>2. CASE w = v /\ x = sw
      BY <1>2, <2>2
  <2>3. CASE w # v \/ x # sw
      BY <1>3, <1>6, <2>1, <2>3 DEF DeployInv, AckedInstalled
  <2> QED BY <2>2, <2>3
<1>12. ReleasedComplete'
  <2>1. SUFFICES ASSUME NEW w \in Versions, Released(w)'
                 PROVE  Issued(w) /\ ce'.AckWaitingPaths[w] = {}
      BY <1>5 DEF ReleasedComplete
  <2>2. Released(w) \/ (w = v /\ ce'.AckWaitingPaths[v] = {})
    <3>1. CASE \E x \in Switches, s \in Streams \cup {0} : Holds(toSwitch'[x], Activation(s, w))
      <4>1. PICK x \in Switches, s \in Streams \cup {0} : Holds(toSwitch'[x], Activation(s, w))
          BY <3>1
      <4> QED BY <1>7, <4>1, MessagesDiffer DEF Released
    <3>2. CASE \E s \in Streams : w # 0 /\ ActiveVersion(s)' = w
        BY <1>1, <3>2 DEF Released, ActiveVersion
    <3> QED BY <2>1, <3>1, <3>2 DEF Released, Activation
  <2>3. CASE Released(w)
    <3>1. Issued(w) /\ ce.AckWaitingPaths[w] = {}
        BY <2>3 DEF DeployInv, ReleasedComplete
    <3> QED BY <1>3, <1>6, <3>1
  <2> QED BY <1>2, <2>2, <2>3
<1>13. AdvertisedOnce' /\ UnadvertisedIdle'
  <2>1. \A x \in Switches : \A u \in Streams :
            /\ Holds(toController'[x], TalkerAdvertise(u)) => Holds(toController[x], TalkerAdvertise(u))
            /\ Once(toController[x], TalkerAdvertise(u)) => Once(toController'[x], TalkerAdvertise(u))
      BY <1>1, ConsumeFromFacts
  <2> QED BY <1>1, <1>4, <2>1, QuietRequests DEF DeployInv
<1> QED BY <1>8, <1>9, <1>10, <1>11, <1>12, <1>13 DEF DeployInv

LEMMA HandleFlowModStep ==
    ASSUME Undisturbed, DeployInv, TypeOK', NEW sw \in Switches, HandleFlowMod(sw)
    PROVE  DeployInv'
<1>0. PICK x \in Entry : x = Head(toSwitch[sw]).entry
    BY MessageTypes DEF HandleFlowMod, DeployInv
<1>1. /\ TypeOK /\ toSwitch[sw] # << >> /\ Head(toSwitch[sw]).type = "FlowMod"
      /\ handleFlowMod(sw, x) /\ ConsumeAt(sw)
      /\ toController' = [toController EXCEPT ![sw] = Append(@, Ack(x.tag))]
      /\ UNCHANGED << ce, SeenStreams, StreamActiveMatchVersionMap, route >>
    BY <1>0 DEF HandleFlowMod, handleFlowMod, NextAt, DeployInv, Undisturbed
<1>2. PICK t \in addEntry(entries[sw], x) : entries' = [entries EXCEPT ![sw] = t]
    BY <1>1 DEF handleFlowMod, Undisturbed
<1>3. /\ entries \in [Switches -> Seq(Entry)] /\ entries[sw] \in Seq(Entry)
      /\ toController \in [Switches -> Seq(ToControllerMsg)]
    BY <1>1 DEF TypeOK
<1>4. \A y \in Switches : \A u, v : Installed(y, u, v) => Installed(y, u, v)'
  <2>1. SUFFICES ASSUME NEW y \in Switches, NEW u, NEW v, Installed(y, u, v)
                 PROVE  Installed(y, u, v)'
      OBVIOUS
  <2>2. CASE y # sw
      BY <1>2, <1>3, <2>1, <2>2 DEF Installed
  <2>3. CASE y = sw
    <3>1. \A i \in DOMAIN entries[sw] : \E j \in DOMAIN t : t[j] = entries[sw][i]
        BY <1>3, AddEntryKeeps DEF Undisturbed
    <3>2. entries'[sw] = t
        BY <1>2, <1>3
    <3> QED BY <2>1, <2>3, <3>1, <3>2 DEF Installed
  <2> QED BY <2>2, <2>3
<1>5. Issued(x.tag) /\ x.flow = FlowOf[route[x.tag].sid]
  <2>1. Holds(toSwitch[sw], Head(toSwitch[sw]))
      BY <1>1, ConsumeAtFacts
  <2>2. RuleOK(Head(toSwitch[sw]))
      BY <1>1, <2>1, QueuedRules DEF DeployInv
  <2> QED BY <1>0, <2>2 DEF RuleOK
<1>6. Installed(sw, route[x.tag].sid, x.tag)'
  <2>1. \E j \in DOMAIN t : t[j] = x
      BY <1>3, AddEntryKeeps DEF Undisturbed
  <2>2. entries'[sw] = t
      BY <1>2, <1>3
  <2> QED BY <1>1, <1>5, <2>1, <2>2 DEF Installed
<1>7. Ack(x.tag) \in ToControllerMsg /\ toController[sw] \in Seq(ToControllerMsg)
    BY <1>3 DEF Ack, ToControllerMsg, Entry
<1>8. /\ toController'[sw] = Append(toController[sw], Ack(x.tag))
      /\ \A y \in Switches \ {sw} : toController'[y] = toController[y]
    BY <1>1, <1>3
<1>9. \A m : Holds(toController'[sw], m) <=> Holds(toController[sw], m) \/ m = Ack(x.tag)
    BY <1>7, <1>8, HoldsAppend
<1>10. \A y \in Switches : \A m : Holds(toSwitch'[y], m) => Holds(toSwitch[y], m)
    BY <1>1, ConsumeAtFacts
<1>11. NumberInRange'
    BY <1>1 DEF DeployInv, NumberInRange
<1>12. QueuedRulesIssued'
  <2>1. SUFFICES ASSUME NEW y \in Switches, NEW m, Holds(toSwitch'[y], m), m.type = "FlowMod"
                 PROVE  RuleOK(m)
      BY <1>1 DEF QueuedRulesIssued, Holds, RuleOK, Issued
  <2> QED BY <1>10, <2>1, QueuedRules DEF DeployInv
<1>13. AcksTruthful'
  <2>1. SUFFICES ASSUME NEW y \in Switches, NEW v \in Versions, Holds(toController'[y], Ack(v))
                 PROVE  Issued(v) /\ Installed(y, route[v].sid, v)'
      BY <1>1 DEF AcksTruthful, Ack, Issued
  <2>2. CASE Holds(toController[y], Ack(v))
    <3>1. Issued(v) /\ Installed(y, route[v].sid, v)
        BY <2>2 DEF DeployInv, AcksTruthful
    <3>2. Installed(y, route[v].sid, v)'
        BY <1>1, <1>4, <3>1
    <3> QED BY <3>1, <3>2
  <2>3. CASE y = sw /\ v = x.tag
      BY <1>5, <1>6, <2>3
  <2> QED BY <1>8, <1>9, <2>1, <2>2, <2>3, MessagesDiffer
<1>14. AckedInstalled'
  <2>1. SUFFICES ASSUME NEW v \in Versions, Issued(v), NEW y \in Switches,
                        y \in SwitchesOn(route[v].path) \ ce.AckWaitingPaths[v]
                 PROVE  Installed(y, route[v].sid, v)'
    <3>1. \A v \in Versions : SwitchesOn(route[v].path) \subseteq Switches
        BY <1>1 DEF TypeOK, Paths, SwitchesOn
    <3> QED BY <1>1, <3>1 DEF AckedInstalled, Issued
  <2>2. Installed(y, route[v].sid, v)
      BY <2>1 DEF DeployInv, AckedInstalled
  <2> QED BY <1>1, <1>4, <2>2
<1>15. ReleasedComplete'
  <2>1. \A v \in Versions : Released(v)' => Released(v)
      BY <1>1, <1>10 DEF Released, ActiveVersion, Activation
  <2>2. SUFFICES ASSUME NEW v \in Versions, Released(v)'
                 PROVE  Issued(v) /\ ce.AckWaitingPaths[v] = {}
      BY <1>1 DEF ReleasedComplete, Issued
  <2> QED BY <2>1, <2>2 DEF DeployInv, ReleasedComplete
<1>16. AdvertisedOnce' /\ UnadvertisedIdle'
  <2>1. ASSUME NEW y \in Switches, NEW u \in Streams
        PROVE  /\ Holds(toController'[y], TalkerAdvertise(u)) =>
                     Holds(toController[y], TalkerAdvertise(u))
               /\ Once(toController[y], TalkerAdvertise(u)) =>
                     Once(toController'[y], TalkerAdvertise(u))
    <3>1. TalkerAdvertise(u) # Ack(x.tag)
        BY MessagesDiffer
    <3>2. Once(toController[sw], TalkerAdvertise(u)) =>
              Once(Append(toController[sw], Ack(x.tag)), TalkerAdvertise(u))
        BY <1>7, <3>1, OnceAppend
    <3> QED BY <1>8, <1>9, <3>1, <3>2
  <2> QED BY <1>1, <2>1, QuietRequests DEF DeployInv, Assigned, Pending
<1> QED BY <1>11, <1>12, <1>13, <1>14, <1>15, <1>16 DEF DeployInv

-----------------------------------------------------------------------------
LEMMA DeployInit == Init => DeployInv
<1> SUFFICES ASSUME Init PROVE DeployInv
    OBVIOUS
<1>1. TypeOK
    BY TypeInit
<1>2. ce.OF_match_version_number = 1
  <2>1. 1 \in Nat /\ 1 < VersionSpace
      OBVIOUS
  <2> QED BY <2>1, ModSmall DEF Init, EngineInit
<1>3. \A sw \in Switches : \A m : ~ Holds(toSwitch[sw], m) /\ ~ Holds(toController[sw], m)
    BY DEF Init, Holds
<1>4. \A v : ~ Issued(v)
    BY <1>2 DEF Issued
<1>5. NumberInRange /\ AckedInstalled
    BY <1>2, <1>4 DEF NumberInRange, AckedInstalled
<1>6. QueuedRulesIssued /\ AcksTruthful
  <2>1. QueuedRulesIssued
      BY <1>3, QueuedRules
  <2> QED BY <1>3, <2>1 DEF AcksTruthful
<1>7. ReleasedComplete
  <2>1. \A s \in Streams : ActiveVersion(s) = 0
      BY DEF Init, SwitchInit, ActiveVersion
  <2> QED BY <1>3, <2>1 DEF ReleasedComplete, Released
<1>8. AdvertisedOnce /\ UnadvertisedIdle
  <2>1. \A s \in Streams : ~ Assigned(ce, s) /\ ~ Pending(ce, s)
      BY DEF Init, EngineInit, Assigned, Pending
  <2>2. \A sw \in Switches : \A m : Once(toController[sw], m)
      BY DEF Init, Once
  <2> QED BY <1>3, <2>1, <2>2 DEF AdvertisedOnce, UnadvertisedIdle
<1> QED BY <1>1, <1>5, <1>6, <1>7, <1>8 DEF DeployInv

(* Every step keeps the invariant: one step of the proof per action.       *)
LEMMA DeployStep ==
    ASSUME Undisturbed, DeployInv, [Next]_vars
    PROVE  DeployInv'
<1>0. TypeOK /\ TypeOK'
    BY TypeStep DEF DeployInv
<1>1. ASSUME NEW sw \in Switches, RejectTalker(sw) PROVE DeployInv'
  <2>1. toController[sw] # << >> /\ ConsumeFrom(sw)
        /\ UNCHANGED << ce, entries, SeenStreams, StreamActiveMatchVersionMap, toSwitch, route >>
      BY <1>1 DEF RejectTalker, NextFrom, switchVars
  <2>2. /\ \A x \in Switches : \A m : Holds(toController'[x], m) => Holds(toController[x], m)
        /\ \A x \in Switches : \A m : Once(toController[x], m) => Once(toController'[x], m)
      BY <1>0, <2>1, ConsumeFromFacts
  <2>3. \A v \in Versions : Released(v)' => Released(v)
      BY <2>1 DEF Released, ActiveVersion, Holds, Activation
  <2> QED BY <1>0, <2>1, <2>2, <2>3, QuietStep
<1>2. ASSUME NEW sw \in Switches, HandleListenerReady(sw) PROVE DeployInv'
  <2>1. toSwitch[sw] # << >> /\ ConsumeAt(sw)
        /\ UNCHANGED << ce, entries, SeenStreams, StreamActiveMatchVersionMap, toController, route >>
      BY <1>2 DEF HandleListenerReady, NextAt, switchVars
  <2>2. \A x \in Switches : \A m : Holds(toSwitch'[x], m) => Holds(toSwitch[x], m)
      BY <1>0, <2>1, ConsumeAtFacts
  <2>3. \A v \in Versions : Released(v)' => Released(v)
      BY <2>1, <2>2 DEF Released, ActiveVersion, Activation
  <2> QED BY <1>0, <2>1, <2>2, <2>3, QuietStep
<1>3. ASSUME NEW sw \in Switches, HandleActivation(sw) PROVE DeployInv'
  <2> DEFINE m == Head(toSwitch[sw])
  <2>1. /\ toSwitch[sw] # << >> /\ ConsumeAt(sw) /\ m = Activation(m.sid, m.version)
        /\ m.sid \in Streams \cup {0} /\ m.version \in Versions
        /\ StreamActiveMatchVersionMap' =
               [StreamActiveMatchVersionMap EXCEPT
                   ![sw] = [t \in Streams |-> IF t = m.sid THEN m.version ELSE @[t]]]
        /\ UNCHANGED << ce, entries, SeenStreams, toController, route >>
      BY <1>0, <1>3, MessageTypes, HeadIs DEF HandleActivation, handleMatchVersionMessage, NextAt
  <2>2. /\ \A x \in Switches : \A y : Holds(toSwitch'[x], y) => Holds(toSwitch[x], y)
        /\ Holds(toSwitch[sw], m)
      BY <1>0, <2>1, ConsumeAtFacts
  <2>3. StreamActiveMatchVersionMap \in [Switches -> [Streams -> Versions]]
      BY <1>0 DEF TypeOK
  <2> HIDE DEF m
  <2>4. \A s \in Streams : ActiveVersion(s)' = ActiveVersion(s)
                           \/ ActiveVersion(s)' = m.version
      BY <2>1, <2>3 DEF ActiveVersion
  <2>5. Released(m.version)
    <3>1. Holds(toSwitch[sw], Activation(m.sid, m.version))
        BY <2>1, <2>2
    <3> QED BY <2>1, <3>1 DEF Released
  <2>6. ASSUME NEW v \in Versions, Released(v)' PROVE Released(v)
    <3>1. CASE \E x \in Switches, s \in Streams \cup {0} : Holds(toSwitch'[x], Activation(s, v))
        BY <2>2, <3>1 DEF Released
    <3>2. CASE \E s \in Streams : v # 0 /\ ActiveVersion(s)' = v
        BY <2>4, <2>5, <3>2 DEF Released
    <3> QED BY <2>6, <3>1, <3>2 DEF Released, Activation
  <2> QED BY <1>0, <2>1, <2>2, <2>6, QuietStep
<1>4. ASSUME NEW s \in Observed, SendFrame(s) \/ RelayFrame(s) PROVE DeployInv'
  <2>1. UNCHANGED << ce, entries, SeenStreams, StreamActiveMatchVersionMap, toSwitch,
                     toController, route >>
      BY <1>4 DEF SendFrame, RelayFrame, switchVars
  <2>2. \A v \in Versions : Released(v)' => Released(v)
      BY <2>1 DEF Released, ActiveVersion, Holds, Activation
  <2> QED BY <1>0, <2>1, <2>2, QuietStep
<1>5. CASE UNCHANGED vars
  <2>1. UNCHANGED << ce, entries, SeenStreams, StreamActiveMatchVersionMap, toSwitch,
                     toController, route >>
      BY <1>5 DEF vars, switchVars
  <2>2. \A v \in Versions : Released(v)' => Released(v)
      BY <2>1 DEF Released, ActiveVersion, Holds, Activation
  <2> QED BY <1>0, <2>1, <2>2, QuietStep
<1>6. ASSUME NEW sw \in Switches PROVE ~ ExpireRule(sw)
    BY DEF ExpireRule, Undisturbed
<1> QED BY <1>0, <1>1, <1>2, <1>3, <1>4, <1>5, <1>6, AdvertiseStep, AcceptTalkerStep,
           ReceiveAckStep, HandleFlowModStep
        DEF Next, Controller, Agent

(* What the ACK protocol keeps true at every moment: ACKs on their way     *)
(* stand for installed rules, the waiting paths tell which rules are still *)
(* missing, queued rules are of issued versions, every talker's request is *)
(* answered once (ConfigurationEngine.cc, Edge_OF_SwitchAgent.cc).         *)
THEOREM DeployInvHolds ==
    ASSUME Undisturbed
    PROVE  Spec => []DeployInv
<1>1. Init => DeployInv
    BY DeployInit
<1>2. DeployInv /\ [Next]_vars => DeployInv'
    BY DeployStep
<1> QED BY <1>1, <1>2, PTL DEF Spec

(* The promise of the ACK protocol of the ConfigurationEngine: undisturbed *)
(* by full tables, expiring rules and overlapping moves, no version ever   *)
(* tags a frame before every switch of its path has acknowledged, and      *)
(* really holds, its rule - for any topology, any streams and any number   *)
(* of reconfigurations.                                                    *)
THEOREM Deployed ==
    ASSUME Undisturbed
    PROVE  Spec => []ReleasedOnlyWhenDeployed
<1>1. DeployInv => ReleasedOnlyWhenDeployed
    BY DEF DeployInv, ReleasedComplete, AckedInstalled, ReleasedOnlyWhenDeployed
<1> QED BY <1>1, DeployInvHolds, PTL

-----------------------------------------------------------------------------
(* Nothing is held beyond the counter, and no two streams hold the same:   *)
(* the invariant of StreamFlowVersionTable, as long as the counter has not *)
(* wrapped.                                                                *)
TableUnique(e) ==
    /\ e.OF_match_version_number \in 1 .. VersionSpace - 1
    /\ \A s \in Streams :
          /\ e.StreamFlowVersionTable[s].next < e.OF_match_version_number
          /\ e.StreamFlowVersionTable[s].current < e.OF_match_version_number
    /\ \A s, t \in Streams : s # t =>
          \A v \in Versions \ {0} :
             ~ (/\ v \in {e.StreamFlowVersionTable[s].next, e.StreamFlowVersionTable[s].current}
                /\ v \in {e.StreamFlowVersionTable[t].next, e.StreamFlowVersionTable[t].current})

(* A row of the table, the other rows as they were.                        *)
LEMMA RowUnique ==
    ASSUME NEW e \in EngineState, NEW f \in EngineState, TableUnique(e), NEW s \in Streams,
           NEW row \in versionInfo,
           f.StreamFlowVersionTable = [e.StreamFlowVersionTable EXCEPT ![s] = row],
           f.OF_match_version_number \in 1 .. VersionSpace - 1,
           f.OF_match_version_number >= e.OF_match_version_number,
           \A v \in {row.next, row.current} :
               /\ v < f.OF_match_version_number
               /\ \/ v = 0 \/ v = e.OF_match_version_number
                  \/ v = e.StreamFlowVersionTable[s].next
                  \/ v = e.StreamFlowVersionTable[s].current
    PROVE  TableUnique(f)
<1>1. /\ e.StreamFlowVersionTable \in [Streams -> versionInfo]
      /\ f.StreamFlowVersionTable[s] = row
      /\ \A t \in Streams \ {s} : f.StreamFlowVersionTable[t] = e.StreamFlowVersionTable[t]
    BY DEF EngineState
<1>2. \A t \in Streams : /\ e.StreamFlowVersionTable[t].next \in Nat
                         /\ e.StreamFlowVersionTable[t].current \in Nat
    BY <1>1 DEF versionInfo, Versions
<1>3. \A t \in Streams : /\ f.StreamFlowVersionTable[t].next < f.OF_match_version_number
                         /\ f.StreamFlowVersionTable[t].current < f.OF_match_version_number
    BY <1>1, <1>2 DEF TableUnique
<1>4. ASSUME NEW t \in Streams \ {s}, NEW v \in Versions \ {0},
             v \in {row.next, row.current},
             v \in {e.StreamFlowVersionTable[t].next, e.StreamFlowVersionTable[t].current}
      PROVE  FALSE
  <2>1. v # e.OF_match_version_number
      BY <1>2, <1>4 DEF TableUnique
  <2>2. v \in {e.StreamFlowVersionTable[s].next, e.StreamFlowVersionTable[s].current}
      BY <1>4, <2>1
  <2> QED BY <1>4, <2>2 DEF TableUnique
<1> QED BY <1>1, <1>3, <1>4 DEF TableUnique

LEMMA AssignUnique ==
    ASSUME NEW e \in EngineState, TableUnique(e), NEW s \in Streams, NEW p \in CandidatePaths[s],
           e.OF_match_version_number + 1 < VersionSpace
    PROVE  /\ TableUnique(assign(e, s, p))
           /\ assign(e, s, p).OF_match_version_number
                  \in {e.OF_match_version_number, e.OF_match_version_number + 1}
<1> DEFINE f == assign(e, s, p)
           g == addMatchVersiontoStream(e, s)
           n == e.OF_match_version_number
<1>1. f \in EngineState /\ n \in 1 .. VersionSpace - 1 /\ n \in Versions
    BY AssignType DEF TableUnique, EngineState
<1>2. /\ f.StreamFlowVersionTable = g.StreamFlowVersionTable
      /\ f.OF_match_version_number = g.OF_match_version_number
    BY DEF assign
<1>3. CASE ~ isTaggingEnabled \/ Pending(e, s)
  <2>1. g = e
      BY <1>3 DEF addMatchVersiontoStream
  <2> HIDE DEF f, g
  <2> QED BY <1>2, <2>1 DEF TableUnique, f
<1>4. CASE ~ (~ isTaggingEnabled \/ Pending(e, s))
  <2> DEFINE row == [next |-> n, current |-> e.StreamFlowVersionTable[s].current]
  <2>1. g = [e EXCEPT !.StreamFlowVersionTable[s] = row,
                      !.OF_match_version_number = (n + 1) % VersionSpace]
      BY <1>4 DEF addMatchVersiontoStream
  <2>2. (n + 1) % VersionSpace = n + 1
    <3> HIDE DEF n
    <3>1. n + 1 \in Nat /\ n + 1 < VersionSpace
        BY <1>1 DEF n
    <3> QED BY <3>1, ModSmall
  <2>3. row \in versionInfo /\ e.StreamFlowVersionTable[s].current < n
      BY <1>1 DEF versionInfo, EngineState, TableUnique
  <2>4. /\ g.StreamFlowVersionTable = [e.StreamFlowVersionTable EXCEPT ![s] = row]
        /\ g.OF_match_version_number = n + 1
      BY <2>1, <2>2 DEF EngineState
  <2>5. /\ f.StreamFlowVersionTable = [e.StreamFlowVersionTable EXCEPT ![s] = row]
        /\ f.OF_match_version_number = n + 1
        /\ f.OF_match_version_number \in 1 .. VersionSpace - 1
      BY <1>1, <1>2, <2>4
  <2>6. \A v \in {row.next, row.current} :
            /\ v < f.OF_match_version_number
            /\ v = n \/ v = e.StreamFlowVersionTable[s].current
    <3>1. e.StreamFlowVersionTable[s].current \in Versions
        BY DEF EngineState, versionInfo
    <3> QED BY <1>1, <2>3, <2>5, <3>1 DEF Versions
  <2> HIDE DEF f, g, row
  <2>7. f.OF_match_version_number >= n
      BY <1>1, <2>5
  <2>8. TableUnique(f)
      BY <1>1, <2>3, <2>5, <2>6, <2>7, RowUnique
  <2> QED BY <2>5, <2>8 DEF f
<1> QED BY <1>3, <1>4

LEMMA AckUnique ==
    ASSUME NEW e \in EngineState, TableUnique(e), NEW v \in Versions, NEW sw \in Switches
    PROVE  TableUnique(receiveAck(e, v, sw))
<1> DEFINE f == receiveAck(e, v, sw)
           g == activateMatchVersion(e, v)
<1>1. f \in EngineState
    BY ReceiveAckType
<1>2. CASE StillWaiting(e, v, sw) # {} \/ WaitingFor(e, v) = {}
  <2>1. /\ f.StreamFlowVersionTable = e.StreamFlowVersionTable
        /\ f.OF_match_version_number = e.OF_match_version_number
      BY <1>2 DEF receiveAck, activateMatchVersion, EngineState
  <2> HIDE DEF f
  <2> QED BY <2>1 DEF TableUnique, f
<1>3. CASE StillWaiting(e, v, sw) = {} /\ WaitingFor(e, v) # {}
  <2> DEFINE s == FirstWaitingFor(e, v)
             row == [next |-> 0, current |-> v]
  <2>1. s \in Streams /\ e.StreamFlowVersionTable[s].next = v
      BY <1>3, FirstWaiting DEF WaitingFor
  <2>2. row \in versionInfo
      BY DEF versionInfo, Versions
  <2> HIDE DEF s
  <2>3. /\ g.StreamFlowVersionTable = [e.StreamFlowVersionTable EXCEPT ![s] = row]
        /\ g.OF_match_version_number = e.OF_match_version_number
        /\ g \in EngineState
      BY <1>3, <2>1, <2>2 DEF activateMatchVersion, s, EngineState
  <2>4. f = [g EXCEPT !.AckWaitingPaths[v] = {}]
      BY <1>3 DEF receiveAck
  <2> HIDE DEF g
  <2>5. /\ f.StreamFlowVersionTable = [e.StreamFlowVersionTable EXCEPT ![s] = row]
        /\ f.OF_match_version_number = e.OF_match_version_number
      BY <2>3, <2>4 DEF EngineState
  <2>6. e.OF_match_version_number \in 1 .. VersionSpace - 1 /\ v < e.OF_match_version_number
      BY <2>1 DEF TableUnique
  <2>7. \A w \in {row.next, row.current} :
            w < e.OF_match_version_number /\ (w = 0 \/ w = e.StreamFlowVersionTable[s].next)
      BY <2>1, <2>6
  <2>8. e.OF_match_version_number >= e.OF_match_version_number
      BY <2>6
  <2> HIDE DEF f, row
  <2> QED BY <1>1, <2>1, <2>2, <2>5, <2>6, <2>7, <2>8, RowUnique DEF f
<1> QED BY <1>2, <1>3

UniqueInv == TypeOK /\ TableUnique(ce)

LEMMA UniqueStep == UniqueInv /\ [Next]_vars => UniqueInv'
<1> SUFFICES ASSUME UniqueInv, [Next]_vars PROVE UniqueInv'
    OBVIOUS
<1>0. TypeOK /\ TypeOK' /\ ce \in EngineState /\ TableUnique(ce)
    BY TypeStep DEF UniqueInv, TypeOK
<1>1. ASSUME ce' = ce PROVE TableUnique(ce')
    BY <1>0, <1>1
<1>2. ASSUME NEW sw \in Switches, AcceptTalker(sw) PROVE TableUnique(ce')
  <2>1. PICK s \in Streams : s = Head(toController[sw]).sid
      BY <1>0, <1>2, MessageTypes DEF AcceptTalker
  <2>2. PICK p \in CandidatePaths[s] : ce' = assign(ce, s, p)
      BY <1>2, <2>1 DEF AcceptTalker
  <2>3. ce.OF_match_version_number + 1 < VersionSpace
      BY <1>0, <1>2 DEF AcceptTalker, TableUnique
  <2> QED BY <1>0, <2>2, <2>3, AssignUnique
<1>3. ASSUME NEW sw \in Switches, AcceptAndMove(sw) PROVE TableUnique(ce')
  <2>1. PICK s \in Streams : s = Head(toController[sw]).sid
      BY <1>0, <1>3, MessageTypes DEF AcceptAndMove
  <2>2. PICK p \in CandidatePaths[s], t \in Streams \ {s} :
           \E q \in CandidatePaths[t] : ce' = assign(assign(ce, t, q), s, p)
      BY <1>3, <2>1, ZenonT(60) DEF AcceptAndMove
  <2>3. PICK q \in CandidatePaths[t] : ce' = assign(assign(ce, t, q), s, p)
      BY <2>2
  <2> DEFINE e == assign(ce, t, q)
  <2>4. ce.OF_match_version_number + 2 < VersionSpace
        /\ ce.OF_match_version_number + 1 < VersionSpace
      BY <1>0, <1>3 DEF AcceptAndMove, TableUnique
  <2>5. /\ TableUnique(e) /\ e \in EngineState
        /\ e.OF_match_version_number
               \in {ce.OF_match_version_number, ce.OF_match_version_number + 1}
      BY <1>0, <2>4, AssignUnique, AssignType
  <2>6. ce' = assign(e, s, p)
      BY <2>3
  <2> HIDE DEF e
  <2>7. e.OF_match_version_number + 1 < VersionSpace
      BY <1>0, <2>4, <2>5 DEF TableUnique
  <2> QED BY <2>5, <2>6, <2>7, AssignUnique
<1>4. ASSUME NEW sw \in Switches, ReceiveAck(sw) PROVE TableUnique(ce')
  <2>1. PICK v \in Versions : v = Head(toController[sw]).version
      BY <1>0, <1>4, MessageTypes DEF ReceiveAck
  <2>2. ce' = receiveAck(ce, v, sw)
      BY <1>4, <2>1 DEF ReceiveAck
  <2> QED BY <1>0, <2>2, AckUnique
<1>5. ASSUME NEW s \in Streams, Advertise(s) PROVE ce' = ce
    BY <1>5 DEF Advertise
<1>6. ASSUME NEW sw \in Switches, RejectTalker(sw) \/ Agent(sw) \/ ExpireRule(sw)
      PROVE  ce' = ce
    BY <1>6 DEF RejectTalker, Agent, HandleFlowMod, HandleListenerReady, HandleActivation,
                ExpireRule
<1>7. ASSUME NEW s \in Observed, SendFrame(s) \/ RelayFrame(s) PROVE ce' = ce
    BY <1>7 DEF SendFrame, RelayFrame
<1>8. CASE UNCHANGED vars
    BY <1>1, <1>8, <1>0 DEF vars, UniqueInv
<1>9. CASE Next
    BY <1>0, <1>1, <1>2, <1>3, <1>4, <1>5, <1>6, <1>7, <1>9 DEF Next, Controller, UniqueInv
<1> QED BY <1>8, <1>9

(* No two streams ever hold the same version, pending or current - however *)
(* the optimiser moves them, also while a version of theirs is pending,    *)
(* with or without tagging, rules that expire and full tables              *)
(* (addMatchVersiontoStream and activateMatchVersion).  The numbers are    *)
(* those before the counter wraps (LastVersion < VersionSpace).            *)
THEOREM VersionsUniqueHolds == Spec => []VersionsUnique
<1>1. Init => UniqueInv
  <2> SUFFICES ASSUME Init PROVE UniqueInv
      OBVIOUS
  <2>1. 1 % VersionSpace = 1
      BY ModSmall
  <2>2. /\ ce.OF_match_version_number = 1
        /\ \A s \in Streams : ce.StreamFlowVersionTable[s] = [next |-> 0, current |-> 0]
      BY <2>1 DEF Init, EngineInit
  <2> QED BY <2>2, TypeInit DEF UniqueInv, TableUnique
<1>2. UniqueInv /\ [Next]_vars => UniqueInv'
    BY UniqueStep
<1>3. UniqueInv => VersionsUnique
  <2> SUFFICES ASSUME UniqueInv, NEW s \in Streams, NEW t \in Streams, s # t,
                      NEW v \in VersionsOf(s) \cap VersionsOf(t)
               PROVE  FALSE
      BY DEF VersionsUnique
  <2>1. v \in Versions \ {0}
      BY DEF UniqueInv, TypeOK, EngineState, versionInfo, VersionsOf
  <2> QED BY <2>1 DEF UniqueInv, TableUnique, VersionsOf
<1> QED BY <1>1, <1>2, <1>3, PTL DEF Spec

-----------------------------------------------------------------------------
(* Every issued version belongs to a stream, and its ActivationMessage     *)
(* will go to that stream's own ingress switch.                            *)
RoutesOwned ==
    \A v \in Versions : Issued(v) =>
        route[v].sid \in Streams /\ ce.IngressSwTable[v] = Ingress[route[v].sid]

(* The row of a stream: the pending version is its own and the later one.  *)
RowsOwned ==
    \A s \in Streams :
        /\ Row(ce, s).current # 0 => Issued(Row(ce, s).current)
        /\ Row(ce, s).next # 0 =>
              /\ Issued(Row(ce, s).next) /\ route[Row(ce, s).next].sid = s
              /\ Row(ce, s).current < Row(ce, s).next /\ Assigned(ce, s)

(* A version that waits for ACKs is the pending one of its stream.         *)
WaitingPending ==
    \A v \in Versions : Issued(v) /\ ce.AckWaitingPaths[v] # {} =>
        Row(ce, route[v].sid).next = v

RuleQueued(sw, v) == \E i \in DOMAIN toSwitch[sw] :
    toSwitch[sw][i].type = "FlowMod" /\ toSwitch[sw][i].entry.tag = v

(* A switch that has the rule before it, or whose ACK is on its way, is    *)
(* waited for; it never owes two ACKs for one version.                     *)
AcksOwed ==
    \A sw \in Switches, v \in Versions :
        /\ RuleQueued(sw, v) \/ Holds(toController[sw], Ack(v)) =>
               Issued(v) /\ sw \in ce.AckWaitingPaths[v]
        /\ ~ (RuleQueued(sw, v) /\ Holds(toController[sw], Ack(v)))
        /\ Once(toController[sw], Ack(v))

QueuesInOrder == \A sw \in Switches : InOrder(toSwitch[sw])

(* An ActivationMessage on its way carries an acknowledged version of its  *)
(* stream to the stream's ingress switch, where it is news.                *)
ActivationsOwned ==
    \A sw \in Switches, s \in Streams \cup {0}, v \in Versions :
        Holds(toSwitch[sw], Activation(s, v)) =>
            /\ Issued(v) /\ s \in Streams /\ route[v].sid = s /\ sw = Ingress[s]
            /\ ActiveVersion(s) < v /\ v <= Row(ce, s).current

(* A version in use is one the engine takes for activated.                 *)
ActiveOwned ==
    \A s \in Streams :
        /\ ActiveVersion(s) <= Row(ce, s).current
        /\ ActiveVersion(s) # 0 => Issued(ActiveVersion(s)) /\ route[ActiveVersion(s)].sid = s

Requests == TypeOK /\ NumberInRange /\ AdvertisedOnce /\ UnadvertisedIdle

(* The inductive invariant behind the order of the activations.  It needs  *)
(* tagging and an optimiser that moves no stream with a pending version,   *)
(* but neither unlimited tables nor rules that stay: an ACK is owed for a  *)
(* rule that a full table refuses, too.                                    *)
OrderInv ==
    /\ Requests
    /\ RoutesOwned
    /\ RowsOwned
    /\ WaitingPending
    /\ AcksOwed
    /\ QueuesInOrder
    /\ ActivationsOwned
    /\ ActiveOwned

LEMMA QueuedRule ==
    ASSUME NEW sw, NEW m, Holds(toSwitch[sw], m), m.type = "FlowMod"
    PROVE  RuleQueued(sw, m.entry.tag)
BY DEF Holds, RuleQueued

LEMMA RuleInQueue ==
    ASSUME NEW sw, NEW v
    PROVE  /\ RuleQueued(sw, v) <=>
                 \E m : Holds(toSwitch[sw], m) /\ m.type = "FlowMod" /\ m.entry.tag = v
           /\ RuleQueued(sw, v)' <=>
                 \E m : Holds(toSwitch'[sw], m) /\ m.type = "FlowMod" /\ m.entry.tag = v
BY DEF Holds, RuleQueued

(* The numbers of the state, for arithmetic.                               *)
LEMMA Numbers ==
    ASSUME TypeOK
    PROVE  /\ \A s \in Streams : /\ Row(ce, s).next \in Versions /\ Row(ce, s).current \in Versions
                                 /\ ActiveVersion(s) \in Versions
           /\ \A v \in Versions : /\ ce.AckWaitingPaths[v] \subseteq Switches
                                  /\ route[v].sid \in Streams \cup {0}
           /\ Versions \subseteq Nat
BY DEF TypeOK, EngineState, versionInfo, Row, ActiveVersion, Versions

(* The queues after a switch has taken its first message.                  *)
LEMMA ConsumeAtOrder ==
    ASSUME TypeOK, QueuesInOrder, NEW sw \in Switches, toSwitch[sw] # << >>, ConsumeAt(sw)
    PROVE  /\ QueuesInOrder'
           /\ \A m : Holds(toSwitch'[sw], m) => Follows(Head(toSwitch[sw]), m)
<1>1. /\ toSwitch \in [Switches -> Seq(ToSwitchMsg)]
      /\ toSwitch' = [toSwitch EXCEPT ![sw] = Tail(@)]
    BY DEF TypeOK, ConsumeAt
<1>2. /\ toSwitch'[sw] = Tail(toSwitch[sw]) /\ toSwitch[sw] \in Seq(ToSwitchMsg)
      /\ \A x \in Switches \ {sw} : toSwitch'[x] = toSwitch[x]
    BY <1>1
<1>3. /\ InOrder(Tail(toSwitch[sw]))
      /\ \A m : Holds(Tail(toSwitch[sw]), m) => Follows(Head(toSwitch[sw]), m)
  <2>1. InOrder(toSwitch[sw])
      BY DEF QueuesInOrder
  <2> QED BY <1>2, <2>1, InOrderTail
<1>4. ASSUME NEW x \in Switches PROVE InOrder(toSwitch'[x])
  <2>1. CASE x = sw
      BY <1>2, <1>3, <2>1
  <2>2. CASE x # sw
      BY <1>2, <2>2 DEF QueuesInOrder
  <2> QED BY <2>1, <2>2
<1>5. QueuesInOrder'
    BY <1>4 DEF QueuesInOrder, InOrder
<1> QED BY <1>2, <1>3, <1>5

-----------------------------------------------------------------------------
(* Steps that leave the engine and the versions in use alone, take at most *)
(* messages away from the switches and no ACK to the controller.           *)
Unmoved == UNCHANGED << ce, route >> /\ \A s \in Streams : ActiveVersion(s)' = ActiveVersion(s)

LEMMA OrderUnmoved ==
    ASSUME OrderInv, Unmoved,
           \A x \in Switches : \A m : Holds(toSwitch'[x], m) => Holds(toSwitch[x], m)
    PROVE  RoutesOwned' /\ RowsOwned' /\ WaitingPending' /\ ActivationsOwned' /\ ActiveOwned'
<1>1. RoutesOwned' /\ RowsOwned' /\ WaitingPending'
    BY DEF OrderInv, Unmoved, RoutesOwned, RowsOwned, WaitingPending, Issued, Row, Assigned
<1>2. ActivationsOwned'
  <2>1. SUFFICES ASSUME NEW x \in Switches, NEW s \in Streams \cup {0}, NEW v \in Versions,
                        Holds(toSwitch'[x], Activation(s, v))
                 PROVE  /\ Issued(v)' /\ s \in Streams /\ route'[v].sid = s /\ x = Ingress[s]
                        /\ ActiveVersion(s)' < v /\ v <= Row(ce', s).current
      BY DEF ActivationsOwned, Row, Activation
  <2>2. /\ Issued(v) /\ s \in Streams /\ route[v].sid = s /\ x = Ingress[s]
        /\ ActiveVersion(s) < v /\ v <= Row(ce, s).current
      BY <2>1 DEF OrderInv, ActivationsOwned
  <2> QED BY <2>2 DEF Unmoved, Issued
<1>3. ActiveOwned'
    BY DEF OrderInv, ActiveOwned, Unmoved, Issued, Row
<1> QED BY <1>1, <1>2, <1>3

LEMMA OrderQuiet ==
    ASSUME OrderInv, Requests', QueuesInOrder', Unmoved,
           \A x \in Switches : \A m : Holds(toSwitch'[x], m) => Holds(toSwitch[x], m),
           \A x \in Switches, v \in Versions :
               /\ Holds(toController'[x], Ack(v)) => Holds(toController[x], Ack(v))
               /\ Once(toController[x], Ack(v)) => Once(toController'[x], Ack(v))
    PROVE  OrderInv'
<1>1. AcksOwed'
  <2>1. SUFFICES ASSUME NEW x \in Switches, NEW v \in Versions
                 PROVE  /\ RuleQueued(x, v)' \/ Holds(toController'[x], Ack(v)) =>
                               Issued(v) /\ x \in ce.AckWaitingPaths[v]
                        /\ ~ (RuleQueued(x, v)' /\ Holds(toController'[x], Ack(v)))
                        /\ Once(toController'[x], Ack(v))
      BY DEF AcksOwed, Unmoved, Issued, Ack
  <2>2. RuleQueued(x, v)' => RuleQueued(x, v)
      BY RuleInQueue
  <2> QED BY <2>2 DEF OrderInv, AcksOwed
<1> QED BY <1>1, OrderUnmoved DEF OrderInv

(* The ingress switch takes a version into use.                            *)
LEMMA OrderActivation ==
    ASSUME OrderInv, Requests', NEW sw \in Switches, HandleActivation(sw)
    PROVE  /\ OrderInv'
           /\ \A s \in Streams : ActiveVersion(s)' >= ActiveVersion(s)
<1>0. PICK s \in Streams \cup {0}, v \in Versions :
          TypeOK /\ s = Head(toSwitch[sw]).sid /\ v = Head(toSwitch[sw]).version
    BY MessageTypes DEF HandleActivation, OrderInv, Requests
<1>1. /\ toSwitch[sw] # << >> /\ ConsumeAt(sw) /\ Head(toSwitch[sw]) = Activation(s, v)
      /\ StreamActiveMatchVersionMap' =
             [StreamActiveMatchVersionMap EXCEPT
                 ![sw] = [t \in Streams |-> IF t = s THEN v ELSE @[t]]]
      /\ UNCHANGED << ce, toController, route >>
    BY <1>0, HeadIs DEF HandleActivation, handleMatchVersionMessage, NextAt
<1>2. StreamActiveMatchVersionMap \in [Switches -> [Streams -> Versions]]
    BY <1>0 DEF TypeOK
<1>3. /\ \A x \in Switches : \A k : Holds(toSwitch'[x], k) => Holds(toSwitch[x], k)
      /\ Holds(toSwitch[sw], Activation(s, v))
      /\ QueuesInOrder'
      /\ \A k : Holds(toSwitch'[sw], k) => Follows(Activation(s, v), k)
    BY <1>0, <1>1, ConsumeAtFacts, ConsumeAtOrder DEF OrderInv
<1>4. /\ s \in Streams /\ v \in Versions /\ Issued(v) /\ route[v].sid = s /\ sw = Ingress[s]
      /\ ActiveVersion(s) < v /\ v <= Row(ce, s).current
    BY <1>1, <1>3 DEF OrderInv, ActivationsOwned
<1>5. /\ ActiveVersion(s)' = v
      /\ \A t \in Streams \ {s} : ActiveVersion(t)' = ActiveVersion(t)
    BY <1>1, <1>2, <1>4 DEF ActiveVersion
<1>6. RoutesOwned' /\ RowsOwned' /\ WaitingPending'
    BY <1>1 DEF OrderInv, RoutesOwned, RowsOwned, WaitingPending, Issued, Row, Assigned
<1>7. AcksOwed'
  <2>1. SUFFICES ASSUME NEW x \in Switches, NEW w \in Versions
                 PROVE  /\ RuleQueued(x, w)' \/ Holds(toController[x], Ack(w)) =>
                               Issued(w) /\ x \in ce.AckWaitingPaths[w]
                        /\ ~ (RuleQueued(x, w)' /\ Holds(toController[x], Ack(w)))
                        /\ Once(toController[x], Ack(w))
      BY <1>1 DEF AcksOwed, Issued, Ack
  <2>2. RuleQueued(x, w)' => RuleQueued(x, w)
      BY <1>3, RuleInQueue
  <2> QED BY <2>2 DEF OrderInv, AcksOwed
<1>8. ActivationsOwned'
  <2>1. SUFFICES ASSUME NEW x \in Switches, NEW t \in Streams \cup {0}, NEW w \in Versions,
                        Holds(toSwitch'[x], Activation(t, w))
                 PROVE  /\ Issued(w)' /\ t \in Streams /\ route'[w].sid = t /\ x = Ingress[t]
                        /\ ActiveVersion(t)' < w /\ w <= Row(ce', t).current
      BY DEF ActivationsOwned, Row, Activation
  <2>2. /\ Issued(w) /\ t \in Streams /\ route[w].sid = t /\ x = Ingress[t]
        /\ ActiveVersion(t) < w /\ w <= Row(ce, t).current
      BY <1>3, <2>1 DEF OrderInv, ActivationsOwned
  <2>3. ASSUME t = s PROVE v < w
    <3>1. Follows(Activation(s, v), Activation(s, w))
        BY <1>3, <1>4, <2>1, <2>2, <2>3
    <3> QED BY <3>1 DEF Follows, Activation
  <2> QED BY <1>1, <1>5, <2>2, <2>3 DEF Issued
<1>9. ActiveOwned'
    BY <1>1, <1>4, <1>5 DEF OrderInv, ActiveOwned, Issued, Row
<1>10. \A t \in Streams : ActiveVersion(t)' >= ActiveVersion(t)
  <2>1. v \in Nat /\ \A t \in Streams : ActiveVersion(t) \in Nat
      BY <1>0, Numbers
  <2> QED BY <1>4, <1>5, <2>1
<1> QED BY <1>3, <1>6, <1>7, <1>8, <1>9, <1>10 DEF OrderInv

(* A switch answers a rule: the ACK takes the place of the rule, the last  *)
(* of its version in the queue.                                            *)
LEMMA OrderFlowMod ==
    ASSUME Orderly, OrderInv, Requests', NEW sw \in Switches, HandleFlowMod(sw)
    PROVE  OrderInv' /\ Unmoved
<1>0. PICK n \in Versions : TypeOK /\ n = Head(toSwitch[sw]).entry.tag
    BY MessageTypes DEF HandleFlowMod, OrderInv, Requests, Entry
<1>1. /\ toSwitch[sw] # << >> /\ ConsumeAt(sw) /\ Head(toSwitch[sw]).type = "FlowMod"
      /\ toController' = [toController EXCEPT ![sw] = Append(@, Ack(n))]
      /\ UNCHANGED << ce, StreamActiveMatchVersionMap, route >>
    BY <1>0 DEF HandleFlowMod, handleFlowMod, NextAt, Orderly
<1>2. Unmoved
    BY <1>1 DEF Unmoved, ActiveVersion
<1>3. /\ \A x \in Switches : \A k : Holds(toSwitch'[x], k) => Holds(toSwitch[x], k)
      /\ Holds(toSwitch[sw], Head(toSwitch[sw]))
      /\ QueuesInOrder'
      /\ \A k : Holds(toSwitch'[sw], k) => Follows(Head(toSwitch[sw]), k)
    BY <1>0, <1>1, ConsumeAtFacts, ConsumeAtOrder DEF OrderInv
<1>4. /\ \A x \in Switches, v \in Versions : RuleQueued(x, v)' => RuleQueued(x, v)
      /\ ~ RuleQueued(sw, n)' /\ RuleQueued(sw, n)
  <2>1. \A k : Holds(toSwitch'[sw], k) /\ k.type = "FlowMod" => k.entry.tag # n
      BY <1>0, <1>1, <1>3 DEF Follows
  <2> QED BY <1>0, <1>1, <1>3, <2>1, RuleInQueue, SMTT(30)
<1>5. /\ Issued(n) /\ sw \in ce.AckWaitingPaths[n] /\ ~ Holds(toController[sw], Ack(n))
    BY <1>4 DEF OrderInv, AcksOwed
<1>6. /\ \A x \in Switches \ {sw} : toController'[x] = toController[x]
      /\ toController'[sw] = Append(toController[sw], Ack(n))
      /\ toController[sw] \in Seq(ToControllerMsg) /\ Ack(n) \in ToControllerMsg
    BY <1>0, <1>1 DEF TypeOK, Ack, ToControllerMsg
<1>7. \A k : /\ Holds(toController'[sw], k) <=> Holds(toController[sw], k) \/ k = Ack(n)
             /\ Once(toController[sw], k) /\ (k = Ack(n) => ~ Holds(toController[sw], k)) =>
                    Once(toController'[sw], k)
    BY <1>6, HoldsAppend, OnceAppend
<1>8. AcksOwed'
  <2>1. SUFFICES ASSUME NEW x \in Switches, NEW v \in Versions
                 PROVE  /\ RuleQueued(x, v)' \/ Holds(toController'[x], Ack(v)) =>
                               Issued(v) /\ x \in ce.AckWaitingPaths[v]
                        /\ ~ (RuleQueued(x, v)' /\ Holds(toController'[x], Ack(v)))
                        /\ Once(toController'[x], Ack(v))
      BY <1>1 DEF AcksOwed, Issued, Ack
  <2>2. /\ RuleQueued(x, v) \/ Holds(toController[x], Ack(v)) =>
               Issued(v) /\ x \in ce.AckWaitingPaths[v]
        /\ ~ (RuleQueued(x, v) /\ Holds(toController[x], Ack(v)))
        /\ Once(toController[x], Ack(v))
      BY DEF OrderInv, AcksOwed
  <2>3. CASE x # sw
      BY <1>4, <1>6, <2>2, <2>3
  <2>4. CASE x = sw /\ v = n
      BY <1>4, <1>5, <1>7, <2>2, <2>4
  <2>5. CASE x = sw /\ v # n
    <3>1. Ack(v) # Ack(n)
        BY <2>5, MessagesDiffer
    <3> QED BY <1>4, <1>7, <2>2, <2>5, <3>1
  <2> QED BY <2>3, <2>4, <2>5
<1>9. RoutesOwned' /\ RowsOwned' /\ WaitingPending' /\ ActivationsOwned' /\ ActiveOwned'
    BY <1>2, <1>3, OrderUnmoved
<1> QED BY <1>2, <1>3, <1>8, <1>9 DEF OrderInv

(* A talker is accepted, with or without a move of another stream.         *)
LEMMA OrderAccept ==
    ASSUME OrderInv, NEW sw \in Switches, NEW s \in Streams, NEW k \in Nat,
           Accepted(sw, s, k), Requests'
    PROVE  /\ OrderInv'
           /\ \A t \in Streams : ActiveVersion(t)' = ActiveVersion(t)
<1> DEFINE n == ce.OF_match_version_number
<1>0. /\ TypeOK /\ n \in 1 .. VersionSpace - 1 /\ k >= 1 /\ n + k < VersionSpace
      /\ ce'.OF_match_version_number = n + k
      /\ toController[sw] # << >> /\ ConsumeFrom(sw)
      /\ \A t \in Streams : ActiveVersion(t)' = ActiveVersion(t)
    BY DEF OrderInv, Requests, NumberInRange, Accepted, switchVars, ActiveVersion
<1>1. /\ \A v \in Versions : Issued(v) => Issued(v)'
      /\ \A v : Issued(v) => v \in Versions \ {0}
      /\ \A v, w : Issued(v) /\ Fresh(w) => v < w
      /\ \A v : Fresh(v) => v \in Versions \ {0} /\ ~ Issued(v) /\ Issued(v)'
      /\ \A v : Issued(v)' => Issued(v) \/ Fresh(v)
    BY <1>0 DEF Issued, Fresh, Versions
<1>2. \A v \in Versions : Issued(v) =>
          /\ ce'.AckWaitingPaths[v] = ce.AckWaitingPaths[v]
          /\ ce'.IngressSwTable[v] = ce.IngressSwTable[v]
          /\ route'[v] = route[v]
    BY DEF Accepted
<1>3. \A v \in Versions : Fresh(v) =>
          /\ route'[v].sid \in Streams /\ Row(ce', route'[v].sid).next = v
          /\ ce'.AckWaitingPaths[v] = SwitchesOn(route'[v].path)
          /\ ce'.IngressSwTable[v] = Ingress[route'[v].sid]
    BY DEF Accepted
<1>4. \A u \in Streams :
          /\ Row(ce', u).current = Row(ce, u).current
          /\ \/ Row(ce', u) = Row(ce, u) /\ ce'.prevAssignments[u] = ce.prevAssignments[u]
             \/ /\ Row(ce, u).next = 0 /\ Assigned(ce', u)
                /\ Fresh(Row(ce', u).next) /\ route'[Row(ce', u).next].sid = u
    BY DEF Accepted, Pending, Row
<1>5. \A x \in Switches : \A m : Holds(toSwitch'[x], m) =>
          \/ Holds(toSwitch[x], m)
          \/ m.type = "ListenerReady"
          \/ /\ m.type = "FlowMod" /\ Fresh(m.entry.tag)
             /\ x \in SwitchesOn(route'[m.entry.tag].path)
  <2>1. \A x \in Switches : \A m : Holds(toSwitch'[x], m) =>
            \/ Holds(toSwitch[x], m)
            \/ m = ListenerReady(s)
            \/ /\ m.type = "FlowMod" /\ Fresh(m.entry.tag)
               /\ x \in SwitchesOn(route'[m.entry.tag].path)
      BY DEF Accepted
  <2> QED BY <2>1 DEF ListenerReady
<1>6. RoutesOwned'
  <2>1. SUFFICES ASSUME NEW v \in Versions, Issued(v)'
                 PROVE  /\ route'[v].sid \in Streams
                        /\ ce'.IngressSwTable[v] = Ingress[route'[v].sid]
      BY DEF RoutesOwned
  <2>2. CASE Issued(v)
      BY <1>2, <2>2 DEF OrderInv, RoutesOwned
  <2>3. CASE ~ Issued(v)
      BY <1>1, <1>3, <2>1, <2>3
  <2> QED BY <2>2, <2>3
<1>7. RowsOwned'
  <2>1. SUFFICES ASSUME NEW u \in Streams
                 PROVE  /\ Row(ce', u).current # 0 => Row(ce', u).current \in 1 .. n + k - 1
                        /\ Row(ce', u).next # 0 =>
                              /\ Row(ce', u).next \in 1 .. n + k - 1
                              /\ route'[Row(ce', u).next].sid = u
                              /\ Row(ce', u).current < Row(ce', u).next /\ Assigned(ce', u)
      BY <1>0 DEF RowsOwned, Issued, Row, Assigned
  <2>2. /\ Row(ce, u).current # 0 => Issued(Row(ce, u).current)
        /\ Row(ce, u).next # 0 =>
              /\ Issued(Row(ce, u).next) /\ route[Row(ce, u).next].sid = u
              /\ Row(ce, u).current < Row(ce, u).next /\ Assigned(ce, u)
      BY DEF OrderInv, RowsOwned
  <2>3. Row(ce', u).current # 0 => Row(ce', u).current \in 1 .. n + k - 1
      BY <1>0, <1>4, <2>2 DEF Issued
  <2>4. CASE Row(ce', u) = Row(ce, u) /\ ce'.prevAssignments[u] = ce.prevAssignments[u]
      BY <1>0, <1>1, <1>2, <2>2, <2>3, <2>4 DEF Assigned, Issued
  <2>5. CASE /\ Row(ce, u).next = 0 /\ Assigned(ce', u)
             /\ Fresh(Row(ce', u).next) /\ route'[Row(ce', u).next].sid = u
    <3>1. Row(ce', u).next \in 1 .. n + k - 1
        BY <1>0, <2>5 DEF Fresh
    <3>2. Row(ce', u).current < Row(ce', u).next
        BY <1>1, <1>4, <2>2, <2>5 DEF Versions
    <3> QED BY <2>3, <2>5, <3>1, <3>2
  <2> QED BY <1>4, <2>4, <2>5
<1>8. WaitingPending'
  <2>1. SUFFICES ASSUME NEW v \in Versions, Issued(v)', ce'.AckWaitingPaths[v] # {}
                 PROVE  Row(ce', route'[v].sid).next = v
      BY DEF WaitingPending, Row
  <2>2. CASE Issued(v)
    <3>1. /\ route'[v] = route[v] /\ route[v].sid \in Streams
          /\ Row(ce, route[v].sid).next = v /\ v # 0
        BY <1>1, <1>2, <2>1, <2>2 DEF OrderInv, WaitingPending, RoutesOwned
    <3> QED BY <1>4, <3>1
  <2>3. CASE ~ Issued(v)
      BY <1>1, <1>3, <2>1, <2>3
  <2> QED BY <2>2, <2>3
<1>9. AcksOwed'
  <2>1. SUFFICES ASSUME NEW x \in Switches, NEW v \in Versions
                 PROVE  /\ RuleQueued(x, v)' \/ Holds(toController'[x], Ack(v)) =>
                               Issued(v)' /\ x \in ce'.AckWaitingPaths[v]
                        /\ ~ (RuleQueued(x, v)' /\ Holds(toController'[x], Ack(v)))
                        /\ Once(toController'[x], Ack(v))
      BY DEF AcksOwed, Ack
  <2>2. /\ RuleQueued(x, v) \/ Holds(toController[x], Ack(v)) =>
               Issued(v) /\ x \in ce.AckWaitingPaths[v]
        /\ ~ (RuleQueued(x, v) /\ Holds(toController[x], Ack(v)))
        /\ Once(toController[x], Ack(v))
      BY DEF OrderInv, AcksOwed
  <2>3. /\ Holds(toController'[x], Ack(v)) => Holds(toController[x], Ack(v))
        /\ Once(toController'[x], Ack(v))
      BY <1>0, <2>2, ConsumeFromFacts
  <2>4. RuleQueued(x, v)' =>
            RuleQueued(x, v) \/ (Fresh(v) /\ x \in SwitchesOn(route'[v].path))
      BY <1>5, RuleInQueue
  <2> QED BY <1>1, <1>2, <1>3, <2>2, <2>3, <2>4
<1>10. QueuesInOrder'
  <2>1. SUFFICES ASSUME NEW x \in Switches PROVE InOrder(toSwitch'[x])
      BY DEF QueuesInOrder, InOrder
  <2>2. \A m : Holds(toSwitch[x], m) /\ m.type = "FlowMod" => Issued(m.entry.tag)
    <3>1. SUFFICES ASSUME NEW m, Holds(toSwitch[x], m), m.type = "FlowMod"
                   PROVE  Issued(m.entry.tag)
        OBVIOUS
    <3>2. RuleQueued(x, m.entry.tag)
        BY <3>1, QueuedRule
    <3>3. m.entry.tag \in Versions
      <4>1. toSwitch[x] \in Seq(ToSwitchMsg)
          BY <1>0 DEF TypeOK
      <4>2. m \in ToSwitchMsg
          BY <3>1, <4>1 DEF Holds
      <4> QED BY <3>1, <4>2 DEF ToSwitchMsg, Entry
    <3> QED BY <3>2, <3>3 DEF OrderInv, AcksOwed
  <2>3. InOrder(toSwitch[x])
      BY DEF OrderInv, QueuesInOrder
  <2> QED BY <2>2, <2>3 DEF Accepted
<1>11. ActivationsOwned'
  <2>1. SUFFICES ASSUME NEW x \in Switches, NEW t \in Streams \cup {0}, NEW v \in Versions,
                        Holds(toSwitch'[x], Activation(t, v))
                 PROVE  /\ Issued(v)' /\ t \in Streams /\ route'[v].sid = t /\ x = Ingress[t]
                        /\ ActiveVersion(t)' < v /\ v <= Row(ce', t).current
      BY DEF ActivationsOwned, Row, Activation
  <2>2. Holds(toSwitch[x], Activation(t, v))
      BY <1>5, <2>1 DEF Activation
  <2>3. /\ Issued(v) /\ t \in Streams /\ route[v].sid = t /\ x = Ingress[t]
        /\ ActiveVersion(t) < v /\ v <= Row(ce, t).current
      BY <2>2 DEF OrderInv, ActivationsOwned
  <2> QED BY <1>0, <1>1, <1>2, <1>4, <2>3
<1>12. ActiveOwned'
  <2>1. SUFFICES ASSUME NEW t \in Streams
                 PROVE  /\ ActiveVersion(t)' <= Row(ce', t).current
                        /\ ActiveVersion(t)' # 0 =>
                              Issued(ActiveVersion(t))' /\ route'[ActiveVersion(t)'].sid = t
      BY DEF ActiveOwned, Row
  <2>2. /\ ActiveVersion(t) <= Row(ce, t).current
        /\ ActiveVersion(t) # 0 => Issued(ActiveVersion(t)) /\ route[ActiveVersion(t)].sid = t
      BY DEF OrderInv, ActiveOwned
  <2> QED BY <1>0, <1>1, <1>2, <1>4, <2>2 DEF Issued
<1> QED BY <1>0, <1>6, <1>7, <1>8, <1>9, <1>10, <1>11, <1>12 DEF OrderInv

(* The rows and the waiting paths after an ACK of sw for v, the pending    *)
(* version of stream s and of no other.                                    *)
LEMMA AckOfPending ==
    ASSUME NEW e \in EngineState, NEW v \in Versions, NEW sw \in Switches, NEW s \in Streams,
           WaitingFor(e, v) = {s}, NEW f, f = receiveAck(e, v, sw)
    PROVE  /\ f.IngressSwTable = e.IngressSwTable
           /\ ActivatedStreams(e, v) = {s}
           /\ \A t \in Streams \ {s} : Row(f, t) = Row(e, t)
           /\ e.AckWaitingPaths[v] \ {sw} # {} => Row(f, s) = Row(e, s)
           /\ e.AckWaitingPaths[v] \ {sw} = {} => Row(f, s).next = 0 /\ Row(f, s).current = v
<1>1. FirstWaitingFor(e, v) = s
    BY FirstWaiting
<1>2. ActivatedStreams(e, v) = {s}
    BY <1>1 DEF ActivatedStreams
<1>3. CASE StillWaiting(e, v, sw) # {}
  <2>1. f = [e EXCEPT !.AckWaitingPaths[v] = StillWaiting(e, v, sw)]
      BY <1>3 DEF receiveAck
  <2>2. f.IngressSwTable = e.IngressSwTable /\ f.StreamFlowVersionTable = e.StreamFlowVersionTable
      BY <2>1 DEF EngineState
  <2> QED BY <1>2, <1>3, <2>2 DEF StillWaiting, Row
<1>4. CASE StillWaiting(e, v, sw) = {}
  <2> DEFINE g == activateMatchVersion(e, v)
             row == [next |-> 0, current |-> v]
  <2>1. g = [e EXCEPT !.StreamFlowVersionTable[s] = row]
      BY <1>1 DEF activateMatchVersion
  <2>2. f = [g EXCEPT !.AckWaitingPaths[v] = {}]
      BY <1>4 DEF receiveAck
  <2> HIDE DEF g
  <2>3. f.IngressSwTable = e.IngressSwTable
        /\ f.StreamFlowVersionTable = [e.StreamFlowVersionTable EXCEPT ![s] = row]
      BY <2>1, <2>2 DEF EngineState
  <2>4. e.StreamFlowVersionTable \in [Streams -> versionInfo] /\ row.next = 0 /\ row.current = v
      BY DEF EngineState
  <2> HIDE DEF row
  <2> QED BY <1>2, <1>4, <2>3, <2>4 DEF StillWaiting, Row
<1> QED BY <1>3, <1>4

(* An ACK for the pending version v of stream s: either the engine goes on *)
(* waiting, or v is the stream's current version and its ActivationMessage *)
(* is sent.                                                                *)
AckCounted(s, v) ==
    /\ Row(ce, s).next = v /\ v # 0 /\ UNCHANGED << route, StreamActiveMatchVersionMap >>
    /\ ce'.OF_match_version_number = ce.OF_match_version_number
    /\ \A t \in Streams \ {s} : Row(ce', t) = Row(ce, t)
    /\ \/ Row(ce', s) = Row(ce, s)
       \/ Row(ce', s).current = v /\ Holds(toSwitch'[Ingress[s]], Activation(s, v))
    /\ \A x \in Switches : \A m : Holds(toSwitch[x], m) => Holds(toSwitch'[x], m)

(* The engine receives an ACK; the last one activates the version.         *)
LEMMA OrderAck ==
    ASSUME OrderInv, Requests', NEW sw \in Switches, ReceiveAck(sw)
    PROVE  /\ OrderInv'
           /\ \A t \in Streams : ActiveVersion(t)' = ActiveVersion(t)
           /\ \E s \in Streams, v \in Versions : AckCounted(s, v)
<1>0. PICK v \in Versions : v = Head(toController[sw]).version
    BY MessageTypes DEF ReceiveAck, OrderInv, Requests
<1>1. /\ TypeOK /\ ce \in EngineState /\ toController[sw] # << >>
      /\ Head(toController[sw]) = Ack(v)
      /\ ce' = receiveAck(ce, v, sw)
      /\ ConsumeFrom(sw) /\ UNCHANGED << StreamActiveMatchVersionMap, route >>
    BY <1>0, HeadIs DEF ReceiveAck, OrderInv, Requests, TypeOK, NextFrom, switchVars
<1>2. /\ Holds(toController[sw], Ack(v)) /\ ~ Holds(toController'[sw], Ack(v))
      /\ \A x \in Switches, w \in Versions :
            /\ Holds(toController'[x], Ack(w)) => Holds(toController[x], Ack(w))
            /\ Once(toController[x], Ack(w)) => Once(toController'[x], Ack(w))
  <2>1. Holds(toController[sw], Ack(v)) /\ Once(toController[sw], Ack(v))
      BY <1>1, ConsumeFromFacts DEF OrderInv, AcksOwed
  <2> QED BY <1>1, <2>1, ConsumeFromFacts
<1>3. Issued(v) /\ sw \in ce.AckWaitingPaths[v] /\ ~ RuleQueued(sw, v) /\ v # 0
    BY <1>2 DEF OrderInv, AcksOwed, Issued
<1>4. PICK s \in Streams : s = route[v].sid
    BY <1>3 DEF OrderInv, RoutesOwned
<1>5. /\ Row(ce, s).next = v /\ Assigned(ce, s) /\ Row(ce, s).current < v
      /\ ce.IngressSwTable[v] = Ingress[s]
      /\ \A t \in Streams : Row(ce, t).next = v => t = s
    BY <1>3, <1>4 DEF OrderInv, RoutesOwned, WaitingPending, RowsOwned
<1>6. WaitingFor(ce, v) = {s}
    BY <1>5 DEF WaitingFor, Row
<1>7. /\ ce'.OF_match_version_number = ce.OF_match_version_number
      /\ ce'.prevAssignments = ce.prevAssignments
      /\ ce'.AckWaitingPaths[v] = ce.AckWaitingPaths[v] \ {sw}
      /\ \A w \in Versions \ {v} : ce'.AckWaitingPaths[w] = ce.AckWaitingPaths[w]
  <2>1. ce'.AckWaitingPaths = [ce.AckWaitingPaths EXCEPT ![v] = @ \ {sw}]
        /\ ce.AckWaitingPaths \in [Versions -> SUBSET Switches]
      BY <1>1, ReceiveAckFacts DEF EngineState
  <2> QED BY <1>1, <2>1, ReceiveAckFacts
<1>8. /\ ce'.IngressSwTable = ce.IngressSwTable
      /\ ActivatedStreams(ce, v) = {s}
      /\ \A t \in Streams \ {s} : Row(ce', t) = Row(ce, t)
      /\ ce'.AckWaitingPaths[v] # {} => Row(ce', s) = Row(ce, s)
      /\ ce'.AckWaitingPaths[v] = {} => Row(ce', s).next = 0 /\ Row(ce', s).current = v
    BY <1>1, <1>6, <1>7, AckOfPending
<1>9. /\ \A w : Issued(w)' <=> Issued(w)
      /\ \A t : Assigned(ce', t) <=> Assigned(ce, t)
      /\ \A t \in Streams : ActiveVersion(t)' = ActiveVersion(t)
    BY <1>1, <1>7 DEF Issued, Assigned, ActiveVersion
<1>10. \A t \in Streams :
          /\ Row(ce, t).current <= Row(ce', t).current
          /\ Row(ce', t).next = Row(ce, t).next \/ Row(ce', t).next = 0
          /\ Row(ce', t).current = Row(ce, t).current \/ Row(ce', t).current = v
          /\ Row(ce', t).next # 0 => Row(ce', t).current = Row(ce, t).current
  <2>1. \A t \in Streams : Row(ce, t).current \in Nat /\ v \in Nat
      BY <1>1, Numbers
  <2> QED BY <1>5, <1>8, <2>1
<1>11. RoutesOwned'
    BY <1>1, <1>8, <1>9 DEF OrderInv, RoutesOwned
<1>12. RowsOwned'
  <2>1. SUFFICES ASSUME NEW t \in Streams
                 PROVE  /\ Row(ce', t).current # 0 => Issued(Row(ce, t).current)'
                        /\ Row(ce', t).next # 0 =>
                              /\ Issued(Row(ce, t).next)' /\ route'[Row(ce', t).next].sid = t
                              /\ Row(ce', t).current < Row(ce', t).next /\ Assigned(ce', t)
      BY DEF RowsOwned, Row, Assigned
  <2>2. /\ Row(ce, t).current # 0 => Issued(Row(ce, t).current)
        /\ Row(ce, t).next # 0 =>
              /\ Issued(Row(ce, t).next) /\ route[Row(ce, t).next].sid = t
              /\ Row(ce, t).current < Row(ce, t).next /\ Assigned(ce, t)
      BY DEF OrderInv, RowsOwned
  <2> QED BY <1>1, <1>3, <1>7, <1>9, <1>10, <2>2 DEF Issued
<1>13. WaitingPending'
  <2>1. SUFFICES ASSUME NEW w \in Versions, Issued(w), ce'.AckWaitingPaths[w] # {}
                 PROVE  Row(ce', route[w].sid).next = w
      BY <1>1, <1>9 DEF WaitingPending, Row
  <2>2. ce.AckWaitingPaths[w] # {} /\ (w = v => ce'.AckWaitingPaths[v] # {})
      BY <1>7, <2>1
  <2>3. route[w].sid \in Streams /\ Row(ce, route[w].sid).next = w
      BY <2>1, <2>2 DEF OrderInv, RoutesOwned, WaitingPending
  <2>4. CASE route[w].sid = s
      BY <1>5, <1>8, <2>2, <2>3, <2>4
  <2>5. CASE route[w].sid # s
      BY <1>8, <2>3, <2>5
  <2> QED BY <2>4, <2>5
<1>14. \A x \in Switches : \/ toSwitch'[x] = toSwitch[x]
                           \/ /\ x = Ingress[s] /\ ce'.AckWaitingPaths[v] = {}
                              /\ toSwitch'[x] = Append(toSwitch[x], Activation(s, v))
  <2>1. CASE StillWaiting(ce, v, sw) # {}
      BY <1>0, <2>1 DEF ReceiveAck
  <2>2. CASE StillWaiting(ce, v, sw) = {}
    <3>1. toSwitch' = [toSwitch EXCEPT ![Ingress[s]] = Append(@, Activation(s, v))]
        BY <1>0, <1>5, <1>8, <2>2 DEF ReceiveAck
    <3>2. toSwitch \in [Switches -> Seq(ToSwitchMsg)] /\ Ingress[s] \in Switches
        BY <1>1 DEF TypeOK
    <3> QED BY <1>7, <2>2, <3>1, <3>2 DEF StillWaiting
  <2> QED BY <2>1, <2>2
<1>15. /\ Activation(s, v) \in ToSwitchMsg
       /\ \A x \in Switches : toSwitch[x] \in Seq(ToSwitchMsg)
    BY <1>1 DEF Activation, ToSwitchMsg, TypeOK
<1>16. \A x \in Switches : \A m : Holds(toSwitch'[x], m) =>
          \/ Holds(toSwitch[x], m)
          \/ x = Ingress[s] /\ ce'.AckWaitingPaths[v] = {} /\ m = Activation(s, v)
  <2>1. \A x \in Switches : \A m : Holds(Append(toSwitch[x], Activation(s, v)), m) =>
            Holds(toSwitch[x], m) \/ m = Activation(s, v)
      BY <1>15, HoldsAppend
  <2> QED BY <1>14, <2>1
<1>17. AcksOwed'
  <2>1. SUFFICES ASSUME NEW x \in Switches, NEW w \in Versions
                 PROVE  /\ RuleQueued(x, w)' \/ Holds(toController'[x], Ack(w)) =>
                               Issued(w) /\ x \in ce'.AckWaitingPaths[w]
                        /\ ~ (RuleQueued(x, w)' /\ Holds(toController'[x], Ack(w)))
                        /\ Once(toController'[x], Ack(w))
      BY <1>9 DEF AcksOwed, Ack
  <2>2. /\ RuleQueued(x, w) \/ Holds(toController[x], Ack(w)) =>
               Issued(w) /\ x \in ce.AckWaitingPaths[w]
        /\ ~ (RuleQueued(x, w) /\ Holds(toController[x], Ack(w)))
        /\ Once(toController[x], Ack(w))
      BY DEF OrderInv, AcksOwed
  <2>3. RuleQueued(x, w)' => RuleQueued(x, w)
      BY <1>16, RuleInQueue, MessagesDiffer
  <2>4. CASE x = sw /\ w = v
      BY <1>2, <1>3, <2>2, <2>3, <2>4
  <2>5. CASE x # sw \/ w # v
      BY <1>2, <1>7, <2>2, <2>3, <2>5
  <2> QED BY <2>4, <2>5
<1>18. \A w \in Versions, x \in Switches : Holds(toSwitch[x], Activation(s, w)) =>
          w \in Nat /\ w < v
  <2>1. SUFFICES ASSUME NEW w \in Versions, NEW x \in Switches,
                        Holds(toSwitch[x], Activation(s, w))
                 PROVE  w \in Nat /\ w < v
      OBVIOUS
  <2>2. w <= Row(ce, s).current
      BY <2>1 DEF OrderInv, ActivationsOwned
  <2>3. w \in Nat /\ v \in Nat /\ Row(ce, s).current \in Nat
      BY <1>1, Numbers
  <2> QED BY <1>5, <2>2, <2>3
<1>19. QueuesInOrder'
  <2>1. SUFFICES ASSUME NEW x \in Switches PROVE InOrder(toSwitch'[x])
      BY DEF QueuesInOrder, InOrder
  <2>2. InOrder(toSwitch[x])
      BY DEF OrderInv, QueuesInOrder
  <2>3. ASSUME NEW m, Holds(toSwitch[x], m) PROVE Follows(m, Activation(s, v))
    <3>1. m \in ToSwitchMsg
        BY <1>15, <2>3 DEF Holds
    <3>2. ASSUME m.type = "ActivationMessage", m.sid = s PROVE m.version < v
      <4>1. m = Activation(s, m.version) /\ m.version \in Versions
          BY <3>1, <3>2 DEF ToSwitchMsg, Activation
      <4> QED BY <1>18, <2>3, <4>1
    <3> QED BY <3>2 DEF Follows, Activation
  <2>4. InOrder(Append(toSwitch[x], Activation(s, v)))
      BY <1>15, <2>2, <2>3, InOrderAppend
  <2> QED BY <1>14, <2>2, <2>4
<1>20. ActivationsOwned'
  <2>1. SUFFICES ASSUME NEW x \in Switches, NEW t \in Streams \cup {0}, NEW w \in Versions,
                        Holds(toSwitch'[x], Activation(t, w))
                 PROVE  /\ Issued(w)' /\ t \in Streams /\ route'[w].sid = t /\ x = Ingress[t]
                        /\ ActiveVersion(t)' < w /\ w <= Row(ce', t).current
      BY DEF ActivationsOwned, Row, Activation
  <2>2. CASE Holds(toSwitch[x], Activation(t, w))
    <3>1. /\ Issued(w) /\ t \in Streams /\ route[w].sid = t /\ x = Ingress[t]
          /\ ActiveVersion(t) < w /\ w <= Row(ce, t).current
        BY <2>2 DEF OrderInv, ActivationsOwned
    <3>2. w \in Nat /\ Row(ce, t).current \in Nat /\ v \in Nat
        BY <1>1, <3>1, Numbers
    <3>3. w <= Row(ce', t).current
        BY <1>5, <1>10, <3>1, <3>2
    <3> QED BY <1>1, <1>9, <3>1, <3>3
  <2>3. CASE x = Ingress[s] /\ ce'.AckWaitingPaths[v] = {} /\ t = s /\ w = v
    <3>1. ActiveVersion(s) <= Row(ce, s).current
        BY DEF OrderInv, ActiveOwned
    <3>2. ActiveVersion(s) \in Nat /\ Row(ce, s).current \in Nat /\ v \in Nat
        BY <1>1, Numbers
    <3> QED BY <1>1, <1>3, <1>4, <1>5, <1>8, <1>9, <2>3, <3>1, <3>2
  <2> QED BY <1>16, <2>1, <2>2, <2>3, MessagesDiffer
<1>21. ActiveOwned'
  <2>1. SUFFICES ASSUME NEW t \in Streams
                 PROVE  /\ ActiveVersion(t)' <= Row(ce', t).current
                        /\ ActiveVersion(t)' # 0 =>
                              Issued(ActiveVersion(t))' /\ route'[ActiveVersion(t)'].sid = t
      BY DEF ActiveOwned, Row
  <2>2. /\ ActiveVersion(t) <= Row(ce, t).current
        /\ ActiveVersion(t) # 0 => Issued(ActiveVersion(t)) /\ route[ActiveVersion(t)].sid = t
      BY DEF OrderInv, ActiveOwned
  <2>3. ActiveVersion(t) \in Nat /\ Row(ce, t).current \in Nat /\ v \in Nat
      BY <1>1, Numbers
  <2>4. Row(ce', t).current \in Nat
      BY <1>10, <2>3
  <2> QED BY <1>1, <1>7, <1>9, <1>10, <2>2, <2>3, <2>4 DEF Issued
<1>22. AckCounted(s, v)
  <2>1. \A x \in Switches : \A m :
            /\ Holds(toSwitch[x], m) => Holds(Append(toSwitch[x], Activation(s, v)), m)
            /\ Holds(Append(toSwitch[x], Activation(s, v)), Activation(s, v))
      BY <1>15, HoldsAppend
  <2>2. CASE ce'.AckWaitingPaths[v] # {}
    <3>1. \A x \in Switches : toSwitch'[x] = toSwitch[x]
        BY <1>14, <2>2
    <3> QED BY <1>1, <1>3, <1>5, <1>7, <1>8, <2>2, <3>1 DEF AckCounted
  <2>3. CASE ce'.AckWaitingPaths[v] = {}
    <3>1. toSwitch' = [toSwitch EXCEPT ![Ingress[s]] = Append(@, Activation(s, v))]
        BY <1>0, <1>5, <1>7, <1>8, <2>3 DEF ReceiveAck, StillWaiting
    <3>2. toSwitch \in [Switches -> Seq(ToSwitchMsg)] /\ Ingress[s] \in Switches
        BY <1>1 DEF TypeOK
    <3>3. toSwitch'[Ingress[s]] = Append(toSwitch[Ingress[s]], Activation(s, v))
        BY <3>1, <3>2
    <3>4. /\ Holds(toSwitch'[Ingress[s]], Activation(s, v))
          /\ \A x \in Switches : \A m : Holds(toSwitch[x], m) => Holds(toSwitch'[x], m)
        BY <1>14, <2>1, <3>2, <3>3
    <3> QED BY <1>1, <1>3, <1>5, <1>7, <1>8, <2>3, <3>4 DEF AckCounted
  <2> QED BY <2>2, <2>3
<1> QED BY <1>9, <1>11, <1>12, <1>13, <1>17, <1>19, <1>20, <1>21, <1>22 DEF OrderInv

-----------------------------------------------------------------------------
LEMMA RequestsStep ==
    ASSUME Orderly, Requests, [Next]_vars
    PROVE  Requests'
<1>0. TypeOK /\ NumberInRange /\ AdvertisedOnce /\ UnadvertisedIdle /\ TypeOK'
    BY TypeStep DEF Requests
<1>1. ASSUME NEW s \in Streams, Advertise(s) PROVE Requests'
  <2>1. NumberInRange'
      BY <1>0, <1>1 DEF Advertise, NumberInRange
  <2> QED BY <1>0, <1>1, <2>1, AdvertiseRequests DEF Requests
<1>2. ASSUME NEW sw \in Switches, AcceptTalker(sw) \/ AcceptAndMove(sw) PROVE Requests'
  <2>1. PICK s \in Streams, k \in Nat : Accepted(sw, s, k)
      BY <1>0, <1>2, AcceptTalkerFacts, AcceptAndMoveFacts
  <2>2. NumberInRange'
      BY <1>0, <2>1 DEF Accepted, NumberInRange
  <2> QED BY <1>0, <2>1, <2>2, AcceptRequests DEF Requests
<1>3. ASSUME SeenStreams' = SeenStreams,
             ce'.OF_match_version_number = ce.OF_match_version_number,
             \A x \in Switches : \A u \in Streams :
                 /\ Holds(toController'[x], TalkerAdvertise(u)) =>
                       Holds(toController[x], TalkerAdvertise(u))
                 /\ Once(toController[x], TalkerAdvertise(u)) =>
                       Once(toController'[x], TalkerAdvertise(u)),
             \A u \in Streams : /\ ~ Assigned(ce, u) => ~ Assigned(ce', u)
                                /\ ~ Pending(ce, u) => ~ Pending(ce', u)
      PROVE  Requests'
  <2>1. NumberInRange'
      BY <1>0, <1>3 DEF NumberInRange
  <2> QED BY <1>0, <1>3, <2>1, QuietRequests DEF Requests
<1>4. ASSUME NEW sw \in Switches, RejectTalker(sw) PROVE Requests'
  <2>1. /\ toController[sw] # << >> /\ ConsumeFrom(sw)
        /\ ce' = ce /\ SeenStreams' = SeenStreams
      BY <1>4 DEF RejectTalker, NextFrom, switchVars
  <2> QED BY <1>0, <1>3, <2>1, ConsumeFromFacts
<1>5. ASSUME NEW sw \in Switches, ReceiveAck(sw) PROVE Requests'
  <2>0. PICK v \in Versions : v = Head(toController[sw]).version
      BY <1>0, <1>5, MessageTypes DEF ReceiveAck
  <2>1. /\ toController[sw] # << >> /\ ConsumeFrom(sw) /\ ce \in EngineState
        /\ ce' = receiveAck(ce, v, sw) /\ SeenStreams' = SeenStreams
      BY <1>0, <1>5, <2>0 DEF ReceiveAck, NextFrom, switchVars, TypeOK
  <2>2. /\ ce'.OF_match_version_number = ce.OF_match_version_number
        /\ ce'.prevAssignments = ce.prevAssignments
        /\ \A u \in Streams : ~ Pending(ce, u) => ~ Pending(ce', u)
      BY <2>1, ReceiveAckFacts, ZenonT(30)
  <2> QED BY <1>0, <1>3, <2>1, <2>2, ConsumeFromFacts DEF Assigned
<1>6. ASSUME NEW sw \in Switches, HandleFlowMod(sw) PROVE Requests'
  <2>0. PICK n \in Versions : n = Head(toSwitch[sw]).entry.tag
      BY <1>0, <1>6, MessageTypes DEF HandleFlowMod, Entry
  <2>1. /\ toController' = [toController EXCEPT ![sw] = Append(@, Ack(n))]
        /\ ce' = ce /\ SeenStreams' = SeenStreams
      BY <1>6, <2>0 DEF HandleFlowMod, handleFlowMod, Orderly
  <2>2. /\ toController'[sw] = Append(toController[sw], Ack(n))
        /\ \A x \in Switches \ {sw} : toController'[x] = toController[x]
        /\ toController[sw] \in Seq(ToControllerMsg) /\ Ack(n) \in ToControllerMsg
      BY <1>0, <2>1 DEF TypeOK, Ack, ToControllerMsg
  <2>3. ASSUME NEW u \in Streams
        PROVE  /\ Holds(toController'[sw], TalkerAdvertise(u)) =>
                     Holds(toController[sw], TalkerAdvertise(u))
               /\ Once(toController[sw], TalkerAdvertise(u)) =>
                     Once(toController'[sw], TalkerAdvertise(u))
    <3>1. TalkerAdvertise(u) # Ack(n)
        BY MessagesDiffer
    <3> QED BY <2>2, <3>1, HoldsAppend, OnceAppend
  <2> QED BY <1>0, <1>3, <2>1, <2>2, <2>3
<1>7. ASSUME UNCHANGED << ce, SeenStreams, toController >> PROVE Requests'
    BY <1>3, <1>7
<1>8. ASSUME NEW sw \in Switches,
             HandleListenerReady(sw) \/ HandleActivation(sw) \/ ExpireRule(sw)
      PROVE  Requests'
    BY <1>7, <1>8 DEF HandleListenerReady, HandleActivation, handleMatchVersionMessage,
                      ExpireRule, AgeEntry, switchVars
<1>9. ASSUME NEW s \in Observed, SendFrame(s) \/ RelayFrame(s) PROVE Requests'
    BY <1>7, <1>9 DEF SendFrame, RelayFrame, switchVars
<1>10. ASSUME UNCHANGED vars PROVE Requests'
    BY <1>7, <1>10 DEF vars, switchVars
<1> QED BY <1>1, <1>2, <1>4, <1>5, <1>6, <1>8, <1>9, <1>10 DEF Next, Controller, Agent

(* Every step keeps the invariant and no step takes an older version into  *)
(* use: one step of the proof per action.                                  *)
LEMMA OrderStep ==
    ASSUME Orderly, OrderInv, [Next]_vars
    PROVE  OrderInv' /\ \A s \in Streams : ActiveVersion(s)' >= ActiveVersion(s)
<1> DEFINE Kept == \A s \in Streams : ActiveVersion(s)' = ActiveVersion(s)
<1>0. Requests /\ Requests' /\ TypeOK
    BY RequestsStep DEF OrderInv, Requests
<1>1. ASSUME Kept PROVE \A s \in Streams : ActiveVersion(s)' >= ActiveVersion(s)
  <2>1. \A s \in Streams : ActiveVersion(s) \in Nat
      BY <1>0, Numbers
  <2> QED BY <1>1, <2>1
<1>2. ASSUME Unmoved, toSwitch' = toSwitch,
             \A x \in Switches, v \in Versions :
                 /\ Holds(toController'[x], Ack(v)) => Holds(toController[x], Ack(v))
                 /\ Once(toController[x], Ack(v)) => Once(toController'[x], Ack(v))
      PROVE  OrderInv' /\ Kept
  <2>1. QueuesInOrder'
      BY <1>2 DEF OrderInv, QueuesInOrder, InOrder
  <2> QED BY <1>0, <1>2, <2>1, OrderQuiet DEF Unmoved
<1>3. ASSUME NEW s \in Streams, Advertise(s) PROVE OrderInv' /\ Kept
  <2> DEFINE sw == Ingress[s]
  <2>1. /\ toController' = [toController EXCEPT ![sw] = Append(@, TalkerAdvertise(s))]
        /\ UNCHANGED << ce, StreamActiveMatchVersionMap, toSwitch, route >>
        /\ sw \in Switches
      BY <1>3 DEF Advertise, RelayTalkerAdvertise
  <2>2. /\ toController'[sw] = Append(toController[sw], TalkerAdvertise(s))
        /\ \A x \in Switches \ {sw} : toController'[x] = toController[x]
        /\ toController[sw] \in Seq(ToControllerMsg) /\ TalkerAdvertise(s) \in ToControllerMsg
      BY <1>0, <2>1 DEF TypeOK, TalkerAdvertise, ToControllerMsg
  <2> HIDE DEF sw
  <2>3. ASSUME NEW v \in Versions
        PROVE  /\ Holds(toController'[sw], Ack(v)) => Holds(toController[sw], Ack(v))
               /\ Once(toController[sw], Ack(v)) => Once(toController'[sw], Ack(v))
    <3>1. TalkerAdvertise(s) # Ack(v)
        BY MessagesDiffer
    <3> QED BY <2>2, <3>1, HoldsAppend, OnceAppend
  <2>4. Unmoved
      BY <2>1 DEF Unmoved, ActiveVersion
  <2> QED BY <1>2, <2>1, <2>2, <2>3, <2>4
<1>4. ASSUME NEW sw \in Switches, RejectTalker(sw) PROVE OrderInv' /\ Kept
  <2>1. /\ toController[sw] # << >> /\ ConsumeFrom(sw)
        /\ UNCHANGED << ce, StreamActiveMatchVersionMap, toSwitch, route >>
      BY <1>4 DEF RejectTalker, NextFrom, switchVars
  <2>2. Unmoved
      BY <2>1 DEF Unmoved, ActiveVersion
  <2> QED BY <1>0, <1>2, <2>1, <2>2, ConsumeFromFacts
<1>5. ASSUME NEW sw \in Switches, AcceptTalker(sw) \/ AcceptAndMove(sw) PROVE OrderInv' /\ Kept
  <2>1. PICK s \in Streams, k \in Nat : Accepted(sw, s, k)
      BY <1>0, <1>5, AcceptTalkerFacts, AcceptAndMoveFacts DEF Requests
  <2> QED BY <1>0, <2>1, OrderAccept
<1>6. ASSUME NEW sw \in Switches, ReceiveAck(sw) PROVE OrderInv' /\ Kept
    BY <1>0, <1>6, OrderAck
<1>7. ASSUME NEW sw \in Switches, HandleFlowMod(sw) PROVE OrderInv' /\ Kept
    BY <1>0, <1>7, OrderFlowMod DEF Unmoved
<1>8. ASSUME NEW sw \in Switches, HandleListenerReady(sw) PROVE OrderInv' /\ Kept
  <2>1. /\ toSwitch[sw] # << >> /\ ConsumeAt(sw)
        /\ UNCHANGED << ce, StreamActiveMatchVersionMap, toController, route >>
      BY <1>8 DEF HandleListenerReady, NextAt, switchVars
  <2>2. Unmoved
      BY <2>1 DEF Unmoved, ActiveVersion
  <2>3. QueuesInOrder' /\ \A x \in Switches : \A m : Holds(toSwitch'[x], m) => Holds(toSwitch[x], m)
      BY <1>0, <2>1, ConsumeAtFacts, ConsumeAtOrder DEF OrderInv
  <2> QED BY <1>0, <2>1, <2>2, <2>3, OrderQuiet DEF Unmoved
<1>9. ASSUME UNCHANGED << ce, StreamActiveMatchVersionMap, toSwitch, toController, route >>
      PROVE  OrderInv' /\ Kept
  <2>1. Unmoved
      BY <1>9 DEF Unmoved, ActiveVersion
  <2> QED BY <1>2, <1>9, <2>1
<1>10. ASSUME NEW sw \in Switches, ExpireRule(sw) PROVE OrderInv' /\ Kept
    BY <1>9, <1>10 DEF ExpireRule, AgeEntry
<1>11. ASSUME NEW s \in Observed, SendFrame(s) \/ RelayFrame(s) PROVE OrderInv' /\ Kept
    BY <1>9, <1>11 DEF SendFrame, RelayFrame, switchVars
<1>12. ASSUME UNCHANGED vars PROVE OrderInv' /\ Kept
    BY <1>9, <1>12 DEF vars, switchVars
<1> HIDE DEF Kept
<1> QED BY <1>0, <1>1, <1>3, <1>4, <1>5, <1>6, <1>7, <1>8, <1>10, <1>11, <1>12, OrderActivation
        DEF Next, Controller, Agent

LEMMA OrderInit == Init => OrderInv
<1> SUFFICES ASSUME Init PROVE OrderInv
    OBVIOUS
<1>1. Requests
    BY DeployInit DEF DeployInv, Requests
<1>2. \A sw \in Switches : \A m : /\ ~ Holds(toSwitch[sw], m) /\ ~ Holds(toController[sw], m)
                                  /\ Once(toController[sw], m) /\ InOrder(toSwitch[sw])
    BY DEF Init, Holds, Once, InOrder
<1>3. ce.OF_match_version_number = 1
  <2>1. 1 \in Nat /\ 1 < VersionSpace
      OBVIOUS
  <2> QED BY <2>1, ModSmall DEF Init, EngineInit
<1>4. \A v : ~ Issued(v)
    BY <1>3 DEF Issued
<1>5. \A s \in Streams : Row(ce, s).next = 0 /\ Row(ce, s).current = 0 /\ ActiveVersion(s) = 0
    BY DEF Init, EngineInit, SwitchInit, ActiveVersion, Row
<1>6. RoutesOwned /\ RowsOwned /\ WaitingPending /\ ActiveOwned
    BY <1>4, <1>5 DEF RoutesOwned, RowsOwned, WaitingPending, ActiveOwned
<1>7. AcksOwed /\ QueuesInOrder /\ ActivationsOwned
    BY <1>2, RuleInQueue DEF AcksOwed, QueuesInOrder, ActivationsOwned
<1> QED BY <1>1, <1>6, <1>7 DEF OrderInv

(* A version tags the frames of the stream it was reserved for and of no   *)
(* other.  The loop of activateMatchVersion, which looks for the stream by *)
(* the version and may leave its id uninitialised, always finds the right  *)
(* one: as long as no pending stream is moved, every ACK that comes in is  *)
(* owed for the pending version of a stream.  Rules may expire and tables  *)
(* may be full.                                                            *)
THEOREM VersionsBelongHolds ==
    ASSUME Orderly
    PROVE  Spec => []VersionsBelongToTheirStream
<1>1. Init => OrderInv
    BY OrderInit
<1>2. OrderInv /\ [Next]_vars => OrderInv'
    BY OrderStep
<1>3. OrderInv => VersionsBelongToTheirStream
    BY DEF OrderInv, ActiveOwned, VersionsBelongToTheirStream
<1> QED BY <1>1, <1>2, <1>3, PTL DEF Spec

(* No ingress switch falls back to an older version of a stream: the       *)
(* ActivationMessages of a stream reach it in the order in which the       *)
(* engine handed the versions out (Edge_OF_RelayUnit.cc,                   *)
(* handleMatchVersionMessage overwrites without comparing).                *)
THEOREM ActivationInOrderHolds ==
    ASSUME Orderly
    PROVE  Spec => ActivationInOrder
<1>1. Init => OrderInv
    BY OrderInit
<1>2. OrderInv /\ [Next]_vars => OrderInv'
    BY OrderStep
<1>3. OrderInv /\ [Next]_vars => [\A s \in Streams : ActiveVersion(s)' >= ActiveVersion(s)]_vars
    BY OrderStep
<1> QED BY <1>1, <1>2, <1>3, PTL DEF Spec, ActivationInOrder

-----------------------------------------------------------------------------
(* Frames of settled streams: whatever rule a frame was forwarded by, the  *)
(* next switch has the next rule of that version.                          *)

(* Each stream has its own addresses and VLAN id.                          *)
FlowsDistinct == \A s, t \in Streams : FlowOf[s] = FlowOf[t] => s = t

RuleOn(sw, entry) ==
    Issued(entry.tag) /\ PathRule(route[entry.tag].sid, route[entry.tag].path, sw, entry)

(* A rule, installed or on its way, is one of the path of its version.     *)
RulesInstalled == \A sw \in Switches : \A i \in DOMAIN entries[sw] : RuleOn(sw, entries[sw][i])

RulesSent ==
    \A sw \in Switches : \A m : Holds(toSwitch[sw], m) /\ m.type = "FlowMod" => RuleOn(sw, m.entry)

RoutesAssigned ==
    \A v \in Versions : Issued(v) => route[v].path \in CandidatePaths[route[v].sid]

(* A frame comes from its talker, or along a link of a path that was       *)
(* assigned to a stream with the same addresses.                           *)
Along(v, from, at) ==
    \E k \in DOMAIN route[v].path :
        k + 1 \in DOMAIN route[v].path /\ route[v].path[k] = from /\ route[v].path[k + 1] = at

FrameOnRoute(s, f) ==
    \/ f.from = "talker" /\ f.at = Ingress[s] /\ f.tag = 0
    \/ \E v \in Versions : Issued(v) /\ FlowOf[route[v].sid] = FlowOf[s] /\ Along(v, f.from, f.at)

FramesOnRoutes == \A s \in Observed : frame[s] # NoFrame => FrameOnRoute(s, frame[s])

FrameInv == RulesInstalled /\ RulesSent /\ RoutesAssigned /\ FramesOnRoutes

(* What was issued stays issued, on its path.                              *)
RoutesStay ==
    \A v \in Versions : Issued(v) => Issued(v)' /\ route'[v] = route[v]

LEMMA IssuedVersions ==
    ASSUME NumberInRange, NEW v, Issued(v)
    PROVE  v \in Versions /\ v # 0
BY DEF NumberInRange, Issued, Versions

LEMMA RuleStays ==
    ASSUME NumberInRange, RoutesStay, NEW sw, NEW entry, RuleOn(sw, entry)
    PROVE  RuleOn(sw, entry)'
<1>1. Issued(entry.tag) /\ entry.tag \in Versions
    BY IssuedVersions DEF RuleOn
<1>2. Issued(entry.tag)' /\ route'[entry.tag] = route[entry.tag]
    BY <1>1 DEF RoutesStay
<1> QED BY <1>2 DEF RuleOn, PathRule

LEMMA FrameStays ==
    ASSUME RoutesStay, NEW s, NEW f, FrameOnRoute(s, f)
    PROVE  FrameOnRoute(s, f)'
<1>1. CASE f.from = "talker" /\ f.at = Ingress[s] /\ f.tag = 0
    BY <1>1 DEF FrameOnRoute
<1>2. ASSUME NEW v \in Versions, Issued(v), FlowOf[route[v].sid] = FlowOf[s],
             Along(v, f.from, f.at)
      PROVE  FrameOnRoute(s, f)'
  <2>1. Issued(v)' /\ route'[v] = route[v]
      BY <1>2 DEF RoutesStay
  <2>2. Along(v, f.from, f.at)'
      BY <1>2, <2>1 DEF Along
  <2> QED BY <1>2, <2>1, <2>2 DEF FrameOnRoute
<1> QED BY <1>1, <1>2 DEF FrameOnRoute

(* Steps that install no rule, send none, issue no version and forward no  *)
(* frame.                                                                  *)
LEMMA FrameQuiet ==
    ASSUME FrameInv, NumberInRange, UNCHANGED << ce, route, entries >>,
           \A x \in Switches : \A m : Holds(toSwitch'[x], m) => Holds(toSwitch[x], m),
           \A s \in Observed : frame'[s] # NoFrame => FrameOnRoute(s, frame'[s])
    PROVE  FrameInv'
<1>1. RoutesStay
    BY DEF RoutesStay, Issued
<1>2. RulesInstalled'
    BY <1>1, RuleStays DEF FrameInv, RulesInstalled
<1>3. RulesSent'
  <2>1. SUFFICES ASSUME NEW x \in Switches, NEW m, Holds(toSwitch'[x], m), m.type = "FlowMod"
                 PROVE  RuleOn(x, m.entry)'
      BY DEF RulesSent, Holds
  <2>2. RuleOn(x, m.entry)
      BY <2>1 DEF FrameInv, RulesSent
  <2> QED BY <1>1, <2>2, RuleStays
<1>4. RoutesAssigned'
    BY DEF FrameInv, RoutesAssigned, Issued
<1>5. FramesOnRoutes'
  <2>1. SUFFICES ASSUME NEW s \in Observed, frame'[s] # NoFrame
                 PROVE  FrameOnRoute(s, frame[s])'
      BY DEF FramesOnRoutes
  <2>2. PICK f : f = frame'[s]
      OBVIOUS
  <2>3. FrameOnRoute(s, f)'
      BY <1>1, <2>1, <2>2, FrameStays
  <2> QED BY <2>2, <2>3 DEF FrameOnRoute
<1> QED BY <1>2, <1>3, <1>4, <1>5 DEF FrameInv

(* The controller issues versions and sends their rules.                   *)
LEMMA FrameAccept ==
    ASSUME FrameInv, TypeOK, NumberInRange, NEW sw \in Switches, NEW s \in Streams,
           NEW k \in Nat, Accepted(sw, s, k), frame' = frame
    PROVE  FrameInv'
<1> DEFINE n == ce.OF_match_version_number
<1>1. /\ n \in 1 .. VersionSpace - 1 /\ k >= 1 /\ n + k < VersionSpace
      /\ ce'.OF_match_version_number = n + k /\ entries' = entries
    BY DEF NumberInRange, Accepted, switchVars
<1>2. /\ \A v \in Versions : Issued(v) => Issued(v)'
      /\ \A v : Fresh(v) => v \in Versions /\ Issued(v)'
      /\ \A v : Issued(v)' => Issued(v) \/ Fresh(v)
    BY <1>1 DEF Issued, Fresh, Versions
<1>3. RoutesStay
    BY <1>2 DEF RoutesStay, Accepted
<1>4. RulesInstalled'
    BY <1>1, <1>3, RuleStays DEF FrameInv, RulesInstalled
<1>5. RulesSent'
  <2>1. SUFFICES ASSUME NEW x \in Switches, NEW m, Holds(toSwitch'[x], m), m.type = "FlowMod"
                 PROVE  RuleOn(x, m.entry)'
      BY DEF RulesSent, Holds
  <2>2. m # ListenerReady(s)
      BY <2>1, MessagesDiffer
  <2>3. CASE Holds(toSwitch[x], m)
    <3>1. RuleOn(x, m.entry)
        BY <2>1, <2>3 DEF FrameInv, RulesSent
    <3> QED BY <1>3, <3>1, RuleStays
  <2>4. CASE /\ Fresh(m.entry.tag)
             /\ PathRule(route'[m.entry.tag].sid, route'[m.entry.tag].path, x, m.entry)
      BY <1>2, <2>4 DEF RuleOn, PathRule
  <2> QED BY <2>1, <2>2, <2>3, <2>4 DEF Accepted
<1>6. RoutesAssigned'
  <2>1. SUFFICES ASSUME NEW v \in Versions, Issued(v)'
                 PROVE  route'[v].path \in CandidatePaths[route'[v].sid]
      BY DEF RoutesAssigned
  <2>2. CASE Issued(v)
      BY <1>3, <2>2 DEF FrameInv, RoutesAssigned, RoutesStay
  <2>3. CASE Fresh(v)
      BY <2>3 DEF Accepted
  <2> QED BY <1>2, <2>1, <2>2, <2>3
<1>7. FramesOnRoutes'
  <2>1. SUFFICES ASSUME NEW u \in Observed, frame[u] # NoFrame
                 PROVE  FrameOnRoute(u, frame[u])'
      BY DEF FramesOnRoutes
  <2>2. PICK f : f = frame[u] /\ f = frame'[u]
      OBVIOUS
  <2>3. FrameOnRoute(u, f)'
      BY <1>3, <2>1, <2>2, FrameStays DEF FrameInv, FramesOnRoutes
  <2> QED BY <2>2, <2>3 DEF FrameOnRoute
<1> QED BY <1>4, <1>5, <1>6, <1>7 DEF FrameInv

(* A table gets no entry but the new one.                                  *)
LEMMA AddEntryOnly ==
    ASSUME NEW t \in Seq(Entry), NEW x \in Entry, NEW u \in addEntry(t, x), NEW j \in DOMAIN u
    PROVE  u[j] = x \/ \E i \in DOMAIN t : u[j] = t[i]
<1>1. CASE u = t
    BY <1>1
<1>2. ASSUME NEW pos \in 1 .. Len(t) + 1, u = InsertedAt(t, pos, x)
      PROVE  u[j] = x \/ \E i \in DOMAIN t : u[j] = t[i]
  <2>1. /\ DOMAIN t = 1 .. Len(t) /\ Len(t) \in Nat /\ j \in 1 .. Len(t) + 1
        /\ u[j] = IF j < pos THEN t[j] ELSE IF j = pos THEN x ELSE t[j - 1]
      BY <1>2 DEF InsertedAt
  <2>2. CASE j < pos
    <3>1. j \in 1 .. Len(t)
        BY <2>1, <2>2
    <3> QED BY <2>1, <2>2, <3>1
  <2>3. CASE j = pos
      BY <2>1, <2>3
  <2>4. CASE j > pos
    <3>1. j - 1 \in 1 .. Len(t) /\ ~ (j < pos) /\ j # pos
        BY <2>1, <2>4
    <3> QED BY <2>1, <3>1
  <2> QED BY <2>1, <2>2, <2>3, <2>4
<1> QED BY <1>1, <1>2 DEF addEntry

(* A switch installs a rule.                                               *)
LEMMA FrameFlowMod ==
    ASSUME FrameInv, TypeOK, NumberInRange, NEW sw \in Switches, HandleFlowMod(sw)
    PROVE  FrameInv'
<1>1. PICK x \in Entry : x = Head(toSwitch[sw]).entry
    BY MessageTypes DEF HandleFlowMod
<1>2. /\ toSwitch[sw] # << >> /\ Head(toSwitch[sw]).type = "FlowMod"
      /\ handleFlowMod(sw, x) /\ ConsumeAt(sw) /\ UNCHANGED << ce, route, frame >>
    BY <1>1 DEF HandleFlowMod, NextAt
<1>3. PICK t \in addEntry(entries[sw], x) \cup {entries[sw]} : entries' = [entries EXCEPT ![sw] = t]
    BY <1>2 DEF handleFlowMod
<1>4. entries \in [Switches -> Seq(Entry)] /\ entries[sw] \in Seq(Entry)
    BY DEF TypeOK
<1>5. entries'[sw] = t /\ \A y \in Switches : y # sw => entries'[y] = entries[y]
    BY <1>3, <1>4
<1>6. /\ \A y \in Switches : \A m : Holds(toSwitch'[y], m) => Holds(toSwitch[y], m)
      /\ Holds(toSwitch[sw], Head(toSwitch[sw]))
    BY <1>2, ConsumeAtFacts
<1>7. RoutesStay
    BY <1>2 DEF RoutesStay, Issued
<1>8. RuleOn(sw, x)
    BY <1>1, <1>2, <1>6 DEF FrameInv, RulesSent
<1>9. RulesInstalled'
  <2>1. SUFFICES ASSUME NEW y \in Switches, NEW j \in DOMAIN entries'[y]
                 PROVE  RuleOn(y, entries[y][j])'
      BY DEF RulesInstalled
  <2>2. PICK e : e = entries'[y][j]
      OBVIOUS
  <2>3. RuleOn(y, e)
    <3>1. CASE y = sw
      <4>1. e = x \/ \E i \in DOMAIN entries[sw] : e = entries[sw][i]
          BY <1>3, <1>4, <1>5, <2>1, <2>2, <3>1, AddEntryOnly
      <4> QED BY <1>8, <3>1, <4>1 DEF FrameInv, RulesInstalled
    <3>2. CASE y # sw
        BY <1>5, <2>1, <2>2, <3>2 DEF FrameInv, RulesInstalled
    <3> QED BY <3>1, <3>2
  <2>4. RuleOn(y, e)'
      BY <1>7, <2>3, RuleStays
  <2> QED BY <2>2, <2>4 DEF RuleOn, PathRule
<1>10. RulesSent'
  <2>1. SUFFICES ASSUME NEW y \in Switches, NEW m, Holds(toSwitch'[y], m), m.type = "FlowMod"
                 PROVE  RuleOn(y, m.entry)'
      BY DEF RulesSent, Holds
  <2>2. RuleOn(y, m.entry)
      BY <1>6, <2>1 DEF FrameInv, RulesSent
  <2> QED BY <1>7, <2>2, RuleStays
<1>11. RoutesAssigned'
    BY <1>2 DEF FrameInv, RoutesAssigned, Issued
<1>12. FramesOnRoutes'
  <2>1. SUFFICES ASSUME NEW u \in Observed, frame[u] # NoFrame
                 PROVE  FrameOnRoute(u, frame[u])'
      BY <1>2 DEF FramesOnRoutes
  <2>2. PICK f : f = frame[u] /\ f = frame'[u]
      BY <1>2
  <2>3. FrameOnRoute(u, f)'
      BY <1>7, <2>1, <2>2, FrameStays DEF FrameInv, FramesOnRoutes
  <2> QED BY <2>2, <2>3 DEF FrameOnRoute
<1> QED BY <1>9, <1>10, <1>11, <1>12 DEF FrameInv

(* A switch forwards a frame along the path of the rule it found.          *)
LEMMA FrameRelay ==
    ASSUME FrameInv, TypeOK, NumberInRange, NEW s \in Observed, RelayFrame(s),
           NEW u \in Observed, frame'[u] # NoFrame
    PROVE  FrameOnRoute(u, frame'[u])
<1>1. CASE u # s
  <2>1. frame'[u] = frame[u]
      BY <1>1 DEF RelayFrame
  <2> QED BY <2>1 DEF FrameInv, FramesOnRoutes
<1>2. CASE u = s
  <2>1. PICK sw, i, out, tag, f :
           /\ sw = frame[s].at /\ i = RuleFor(s) /\ out = entries[sw][i].outport
           /\ tag = TagAt(sw, s, frame[s].tag) /\ f = frame'[s]
      OBVIOUS
  <2>2. /\ frame[s] # NoFrame
        /\ frame' = [frame EXCEPT ![s] = IF i = 0 \/ out = "listener" THEN NoFrame
                                         ELSE [at |-> out, from |-> sw, tag |-> tag]]
      BY <2>1 DEF RelayFrame
  <2>3. frame \in [Observed -> {NoFrame} \cup [at : Switches, from : InPorts, tag : Versions]]
      BY DEF TypeOK
  <2>4. i # 0 /\ out # "listener" /\ f.at = out /\ f.from = sw
      BY <1>2, <2>1, <2>2, <2>3
  <2>5. frame[s] \in [at : Switches, from : InPorts, tag : Versions]
      BY <2>2, <2>3
  <2>6. sw \in Switches /\ entries[sw] \in Seq(Entry)
      BY <2>1, <2>5 DEF TypeOK
  <2>7. /\ i \in DOMAIN entries[sw] /\ tryMatch(entries[sw][i], FlowOf[s], frame[s].from)
    <3>1. i = lookup(entries[sw], FlowOf[s], frame[s].from)
        BY <2>1 DEF RuleFor
    <3> QED BY <2>4, <2>6, <3>1, LookupType
  <2>8. PICK e, v : e = entries[sw][i] /\ v = e.tag
      OBVIOUS
  <2>9. RuleOn(sw, e) /\ e.flow = FlowOf[s] /\ out = e.outport
      BY <2>1, <2>6, <2>7, <2>8 DEF FrameInv, RulesInstalled, tryMatch
  <2>10. Issued(v) /\ v \in Versions
      BY <2>8, <2>9, IssuedVersions DEF RuleOn
  <2>11. PICK k \in DOMAIN route[v].path :
            /\ route[v].path[k] = sw
            /\ e = createDesiredMatch(route[v].sid, route[v].path, k, v)
      BY <2>8, <2>9 DEF RuleOn, PathRule
  <2>12. /\ e.flow = FlowOf[route[v].sid]
         /\ e.outport = IF k = Len(route[v].path) THEN "listener" ELSE route[v].path[k + 1]
      BY <2>11 DEF createDesiredMatch
  <2>13. route[v].path \in Seq(Switches)
      BY <2>10 DEF TypeOK, Paths
  <2>14. k + 1 \in DOMAIN route[v].path /\ route[v].path[k + 1] = f.at
      BY <2>4, <2>9, <2>11, <2>12, <2>13
  <2>15. Along(v, f.from, f.at)
      BY <2>4, <2>11, <2>14 DEF Along
  <2> QED BY <1>2, <2>1, <2>9, <2>10, <2>12, <2>15 DEF FrameOnRoute
<1> QED BY <1>1, <1>2

LEMMA FrameStep ==
    ASSUME Undisturbed, DeployInv, FrameInv, [Next]_vars
    PROVE  FrameInv'
<1>1. /\ TypeOK /\ NumberInRange /\ AdvertisedOnce /\ Orderly
    BY DEF DeployInv, Undisturbed, Orderly
<1>2. ASSUME UNCHANGED << ce, route, entries, frame >>,
             \A x \in Switches : \A m : Holds(toSwitch'[x], m) => Holds(toSwitch[x], m)
      PROVE  FrameInv'
    BY <1>1, <1>2, FrameQuiet DEF FrameInv, FramesOnRoutes
<1>3. ASSUME NEW sw \in Switches, AcceptTalker(sw) \/ AcceptAndMove(sw)
      PROVE  FrameInv'
  <2>1. PICK s \in Streams, k \in Nat : Accepted(sw, s, k)
      BY <1>1, <1>3, AcceptTalkerFacts, AcceptAndMoveFacts
  <2>2. frame' = frame
      BY <1>3 DEF AcceptTalker, AcceptAndMove
  <2> QED BY <1>1, <2>1, <2>2, FrameAccept
<1>4. ASSUME NEW sw \in Switches, ReceiveAck(sw)
      PROVE  FrameInv'
  <2>1. PICK v \in Versions : v = Head(toController[sw]).version
      BY <1>1, <1>4, MessageTypes DEF ReceiveAck
  <2>2. UNCHANGED << route, entries, frame >> /\ ce' = receiveAck(ce, v, sw)
      BY <1>4, <2>1 DEF ReceiveAck, switchVars
  <2>3. ce'.OF_match_version_number = ce.OF_match_version_number
    <3>1. ce \in EngineState
        BY <1>1 DEF TypeOK
    <3> QED BY <2>2, <3>1, ReceiveAckFacts
  <2>4. ASSUME NEW x \in Switches, NEW m, Holds(toSwitch'[x], m), m.type = "FlowMod"
        PROVE  Holds(toSwitch[x], m)
    <3>1. CASE toSwitch' = toSwitch
        BY <2>4, <3>1
    <3>2. ASSUME NEW s, NEW y, toSwitch' = [toSwitch EXCEPT ![y] = Append(@, Activation(s, v))]
          PROVE  Holds(toSwitch[x], m)
      <4>1. toSwitch \in [Switches -> Seq(ToSwitchMsg)] /\ toSwitch[x] \in Seq(ToSwitchMsg)
          BY <1>1 DEF TypeOK
      <4>2. toSwitch'[x] = toSwitch[x] \/ toSwitch'[x] = Append(toSwitch[x], Activation(s, v))
          BY <3>2, <4>1
      <4>3. m # Activation(s, v)
          BY <2>4, MessagesDiffer
      <4>4. PICK q \in Seq(ToSwitchMsg) : q = toSwitch[x]
          BY <4>1
      <4>5. /\ DOMAIN Append(q, Activation(s, v)) = 1 .. Len(q) + 1 /\ DOMAIN q = 1 .. Len(q)
            /\ \A i \in 1 .. Len(q) : Append(q, Activation(s, v))[i] = q[i]
            /\ Append(q, Activation(s, v))[Len(q) + 1] = Activation(s, v) /\ Len(q) \in Nat
          BY <4>4
      <4> QED BY <2>4, <4>2, <4>3, <4>4, <4>5 DEF Holds
    <3> QED BY <1>4, <2>1, <3>1, <3>2 DEF ReceiveAck
  <2>5. RoutesStay
      BY <2>2, <2>3 DEF RoutesStay, Issued
  <2>6. RulesInstalled'
      BY <1>1, <2>2, <2>5, RuleStays DEF FrameInv, RulesInstalled
  <2>7. RulesSent'
    <3>1. SUFFICES ASSUME NEW x \in Switches, NEW m, Holds(toSwitch'[x], m), m.type = "FlowMod"
                   PROVE  RuleOn(x, m.entry)'
        BY DEF RulesSent, Holds
    <3>2. RuleOn(x, m.entry)
        BY <2>4, <3>1 DEF FrameInv, RulesSent
    <3> QED BY <1>1, <2>5, <3>2, RuleStays
  <2>8. RoutesAssigned'
      BY <2>2, <2>3 DEF FrameInv, RoutesAssigned, Issued
  <2>9. FramesOnRoutes'
    <3>1. SUFFICES ASSUME NEW u \in Observed, frame[u] # NoFrame
                   PROVE  FrameOnRoute(u, frame[u])'
        BY <2>2 DEF FramesOnRoutes
    <3>2. PICK f : f = frame[u] /\ f = frame'[u]
        BY <2>2
    <3>3. FrameOnRoute(u, f)'
        BY <2>5, <3>1, <3>2, FrameStays DEF FrameInv, FramesOnRoutes
    <3> QED BY <3>2, <3>3 DEF FrameOnRoute
  <2> QED BY <2>6, <2>7, <2>8, <2>9 DEF FrameInv
<1>5. ASSUME NEW sw \in Switches, HandleListenerReady(sw) \/ HandleActivation(sw)
      PROVE  FrameInv'
  <2>1. /\ toSwitch[sw] # << >> /\ ConsumeAt(sw)
        /\ UNCHANGED << ce, route, entries, frame >>
      BY <1>5 DEF HandleListenerReady, HandleActivation, handleMatchVersionMessage, NextAt, switchVars
  <2> QED BY <1>1, <1>2, <2>1, ConsumeAtFacts
<1>6. ASSUME NEW s \in Streams, Advertise(s)
      PROVE  FrameInv'
    BY <1>2, <1>6 DEF Advertise, RelayTalkerAdvertise
<1>7. ASSUME NEW sw \in Switches, RejectTalker(sw)
      PROVE  FrameInv'
    BY <1>2, <1>7 DEF RejectTalker, switchVars
<1>8. ASSUME NEW s \in Observed, SendFrame(s)
      PROVE  FrameInv'
  <2>1. /\ frame' = [frame EXCEPT ![s] = [at |-> Ingress[s], from |-> "talker", tag |-> 0]]
        /\ UNCHANGED << ce, route, entries, toSwitch >>
      BY <1>8 DEF SendFrame, switchVars
  <2>2. ASSUME NEW u \in Observed, frame'[u] # NoFrame
        PROVE  FrameOnRoute(u, frame'[u])
    <3>1. CASE u = s
        BY <1>1, <2>1, <3>1 DEF TypeOK, FrameOnRoute
    <3>2. CASE u # s
        BY <1>1, <2>1, <2>2, <3>2 DEF TypeOK, FrameInv, FramesOnRoutes
    <3> QED BY <3>1, <3>2
  <2> QED BY <1>1, <2>1, <2>2, FrameQuiet
<1>9. ASSUME NEW s \in Observed, RelayFrame(s)
      PROVE  FrameInv'
  <2>1. UNCHANGED << ce, route, entries, toSwitch >>
      BY <1>9 DEF RelayFrame, switchVars
  <2> QED BY <1>1, <1>9, <2>1, FrameRelay, FrameQuiet
<1>10. CASE UNCHANGED vars
    BY <1>2, <1>10 DEF vars, switchVars
<1>11. ASSUME NEW sw \in Switches PROVE ~ ExpireRule(sw)
    BY DEF ExpireRule, Undisturbed
<1> QED BY <1>1, <1>3, <1>4, <1>5, <1>6, <1>7, <1>8, <1>9, <1>10, <1>11, FrameFlowMod
        DEF Next, Controller, Agent

LEMMA FrameInit == Init => FrameInv
<1> SUFFICES ASSUME Init PROVE FrameInv
    OBVIOUS
<1>1. \A sw \in Switches : DOMAIN entries[sw] = {} /\ \A m : ~ Holds(toSwitch[sw], m)
    BY DEF Init, SwitchInit, Holds
<1>2. \A v : ~ Issued(v)
  <2>1. 1 \in Nat /\ 1 < VersionSpace
      OBVIOUS
  <2>2. ce.OF_match_version_number = 1
      BY <2>1, ModSmall DEF Init, EngineInit
  <2> QED BY <2>2 DEF Issued
<1>3. \A s \in Observed : frame[s] = NoFrame
    BY DEF Init
<1> QED BY <1>1, <1>2, <1>3 DEF FrameInv, RulesInstalled, RulesSent, RoutesAssigned, FramesOnRoutes

(* The rule of a deployed version at a switch of its path.                 *)
LEMMA DeployedRule ==
    ASSUME DeployInv, OrderInv, FrameInv, NEW v \in Versions, Issued(v),
           ce.AckWaitingPaths[v] = {}, NEW k \in DOMAIN route[v].path
    PROVE  LET p == route[v].path IN
           /\ p[k] \in Switches
           /\ \E i \in DOMAIN entries[p[k]] :
                 tryMatch(entries[p[k]][i], FlowOf[route[v].sid],
                          IF k = 1 THEN "talker" ELSE p[k - 1])
<1>1. PICK p, s, sw : p = route[v].path /\ s = route[v].sid /\ sw = p[k]
    OBVIOUS
<1>2. s \in Streams /\ p \in CandidatePaths[s] /\ p \in Seq(Switches) /\ k \in DOMAIN p
  <2>1. s \in Streams
      BY <1>1 DEF OrderInv, RoutesOwned
  <2>2. p \in CandidatePaths[s]
      BY <1>1 DEF FrameInv, RoutesAssigned
  <2> QED BY <1>1, <2>1, <2>2, PathFacts
<1>3. sw \in Switches /\ sw \in SwitchesOn(p)
    BY <1>1, <1>2 DEF SwitchesOn
<1>4. Installed(sw, s, v)
    BY <1>1, <1>3 DEF DeployInv, AckedInstalled
<1>5. PICK i \in DOMAIN entries[sw] : entries[sw][i].tag = v
    BY <1>4 DEF Installed
<1>6. PICK e : e = entries[sw][i]
    OBVIOUS
<1>7. RuleOn(sw, e) /\ e.tag = v
    BY <1>3, <1>5, <1>6 DEF FrameInv, RulesInstalled
<1>8. PICK j \in DOMAIN p : p[j] = sw /\ e = createDesiredMatch(s, p, j, v)
    BY <1>1, <1>7 DEF RuleOn, PathRule
<1>9. j = k
  <2>1. j \in 1 .. Len(p) /\ k \in 1 .. Len(p) /\ p[j] = p[k]
      BY <1>1, <1>2, <1>8
  <2> QED BY <1>2, <2>1, CandidatePathsAssumption
<1>10. e.flow = FlowOf[s] /\ e.inport = IF k = 1 THEN "talker" ELSE p[k - 1]
    BY <1>8, <1>9 DEF createDesiredMatch
<1> QED BY <1>1, <1>3, <1>5, <1>6, <1>10 DEF tryMatch

(* A lookup finds an entry when one matches.                               *)
LEMMA LookupFinds ==
    ASSUME NEW t \in Seq(Entry), NEW f, NEW from, NEW i \in DOMAIN t, tryMatch(t[i], f, from)
    PROVE  lookup(t, f, from) # 0
<1> DEFINE hits == Matching(t, f, from)
<1>1. hits \subseteq DOMAIN t /\ hits \subseteq Nat /\ 0 \notin hits /\ hits # {}
    BY DEF Matching
<1>2. \E h \in hits : \A j \in hits : h <= j
    BY <1>1, FirstExists
<1>3. lookup(t, f, from) \in hits
    BY <1>1, <1>2 DEF lookup
<1> QED BY <1>1, <1>3

(* No frame of a settled stream is lost: the switch it is at has a rule    *)
(* for it, whichever version's rule of the stream brought it there         *)
(* (ConfigurationEngine, Edge_OF_RelayUnit.cc, OF_FlowTable.cc).           *)
THEOREM NoMissOnceActiveHolds ==
    ASSUME Undisturbed, FlowsDistinct
    PROVE  Spec => []NoMissOnceActive
<1>1. DeployInv /\ FrameInv /\ [Next]_vars => FrameInv'
    BY FrameStep
<1>2. DeployInv /\ OrderInv /\ FrameInv => NoMissOnceActive
  <2> SUFFICES ASSUME DeployInv, OrderInv, FrameInv, NEW s \in Observed, frame[s] # NoFrame,
                      TagAt(frame[s].at, s, frame[s].tag) # 0, ~ Pending(ce, s)
               PROVE  RuleFor(s) # 0
      BY DEF NoMissOnceActive
  <2>1. PICK f : f = frame[s]
      OBVIOUS
  <2>2. TypeOK /\ NumberInRange /\ s \in Streams /\ f \in [at : Switches, from : InPorts, tag : Versions]
      BY <2>1 DEF DeployInv, TypeOK
  <2>3. f.at \in Switches /\ entries[f.at] \in Seq(Entry)
      BY <2>2 DEF TypeOK
  <2>4. \E i \in DOMAIN entries[f.at] : tryMatch(entries[f.at][i], FlowOf[s], f.from)
    <3>1. CASE f.from = "talker" /\ f.at = Ingress[s] /\ f.tag = 0
      <4>1. PICK v : v = ActiveVersion(s) /\ v # 0
          BY <2>1, <3>1 DEF TagAt, ActiveVersion
      <4>2. Issued(v) /\ route[v].sid = s /\ v \in Versions
          BY <2>2, <4>1, IssuedVersions DEF OrderInv, ActiveOwned
      <4>3. ce.AckWaitingPaths[v] = {}
          BY <2>2, <4>1, <4>2 DEF DeployInv, ReleasedComplete, Released
      <4>4. route[v].path \in CandidatePaths[s]
          BY <4>2 DEF FrameInv, RoutesAssigned
      <4>5. 1 \in DOMAIN route[v].path /\ route[v].path[1] = Ingress[s]
          BY <2>2, <4>4, PathFacts
      <4> QED BY <3>1, <4>2, <4>3, <4>5, DeployedRule
    <3>2. ASSUME NEW v \in Versions, Issued(v), FlowOf[route[v].sid] = FlowOf[s],
                 Along(v, f.from, f.at)
          PROVE  \E i \in DOMAIN entries[f.at] : tryMatch(entries[f.at][i], FlowOf[s], f.from)
      <4>1. route[v].sid = s
        <5>1. route[v].sid \in Streams
            BY <3>2 DEF OrderInv, RoutesOwned
        <5> QED BY <2>2, <3>2, <5>1 DEF FlowsDistinct
      <4>2. v # 0
          BY <2>2, <3>2, IssuedVersions
      <4>3. ce.AckWaitingPaths[v] = {}
          BY <3>2, <4>1, <4>2 DEF OrderInv, WaitingPending, Pending, Row
      <4>4. route[v].path \in Seq(Switches)
          BY <2>2 DEF TypeOK, Paths
      <4>5. PICK k \in DOMAIN route[v].path :
               k + 1 \in DOMAIN route[v].path /\ route[v].path[k] = f.from
               /\ route[v].path[k + 1] = f.at
          BY <3>2 DEF Along
      <4>6. PICK n \in DOMAIN route[v].path : n = k + 1 /\ n # 1 /\ n - 1 = k
          BY <4>4, <4>5
      <4> QED BY <3>2, <4>1, <4>3, <4>5, <4>6, DeployedRule
    <3> QED BY <2>1, <3>1, <3>2 DEF FrameInv, FramesOnRoutes, FrameOnRoute
  <2>5. RuleFor(s) = lookup(entries[f.at], FlowOf[s], f.from)
      BY <2>1 DEF RuleFor
  <2> QED BY <2>3, <2>4, <2>5, LookupFinds
<1>3. Orderly
    BY DEF Undisturbed, Orderly
<1>4. OrderInv /\ [Next]_vars => OrderInv'
    BY <1>3, OrderStep
<1> QED BY <1>1, <1>2, <1>4, FrameInit, OrderInit, DeployInvHolds, PTL DEF Spec

-----------------------------------------------------------------------------
(* Ascending lists of version numbers: the paths still planned for a       *)
(* stream, in the order they were issued.                                  *)
LEMMA ListsAppend ==
    ASSUME NEW V \in SUBSET Nat, NEW q \in Seq(V), Lists(q, V),
           NEW n \in Nat, \A v \in V : v < n
    PROVE  Append(q, n) \in Seq(V \cup {n}) /\ Lists(Append(q, n), V \cup {n})
<1>1. q \in Seq(V \cup {n}) /\ n \in V \cup {n}
    OBVIOUS
<1>2. /\ Len(q) \in Nat /\ DOMAIN q = 1 .. Len(q) /\ DOMAIN Append(q, n) = 1 .. Len(q) + 1
      /\ \A i \in 1 .. Len(q) : Append(q, n)[i] = q[i] /\ q[i] \in V
      /\ Append(q, n)[Len(q) + 1] = n /\ Append(q, n) \in Seq(V \cup {n})
    BY <1>1
<1>3. ASSUME NEW v \in V \cup {n} PROVE \E i \in 1 .. Len(q) + 1 : Append(q, n)[i] = v
    BY <1>2 DEF Lists
<1>4. ASSUME NEW i \in 1 .. Len(q) + 1, NEW j \in 1 .. Len(q) + 1, i < j
      PROVE  Append(q, n)[i] < Append(q, n)[j]
  <2>1. i \in 1 .. Len(q)
      BY <1>2, <1>4
  <2>2. CASE j = Len(q) + 1
      BY <1>2, <2>1, <2>2
  <2>3. CASE j \in 1 .. Len(q)
      BY <1>2, <1>4, <2>1, <2>3 DEF Lists
  <2> QED BY <1>2, <2>2, <2>3
<1> QED BY <1>2, <1>3, <1>4 DEF Lists

LEMMA SeqOver ==
    ASSUME NEW S, NEW T, NEW r \in Seq(S), \A i \in DOMAIN r : r[i] \in T
    PROVE  r \in Seq(T)
<1> DEFINE n == Len(r)
<1>1. n \in Nat /\ DOMAIN r = 1 .. n /\ r \in [1 .. n -> S]
    OBVIOUS
<1> HIDE DEF n
<1>2. r \in [1 .. n -> T]
    BY <1>1
<1> QED BY <1>1, <1>2

LEMMA ListsTail ==
    ASSUME NEW V \in SUBSET Nat, NEW q \in Seq(V), Lists(q, V),
           NEW v \in V, \A w \in V : v <= w
    PROVE  /\ q # << >> /\ Head(q) = v
           /\ Tail(q) \in Seq(V \ {v}) /\ Lists(Tail(q), V \ {v})
<1>1. Len(q) \in Nat /\ DOMAIN q = 1 .. Len(q) /\ \A i \in 1 .. Len(q) : q[i] \in V
    OBVIOUS
<1>2. PICK k \in 1 .. Len(q) : q[k] = v
    BY <1>1 DEF Lists
<1>3. 1 \in 1 .. Len(q) /\ q # << >>
    BY <1>1, <1>2
<1>4. q[1] = v
  <2>1. k # 1 => q[1] < q[k]
      BY <1>1, <1>2, <1>3 DEF Lists
  <2>2. q[1] \in Nat /\ v \in Nat /\ v <= q[1]
      BY <1>1, <1>3
  <2> QED BY <1>2, <2>1, <2>2
<1>5. /\ DOMAIN Tail(q) = 1 .. Len(q) - 1 /\ Len(Tail(q)) = Len(q) - 1 /\ Head(q) = q[1]
      /\ \A i \in 1 .. Len(q) - 1 : Tail(q)[i] = q[i + 1] /\ i + 1 \in 1 .. Len(q)
      /\ Tail(q) \in Seq(V)
    BY <1>1, <1>3
<1>6. ASSUME NEW i \in 1 .. Len(q) - 1 PROVE Tail(q)[i] \in V \ {v}
  <2>1. q[1] < q[i + 1]
      BY <1>1, <1>3, <1>5 DEF Lists
  <2>2. q[i + 1] \in Nat /\ v \in Nat
      BY <1>1, <1>5
  <2> QED BY <1>1, <1>4, <1>5, <2>1, <2>2
<1>7. Tail(q) \in Seq(V \ {v})
  <2>1. \A i \in DOMAIN Tail(q) : Tail(q)[i] \in V \ {v}
      BY <1>5, <1>6
  <2> QED BY <1>5, <2>1, SeqOver
<1>8. ASSUME NEW w \in V \ {v} PROVE \E i \in 1 .. Len(q) - 1 : Tail(q)[i] = w
  <2>1. PICK j \in 1 .. Len(q) : q[j] = w
      BY <1>1 DEF Lists
  <2>2. j # 1
      BY <1>4, <2>1
  <2>3. j - 1 \in 1 .. Len(q) - 1 /\ (j - 1) + 1 = j
      BY <1>1, <2>2
  <2> QED BY <1>5, <2>1, <2>3
<1>9. ASSUME NEW i \in 1 .. Len(q) - 1, NEW j \in 1 .. Len(q) - 1, i < j
      PROVE  Tail(q)[i] < Tail(q)[j]
  <2>1. i + 1 < j + 1
      BY <1>9
  <2> QED BY <1>1, <1>5, <2>1 DEF Lists
<1> QED BY <1>3, <1>4, <1>5, <1>7, <1>8, <1>9 DEF Lists

(* There is one ascending list of a set: where two differ first, the lower *)
(* of the two numbers is missing in the other list.                        *)
LEMMA ListsUnique ==
    ASSUME NEW V \in SUBSET Nat, NEW n \in Nat,
           NEW q \in [1 .. n -> V], Lists(q, V), NEW r \in [1 .. n -> V], Lists(r, V)
    PROVE  q = r
<1> SUFFICES ASSUME q # r PROVE FALSE
    OBVIOUS
<1> DEFINE D == {i \in 1 .. n : q[i] # r[i]}
<1>1. D \subseteq Nat /\ D # {}
    OBVIOUS
<1>2. PICK i \in D : \A j \in D : i <= j
    BY <1>1, FirstExists
<1>3. i \in 1 .. n /\ q[i] # r[i] /\ \A j \in 1 .. n : j < i => q[j] = r[j]
    BY <1>2
<1> HIDE DEF D
<1>4. q[i] \in V /\ r[i] \in V /\ q[i] \in Nat /\ r[i] \in Nat
    BY <1>3
<1>5. ASSUME NEW f \in [1 .. n -> V], Lists(f, V), NEW g \in [1 .. n -> V], Lists(g, V),
             \A j \in 1 .. n : j < i => f[j] = g[j], f[i] < g[i], f[i] \in Nat, g[i] \in Nat
      PROVE  FALSE
  <2>1. PICK j \in 1 .. n : g[j] = f[i]
      BY <1>3, <1>5 DEF Lists
  <2>2. g[j] \in Nat /\ i \in Nat /\ j \in Nat
      BY <1>3, <1>5, <2>1
  <2>3. j < i
    <3>1. i < j => g[i] < g[j]
        BY <1>3, <1>5 DEF Lists
    <3>2. i # j
        BY <1>5, <2>1
    <3> QED BY <1>5, <2>1, <2>2, <3>1, <3>2
  <2>4. f[j] = f[i]
      BY <1>5, <2>1, <2>3
  <2>5. f[j] < f[i]
      BY <1>3, <1>5, <2>3 DEF Lists
  <2> QED BY <1>5, <2>4, <2>5
<1> QED BY <1>3, <1>4, <1>5

LEMMA AscendingIs ==
    ASSUME NEW V \in SUBSET Nat, NEW q \in Seq(V), Lists(q, V)
    PROVE  Ascending(V) = q
<1> DEFINE n == Len(q)
<1>1. n \in Nat /\ q \in [1 .. n -> V]
    OBVIOUS
<1>2. Cardinality(V) = n
  <2>1. \A v \in V : \E i \in 1 .. n : q[i] = v
      BY <1>1 DEF Lists
  <2>2. \A i, j \in 1 .. n : q[i] = q[j] => i = j
    <3>1. ASSUME NEW i \in 1 .. n, NEW j \in 1 .. n, i < j PROVE q[i] # q[j]
      <4>1. q[i] < q[j] /\ q[i] \in Nat /\ q[j] \in Nat
          BY <1>1, <3>1 DEF Lists
      <4> QED BY <4>1
    <3>2. \A i, j \in 1 .. n : i < j \/ j < i \/ i = j
        BY <1>1
    <3> QED BY <3>1, <3>2
  <2> HIDE DEF n
  <2>3. q \in Bijection(1 .. n, V)
      BY <1>1, <2>1, <2>2, Fun_IsBij
  <2>4. ExistsBijection(1 .. n, V)
      BY <2>3, Fun_ExistsBij
  <2> QED BY <1>1, <2>4, FS_CountingElements
<1> HIDE DEF n
<1>3. q \in [1 .. Cardinality(V) -> V] /\ Lists(q, V)
    BY <1>1, <1>2
<1>4. \A r \in [1 .. Cardinality(V) -> V] : Lists(r, V) => r = q
    BY <1>1, <1>2, ListsUnique
<1> QED BY <1>3, <1>4 DEF Ascending

(* The numbers up to m have an ascending list, whichever are taken: the    *)
(* least m that has a set without one cannot be.                           *)
LEMMA ListsExist ==
    ASSUME NEW m \in Nat, NEW V \in SUBSET (1 .. m)
    PROVE  \E q \in Seq(V) : Lists(q, V)
<1> DEFINE Listed(W) == \E q \in Seq(W) : Lists(q, W)
           Bad == {k \in Nat : \E W \in SUBSET (1 .. k) : ~ Listed(W)}
<1>1. ASSUME Bad # {} PROVE FALSE
  <2>1. PICK k \in Bad : \A j \in Bad : k <= j
    <3>1. Bad \subseteq Nat
        OBVIOUS
    <3> HIDE DEF Bad
    <3> QED BY <1>1, <3>1, FirstExists
  <2>2. k \in Nat /\ \A j \in Nat : j < k => \A W \in SUBSET (1 .. j) : Listed(W)
    <3>1. k \in Nat /\ \A j \in Nat : j < k => j \notin Bad
        BY <2>1
    <3> HIDE DEF Listed
    <3> QED BY <3>1
  <2>3. PICK W \in SUBSET (1 .. k) : ~ Listed(W)
      BY <2>1
  <2>4. CASE k = 0
    <3>1. W = {} /\ << >> \in Seq(W) /\ Lists(<< >>, W)
        BY <2>3, <2>4 DEF Lists
    <3> QED BY <2>3, <3>1
  <2>5. CASE k # 0
    <3>1. k - 1 \in Nat /\ k - 1 < k /\ W \ {k} \in SUBSET (1 .. k - 1)
        BY <2>2, <2>3, <2>5
    <3>2. Listed(W \ {k})
        BY <2>2, <3>1
    <3>3. CASE k \notin W
      <4>1. W \ {k} = W
          BY <3>3
      <4> QED BY <2>3, <3>2, <4>1
    <3>4. CASE k \in W
      <4>1. PICK q \in Seq(W \ {k}) : Lists(q, W \ {k})
          BY <3>2
      <4>2. /\ W \ {k} \in SUBSET Nat /\ \A w \in W \ {k} : w < k
            /\ (W \ {k}) \cup {k} = W
          BY <2>2, <3>1, <3>4
      <4>3. Append(q, k) \in Seq((W \ {k}) \cup {k}) /\ Lists(Append(q, k), (W \ {k}) \cup {k})
          BY <2>2, <4>1, <4>2, ListsAppend
      <4> QED BY <2>3, <4>2, <4>3
    <3> QED BY <3>3, <3>4
  <2> QED BY <2>4, <2>5
<1> QED BY <1>1

LEMMA AscendingLists ==
    ASSUME NEW m \in Nat, NEW V \in SUBSET (1 .. m)
    PROVE  Ascending(V) \in Seq(V) /\ Lists(Ascending(V), V)
<1>1. V \in SUBSET Nat
    OBVIOUS
<1> QED BY <1>1, ListsExist, AscendingIs

(* The paths of the versions in q, r being the history of the routes.      *)
PathsOf(q, r) == [i \in DOMAIN q |-> r[q[i]].path]

LEMMA PathsAppend ==
    ASSUME NEW V, NEW q \in Seq(V), NEW n, NEW r, NEW f,
           \A v \in V : r[v].path \in Paths /\ f[v].path = r[v].path, f[n].path \in Paths
    PROVE  PathsOf(Append(q, n), f) = Append(PathsOf(q, r), f[n].path)
<1> DEFINE k == Len(q)
<1>1. /\ k \in Nat /\ DOMAIN q = 1 .. k /\ \A i \in 1 .. k : q[i] \in V
      /\ q \in Seq(V \cup {n}) /\ n \in V \cup {n}
    OBVIOUS
<1>2. /\ DOMAIN Append(q, n) = 1 .. k + 1 /\ Append(q, n)[k + 1] = n
      /\ \A i \in 1 .. k : Append(q, n)[i] = q[i]
    BY <1>1
<1> HIDE DEF k
<1>3. PICK a : a = PathsOf(q, r)
    OBVIOUS
<1>4. a \in Seq(Paths) /\ Len(a) = k /\ \A i \in 1 .. k : a[i] = r[q[i]].path
  <2>1. a \in [1 .. k -> Paths] /\ \A i \in 1 .. k : a[i] = r[q[i]].path
      BY <1>1, <1>3 DEF PathsOf
  <2> QED BY <1>1, <2>1
<1>5. PICK b : b = PathsOf(Append(q, n), f)
    OBVIOUS
<1>6. /\ b = [i \in 1 .. k + 1 |-> f[Append(q, n)[i]].path]
      /\ \A i \in 1 .. k : b[i] = a[i]
      /\ b[k + 1] = f[n].path
    BY <1>1, <1>2, <1>4, <1>5 DEF PathsOf
<1>7. /\ Append(a, f[n].path) = [i \in 1 .. k + 1 |-> Append(a, f[n].path)[i]]
      /\ \A i \in 1 .. k : Append(a, f[n].path)[i] = a[i]
      /\ Append(a, f[n].path)[k + 1] = f[n].path
    BY <1>1, <1>4
<1>8. b = Append(a, f[n].path)
  <2>1. \A i \in 1 .. k + 1 : i \in 1 .. k \/ i = k + 1
      BY <1>1
  <2>2. \A i \in 1 .. k + 1 : b[i] = Append(a, f[n].path)[i]
      BY <1>6, <1>7, <2>1
  <2>3. b = [i \in 1 .. k + 1 |-> b[i]]
      BY <1>6
  <2> QED BY <1>7, <2>2, <2>3
<1> QED BY <1>3, <1>5, <1>8

LEMMA PathsTail ==
    ASSUME NEW V, NEW q \in Seq(V), q # << >>, NEW r, \A v \in V : r[v].path \in Paths
    PROVE  /\ PathsOf(q, r) # << >> /\ Head(PathsOf(q, r)) = r[Head(q)].path
           /\ PathsOf(Tail(q), r) = Tail(PathsOf(q, r))
<1> DEFINE k == Len(q)
<1>1. /\ k \in Nat \ {0} /\ DOMAIN q = 1 .. k /\ \A i \in 1 .. k : q[i] \in V
      /\ Head(q) = q[1] /\ 1 \in 1 .. k
      /\ DOMAIN Tail(q) = 1 .. k - 1
      /\ \A i \in 1 .. k - 1 : Tail(q)[i] = q[i + 1] /\ i + 1 \in 1 .. k
    OBVIOUS
<1> HIDE DEF k
<1>2. PICK a : a = PathsOf(q, r)
    OBVIOUS
<1>3. a \in Seq(Paths) /\ Len(a) = k /\ \A i \in 1 .. k : a[i] = r[q[i]].path
  <2>1. a \in [1 .. k -> Paths] /\ \A i \in 1 .. k : a[i] = r[q[i]].path
      BY <1>1, <1>2 DEF PathsOf
  <2> QED BY <1>1, <2>1
<1>4. a # << >> /\ Head(a) = r[Head(q)].path
    BY <1>1, <1>3
<1>5. PICK b : b = PathsOf(Tail(q), r)
    OBVIOUS
<1>6. /\ b = [i \in 1 .. k - 1 |-> r[Tail(q)[i]].path]
      /\ \A i \in 1 .. k - 1 : b[i] = r[q[i + 1]].path
    BY <1>1, <1>5 DEF PathsOf
<1>7. /\ Tail(a) = [i \in 1 .. k - 1 |-> Tail(a)[i]]
      /\ \A i \in 1 .. k - 1 : Tail(a)[i] = a[i + 1]
  <2>1. /\ Tail(a) \in Seq(Paths) /\ Len(Tail(a)) = k - 1
        /\ \A i \in 1 .. k - 1 : Tail(a)[i] = a[i + 1]
      BY <1>1, <1>3
  <2>2. PICK c \in Seq(Paths) : c = Tail(a) /\ Len(c) = k - 1
      BY <2>1
  <2>3. c = [i \in 1 .. Len(c) |-> c[i]]
      OBVIOUS
  <2> QED BY <2>1, <2>2, <2>3
<1>8. b = Tail(a)
  <2>1. \A i \in 1 .. k - 1 : b[i] = Tail(a)[i]
      BY <1>1, <1>3, <1>6, <1>7
  <2>2. b = [i \in 1 .. k - 1 |-> b[i]]
      BY <1>6
  <2> QED BY <1>7, <2>1, <2>2
<1> QED BY <1>2, <1>4, <1>5, <1>8

-----------------------------------------------------------------------------
(* No version is skipped: the versions of a stream that its ingress switch *)
(* has still to apply are the pending one and those whose ActivationMessage *)
(* is under way.                                                           *)
AllAccounted ==
    \A v \in Versions : Issued(v) =>
        v <= Row(ce, route[v].sid).current \/ v = Row(ce, route[v].sid).next

NoneSkipped ==
    \A v \in Versions :
        /\ Issued(v) /\ ActiveVersion(route[v].sid) < v
        /\ v <= Row(ce, route[v].sid).current
        => Holds(toSwitch[Ingress[route[v].sid]], Activation(route[v].sid, v))

UpdateInv == AllAccounted /\ NoneSkipped

LEMMA HoldsBehind ==
    ASSUME NEW S, NEW q \in Seq(S), q # << >>, NEW m, Holds(q, m), m # Head(q)
    PROVE  Holds(Tail(q), m)
<1>1. /\ Len(q) \in Nat \ {0} /\ DOMAIN q = 1 .. Len(q) /\ Head(q) = q[1]
      /\ DOMAIN Tail(q) = 1 .. Len(q) - 1
      /\ \A i \in 1 .. Len(q) - 1 : Tail(q)[i] = q[i + 1]
    OBVIOUS
<1>2. PICK i \in 1 .. Len(q) : q[i] = m
    BY <1>1 DEF Holds
<1>3. i - 1 \in 1 .. Len(q) - 1 /\ (i - 1) + 1 = i
    BY <1>1, <1>2
<1> QED BY <1>1, <1>2, <1>3 DEF Holds

LEMMA ConsumeAtLeaves ==
    ASSUME TypeOK, NEW sw \in Switches, toSwitch[sw] # << >>, ConsumeAt(sw)
    PROVE  \A x \in Switches : \A m : Holds(toSwitch[x], m) /\ m # Head(toSwitch[sw]) =>
               Holds(toSwitch'[x], m)
<1>1. /\ toSwitch \in [Switches -> Seq(ToSwitchMsg)]
      /\ toSwitch' = [toSwitch EXCEPT ![sw] = Tail(@)]
    BY DEF TypeOK, ConsumeAt
<1>2. /\ toSwitch'[sw] = Tail(toSwitch[sw]) /\ toSwitch[sw] \in Seq(ToSwitchMsg)
      /\ \A x \in Switches \ {sw} : toSwitch'[x] = toSwitch[x]
    BY <1>1
<1> QED BY <1>2, HoldsBehind

(* Steps that issue no version and apply none.                             *)
Unapplied ==
    /\ UNCHANGED << route, ce.OF_match_version_number >>
    /\ \A s \in Streams : ActiveVersion(s)' = ActiveVersion(s)

LEMMA UpdateQuiet ==
    ASSUME OrderInv, UpdateInv, Unapplied,
           \A s \in Streams : Row(ce', s) = Row(ce, s),
           \A x \in Switches, s \in Streams, v \in Versions :
               Holds(toSwitch[x], Activation(s, v)) => Holds(toSwitch'[x], Activation(s, v))
    PROVE  UpdateInv'
<1>1. SUFFICES ASSUME NEW v \in Versions, Issued(v)'
               PROVE  /\ v <= Row(ce', route'[v].sid).current \/ v = Row(ce', route'[v].sid).next
                      /\ /\ ActiveVersion(route[v].sid)' < v
                         /\ v <= Row(ce', route'[v].sid).current
                         => Holds(toSwitch'[Ingress[route'[v].sid]], Activation(route'[v].sid, v))
    BY DEF UpdateInv, AllAccounted, NoneSkipped, Row, Activation
<1>2. PICK s \in Streams : s = route[v].sid
    BY <1>1 DEF OrderInv, RoutesOwned, Unapplied, Issued
<1>3. /\ Issued(v) /\ route'[v].sid = s /\ Row(ce', s) = Row(ce, s)
      /\ ActiveVersion(s)' = ActiveVersion(s)
    BY <1>1, <1>2 DEF Unapplied, Issued
<1>4. ActiveVersion(route[v].sid)' = ActiveVersion(s)'
    BY <1>2, <1>3 DEF Unapplied, ActiveVersion
<1> QED BY <1>2, <1>3, <1>4 DEF UpdateInv, AllAccounted, NoneSkipped

(* An ACK: the stream's current version becomes the pending one, of which  *)
(* the ActivationMessage is sent; no number of the stream is between them. *)
LEMMA UpdateAck ==
    ASSUME OrderInv, UpdateInv, NEW s \in Streams, NEW v \in Versions, AckCounted(s, v)
    PROVE  UpdateInv' /\ Unapplied
<1>1. Unapplied
    BY DEF AckCounted, Unapplied, ActiveVersion
<1>2. SUFFICES ASSUME NEW w \in Versions, Issued(w)'
               PROVE  /\ w <= Row(ce', route'[w].sid).current \/ w = Row(ce', route'[w].sid).next
                      /\ /\ ActiveVersion(route[w].sid)' < w
                         /\ w <= Row(ce', route'[w].sid).current
                         => Holds(toSwitch'[Ingress[route'[w].sid]], Activation(route'[w].sid, w))
    BY <1>1 DEF UpdateInv, AllAccounted, NoneSkipped, Row, Activation
<1>3. PICK t \in Streams : t = route[w].sid
    BY <1>2 DEF OrderInv, RoutesOwned, AckCounted, Issued
<1>4. /\ Issued(w) /\ route'[w].sid = t /\ ActiveVersion(t)' = ActiveVersion(t)
      /\ ActiveVersion(route[w].sid)' = ActiveVersion(t)'
    BY <1>2, <1>3 DEF AckCounted, Issued, ActiveVersion
<1>5. /\ w <= Row(ce, t).current \/ w = Row(ce, t).next
      /\ ActiveVersion(t) < w /\ w <= Row(ce, t).current =>
            Holds(toSwitch[Ingress[t]], Activation(t, w))
    BY <1>3, <1>4 DEF UpdateInv, AllAccounted, NoneSkipped
<1>6. CASE Row(ce', t) = Row(ce, t)
  <2>1. Ingress[t] \in Switches
      OBVIOUS
  <2> QED BY <1>3, <1>4, <1>5, <1>6, <2>1 DEF AckCounted
<1>7. CASE t = s /\ Row(ce', s).current = v /\ Holds(toSwitch'[Ingress[s]], Activation(s, v))
  <2>1. Row(ce, s).next = v /\ Row(ce, s).current < v
      BY DEF AckCounted, OrderInv, RowsOwned
  <2>2. TypeOK /\ w \in Nat /\ v \in Nat /\ Row(ce, s).current \in Nat
      BY Numbers DEF OrderInv, Requests
  <2>3. CASE w = v
      BY <1>3, <1>4, <1>7, <2>2, <2>3
  <2>4. CASE w # v
    <3>1. w <= Row(ce, s).current
        BY <1>5, <1>7, <2>1, <2>4
    <3>2. ActiveVersion(t) < w => Holds(toSwitch'[Ingress[s]], Activation(s, w))
        BY <1>5, <1>7, <3>1 DEF AckCounted
    <3> QED BY <1>3, <1>4, <1>7, <2>1, <2>2, <3>1, <3>2
  <2> QED BY <2>3, <2>4
<1> QED BY <1>1, <1>6, <1>7 DEF AckCounted

(* The ingress switch of s applies v, the first version of s that it has   *)
(* not applied yet.                                                        *)
Applied(s, v) ==
    /\ UNCHANGED << ce, route >>
    /\ Issued(v) /\ route[v].sid = s /\ ActiveVersion(s) < v /\ ActiveVersion(s)' = v
    /\ \A t \in Streams \ {s} : ActiveVersion(t)' = ActiveVersion(t)
    /\ \A w \in Versions :
          Issued(w) /\ route[w].sid = s /\ ActiveVersion(s) < w => v <= w

LEMMA UpdateActivation ==
    ASSUME OrderInv, UpdateInv, NEW sw \in Switches, HandleActivation(sw)
    PROVE  UpdateInv' /\ \E s \in Streams, v \in Versions : Applied(s, v)
<1>0. PICK s \in Streams \cup {0}, v \in Versions :
          TypeOK /\ s = Head(toSwitch[sw]).sid /\ v = Head(toSwitch[sw]).version
    BY MessageTypes DEF HandleActivation, OrderInv, Requests
<1>1. /\ toSwitch[sw] # << >> /\ ConsumeAt(sw) /\ Head(toSwitch[sw]) = Activation(s, v)
      /\ StreamActiveMatchVersionMap' =
             [StreamActiveMatchVersionMap EXCEPT
                 ![sw] = [t \in Streams |-> IF t = s THEN v ELSE @[t]]]
      /\ UNCHANGED << ce, route >>
    BY <1>0, HeadIs DEF HandleActivation, handleMatchVersionMessage, NextAt
<1>2. StreamActiveMatchVersionMap \in [Switches -> [Streams -> Versions]]
    BY <1>0 DEF TypeOK
<1>3. /\ Holds(toSwitch[sw], Activation(s, v))
      /\ \A k : Holds(toSwitch'[sw], k) => Follows(Activation(s, v), k)
      /\ \A x \in Switches : \A m : Holds(toSwitch[x], m) /\ m # Activation(s, v) =>
             Holds(toSwitch'[x], m)
    BY <1>0, <1>1, ConsumeAtFacts, ConsumeAtOrder, ConsumeAtLeaves DEF OrderInv
<1>4. /\ s \in Streams /\ Issued(v) /\ route[v].sid = s /\ sw = Ingress[s]
      /\ ActiveVersion(s) < v /\ v <= Row(ce, s).current
    BY <1>3 DEF OrderInv, ActivationsOwned
<1>5. /\ ActiveVersion(s)' = v
      /\ \A t \in Streams \ {s} : ActiveVersion(t)' = ActiveVersion(t)
    BY <1>1, <1>2, <1>4 DEF ActiveVersion
<1>6. ASSUME NEW w \in Versions, Issued(w), route[w].sid = s, ActiveVersion(s) < w
      PROVE  v <= w
  <2>0. w \in Nat /\ v \in Nat /\ Row(ce, s).current \in Nat /\ Row(ce, s).next \in Nat
      BY <1>0, <1>4, Numbers
  <2>1. CASE w <= Row(ce, s).current
    <3>1. Holds(toSwitch[Ingress[s]], Activation(s, w))
        BY <1>6, <2>1 DEF UpdateInv, NoneSkipped
    <3>2. CASE w = v
        BY <2>0, <3>2
    <3>3. CASE w # v
      <4>1. Activation(s, w) # Activation(s, v)
          BY <3>3, MessagesDiffer
      <4>2. Follows(Activation(s, v), Activation(s, w))
          BY <1>3, <1>4, <3>1, <4>1
      <4> QED BY <2>0, <4>2 DEF Follows, Activation
    <3> QED BY <3>2, <3>3
  <2>2. CASE ~ (w <= Row(ce, s).current)
      BY <1>4, <2>0, <2>2
  <2> QED BY <2>1, <2>2
<1>7. UpdateInv'
  <2>1. SUFFICES ASSUME NEW w \in Versions, Issued(w)
                 PROVE  /\ \/ w <= Row(ce, route[w].sid).current
                           \/ w = Row(ce, route[w].sid).next
                        /\ /\ ActiveVersion(route[w].sid)' < w
                           /\ w <= Row(ce, route[w].sid).current
                           => Holds(toSwitch'[Ingress[route[w].sid]],
                                    Activation(route[w].sid, w))
      BY <1>1 DEF UpdateInv, AllAccounted, NoneSkipped, Row, Activation, Issued, ActiveVersion
  <2>2. PICK t \in Streams : t = route[w].sid
      BY <2>1 DEF OrderInv, RoutesOwned
  <2>3. /\ w <= Row(ce, t).current \/ w = Row(ce, t).next
        /\ ActiveVersion(t) < w /\ w <= Row(ce, t).current =>
              Holds(toSwitch[Ingress[t]], Activation(t, w))
      BY <2>1, <2>2 DEF UpdateInv, AllAccounted, NoneSkipped
  <2>4. ActiveVersion(route[w].sid)' = ActiveVersion(t)'
      BY <1>1, <2>2 DEF ActiveVersion
  <2>5. ASSUME ActiveVersion(t)' < w, w <= Row(ce, t).current
        PROVE  Holds(toSwitch'[Ingress[t]], Activation(t, w))
    <3>1. w \in Nat /\ v \in Nat /\ ActiveVersion(t) \in Nat /\ ActiveVersion(s) \in Nat
        BY <1>0, <1>4, Numbers
    <3>2. ActiveVersion(t) < w /\ ~ (t = s /\ w = v)
        BY <1>4, <1>5, <2>5, <3>1
    <3>3. Activation(t, w) # Activation(s, v)
        BY <3>2, MessagesDiffer
    <3>4. Ingress[t] \in Switches
        OBVIOUS
    <3> QED BY <1>3, <2>3, <2>5, <3>2, <3>3, <3>4
  <2> QED BY <2>2, <2>3, <2>4, <2>5
<1> QED BY <1>1, <1>4, <1>5, <1>6, <1>7 DEF Applied

(* Fresh versions are pending, and were preceded by activated ones only.   *)
LEMMA UpdateAccept ==
    ASSUME OrderInv, UpdateInv, NEW sw \in Switches, NEW s \in Streams, NEW k \in Nat,
           Accepted(sw, s, k)
    PROVE  UpdateInv'
<1>1. /\ TypeOK /\ ce.OF_match_version_number \in Nat \ {0}
      /\ ce'.OF_match_version_number = ce.OF_match_version_number + k
      /\ UNCHANGED StreamActiveMatchVersionMap
    BY DEF OrderInv, Requests, NumberInRange, Accepted, switchVars
<1>2. SUFFICES ASSUME NEW w \in Versions, Issued(w)'
               PROVE  /\ w <= Row(ce', route'[w].sid).current \/ w = Row(ce', route'[w].sid).next
                      /\ /\ ActiveVersion(route[w].sid)' < w
                         /\ w <= Row(ce', route'[w].sid).current
                         => Holds(toSwitch'[Ingress[route'[w].sid]], Activation(route'[w].sid, w))
    BY DEF UpdateInv, AllAccounted, NoneSkipped, Row, Activation
<1>3. w \in Nat /\ (Issued(w) \/ Fresh(w))
    BY <1>1, <1>2, Numbers DEF Issued, Fresh
<1>4. CASE Issued(w)
  <2>1. route'[w] = route[w]
      BY <1>4 DEF Accepted
  <2>2. PICK t \in Streams : t = route[w].sid
      BY <1>4 DEF OrderInv, RoutesOwned
  <2>3. /\ w <= Row(ce, t).current \/ w = Row(ce, t).next
        /\ ActiveVersion(t) < w /\ w <= Row(ce, t).current =>
              Holds(toSwitch[Ingress[t]], Activation(t, w))
      BY <1>4, <2>2 DEF UpdateInv, AllAccounted, NoneSkipped
  <2>4. /\ Row(ce', t).current = Row(ce, t).current
        /\ Row(ce', t).next = Row(ce, t).next \/ Row(ce, t).next = 0
      BY DEF Accepted, Pending, Row
  <2>5. w # 0
      BY <1>1, <1>4 DEF Issued
  <2>6. ActiveVersion(route[w].sid)' = ActiveVersion(t)
      BY <1>1, <2>1, <2>2 DEF ActiveVersion
  <2>7. Ingress[t] \in Switches /\ \A m : Holds(toSwitch[Ingress[t]], m) =>
                                             Holds(toSwitch'[Ingress[t]], m)
      BY DEF Accepted
  <2> QED BY <2>1, <2>2, <2>3, <2>4, <2>5, <2>6, <2>7
<1>5. CASE Fresh(w)
  <2>1. PICK t \in Streams : t = route'[w].sid /\ Row(ce', t).next = w
      BY <1>5 DEF Accepted
  <2>2. Row(ce', t).current = Row(ce, t).current
      BY DEF Accepted
  <2>3. Row(ce, t).current \in Nat /\ Row(ce, t).current < w
    <3>1. Row(ce, t).current \in Nat /\ Row(ce, t).current < ce.OF_match_version_number
        BY <1>1, Numbers DEF OrderInv, RowsOwned, Issued
    <3> QED BY <1>1, <1>3, <1>5, <3>1 DEF Fresh
  <2> QED BY <1>3, <2>1, <2>2, <2>3
<1> QED BY <1>3, <1>4, <1>5

(* Every step keeps the invariant, and issues versions, applies one or     *)
(* does neither: one step of the proof per action.                         *)
LEMMA UpdateStep ==
    ASSUME Orderly, OrderInv, UpdateInv, [Next]_vars
    PROVE  /\ UpdateInv'
           /\ \/ Unapplied
              \/ \E sw \in Switches, s \in Streams, k \in Nat : Accepted(sw, s, k)
              \/ \E s \in Streams, v \in Versions : Applied(s, v)
<1>0. Requests /\ Requests' /\ TypeOK
    BY RequestsStep DEF OrderInv, Requests
<1>1. ASSUME UNCHANGED << ce, route, StreamActiveMatchVersionMap, toSwitch >>
      PROVE  UpdateInv' /\ Unapplied
  <2>1. Unapplied /\ \A s \in Streams : Row(ce', s) = Row(ce, s)
      BY <1>1 DEF Unapplied, ActiveVersion, Row
  <2> QED BY <1>1, <2>1, UpdateQuiet
<1>2. ASSUME NEW s \in Streams, Advertise(s) PROVE UpdateInv' /\ Unapplied
    BY <1>1, <1>2 DEF Advertise, RelayTalkerAdvertise
<1>3. ASSUME NEW sw \in Switches, RejectTalker(sw) PROVE UpdateInv' /\ Unapplied
    BY <1>1, <1>3 DEF RejectTalker, switchVars
<1>4. ASSUME NEW sw \in Switches, AcceptTalker(sw) \/ AcceptAndMove(sw)
      PROVE  UpdateInv' /\ \E s \in Streams, k \in Nat : Accepted(sw, s, k)
  <2>1. PICK s \in Streams, k \in Nat : Accepted(sw, s, k)
      BY <1>0, <1>4, AcceptTalkerFacts, AcceptAndMoveFacts DEF Requests
  <2> QED BY <2>1, UpdateAccept
<1>5. ASSUME NEW sw \in Switches, ReceiveAck(sw) PROVE UpdateInv' /\ Unapplied
  <2>1. PICK s \in Streams, v \in Versions : AckCounted(s, v)
      BY <1>0, <1>5, OrderAck
  <2> QED BY <2>1, UpdateAck
<1>6. ASSUME NEW sw \in Switches, HandleFlowMod(sw) \/ HandleListenerReady(sw)
      PROVE  UpdateInv' /\ Unapplied
  <2>1. /\ toSwitch[sw] # << >> /\ ConsumeAt(sw)
        /\ Head(toSwitch[sw]).type \in {"FlowMod", "ListenerReady"}
        /\ UNCHANGED << ce, route, StreamActiveMatchVersionMap >>
      BY <1>6 DEF HandleFlowMod, handleFlowMod, HandleListenerReady, NextAt, switchVars
  <2>2. \A s, v : Activation(s, v) # Head(toSwitch[sw])
      BY <2>1 DEF Activation
  <2>3. \A x \in Switches, s \in Streams, v \in Versions :
            Holds(toSwitch[x], Activation(s, v)) => Holds(toSwitch'[x], Activation(s, v))
      BY <1>0, <2>1, <2>2, ConsumeAtLeaves
  <2>4. Unapplied /\ \A s \in Streams : Row(ce', s) = Row(ce, s)
      BY <2>1 DEF Unapplied, ActiveVersion, Row
  <2> QED BY <2>3, <2>4, UpdateQuiet
<1>7. ASSUME NEW sw \in Switches, ExpireRule(sw) PROVE UpdateInv' /\ Unapplied
    BY <1>1, <1>7 DEF ExpireRule, AgeEntry
<1>8. ASSUME NEW s \in Observed, SendFrame(s) \/ RelayFrame(s) PROVE UpdateInv' /\ Unapplied
    BY <1>1, <1>8 DEF SendFrame, RelayFrame, switchVars
<1>9. ASSUME UNCHANGED vars PROVE UpdateInv' /\ Unapplied
    BY <1>1, <1>9 DEF vars, switchVars
<1> QED BY <1>2, <1>3, <1>4, <1>5, <1>6, <1>7, <1>8, <1>9, UpdateActivation
        DEF Next, Controller, Agent

LEMMA UpdateInit == Init => UpdateInv
<1> SUFFICES ASSUME Init PROVE UpdateInv
    OBVIOUS
<1>1. \A v : ~ Issued(v)
  <2>1. 1 \in Nat /\ 1 < VersionSpace
      OBVIOUS
  <2>2. ce.OF_match_version_number = 1
      BY <2>1, ModSmall DEF Init, EngineInit
  <2> QED BY <2>2 DEF Issued
<1> QED BY <1>1 DEF UpdateInv, AllAccounted, NoneSkipped

-----------------------------------------------------------------------------
(* The refinement, step by step.                                           *)
LEMMA LaterFacts ==
    ASSUME TypeOK, NumberInRange, NEW s \in Streams
    PROVE  /\ \A v : v \in LaterVersions(s) <=>
                        Issued(v) /\ v \in Versions /\ route[v].sid = s /\ ActiveVersion(s) < v
           /\ LaterVersions(s) \in SUBSET Nat
           /\ \A v \in LaterVersions(s) : route[v].path \in Paths
           /\ Ascending(LaterVersions(s)) \in Seq(LaterVersions(s))
           /\ Lists(Ascending(LaterVersions(s)), LaterVersions(s))
           /\ plannedPaths[s] = PathsOf(Ascending(LaterVersions(s)), route)
<1> DEFINE n == ce.OF_match_version_number
<1>1. n \in Nat \ {0} /\ n - 1 \in Nat /\ LaterVersions(s) \in SUBSET (1 .. n - 1)
    BY DEF NumberInRange, LaterVersions
<1>2. ActiveVersion(s) \in Nat
    BY Numbers
<1>3. \A v : v \in LaterVersions(s) <=>
                Issued(v) /\ v \in Versions /\ route[v].sid = s /\ ActiveVersion(s) < v
    BY <1>1, <1>2 DEF LaterVersions, Issued, NumberInRange, Versions
<1>4. \A v \in LaterVersions(s) : route[v].path \in Paths
    BY <1>3 DEF TypeOK
<1>5. Ascending(LaterVersions(s)) \in Seq(LaterVersions(s))
      /\ Lists(Ascending(LaterVersions(s)), LaterVersions(s))
    BY <1>1, AscendingLists
<1>6. LaterVersions(s) \in SUBSET Nat
    BY <1>1
<1>7. plannedPaths[s] = PathsOf(Ascending(LaterVersions(s)), route)
    BY DEF plannedPaths, PathsOf
<1> QED BY <1>3, <1>4, <1>5, <1>6, <1>7

(* The mapped variables after a step.                                      *)
LEMMA MappedNext ==
    /\ activePath' = [s \in Streams |-> route'[ActiveVersion(s)'].path]
    /\ plannedPaths' = [s \in Streams |-> PathsOf(Ascending(LaterVersions(s)'), route')]
BY DEF activePath, plannedPaths, PathsOf

LEMMA MapUnapplied ==
    ASSUME Unapplied
    PROVE  UNCHANGED << activePath, plannedPaths >>
<1>1. \A s \in Streams : LaterVersions(s)' = LaterVersions(s)
    BY DEF Unapplied, LaterVersions
<1>2. plannedPaths' = [s \in Streams |-> PathsOf(Ascending(LaterVersions(s)), route)]
    BY <1>1, MappedNext DEF Unapplied
<1>3. plannedPaths = [s \in Streams |-> PathsOf(Ascending(LaterVersions(s)), route)]
    BY DEF plannedPaths, PathsOf
<1>4. activePath' = activePath
    BY MappedNext DEF Unapplied, activePath
<1> QED BY <1>2, <1>3, <1>4

(* An ActivationMessage that is applied: the first planned path of the     *)
(* stream takes effect.                                                    *)
LEMMA MapApplied ==
    ASSUME TypeOK, NumberInRange, NEW s \in Streams, NEW v \in Versions, Applied(s, v)
    PROVE  Promise!TakeEffect(s)
<1> DEFINE V == LaterVersions(s)
           q == Ascending(V)
<1>1. /\ V \in SUBSET Nat /\ q \in Seq(V) /\ Lists(q, V)
      /\ \A w \in V : route[w].path \in Paths
      /\ plannedPaths[s] = PathsOf(q, route)
    BY LaterFacts
<1>2. v \in V /\ \A w \in V : v <= w
    BY LaterFacts DEF Applied
<1>3. LaterVersions(s)' = V \ {v}
  <2>1. \A w : w \in LaterVersions(s)' <=>
               w \in 1 .. ce.OF_match_version_number - 1 /\ route[w].sid = s /\ w > v
      BY DEF LaterVersions, Applied
  <2>2. \A w : w \in V <=>
               /\ w \in 1 .. ce.OF_match_version_number - 1 /\ route[w].sid = s
               /\ w > ActiveVersion(s)
      BY DEF LaterVersions
  <2>3. v \in Nat /\ ActiveVersion(s) \in Nat /\ ActiveVersion(s) < v
        /\ ce.OF_match_version_number \in Nat
      BY Numbers DEF Applied, NumberInRange
  <2> HIDE DEF V
  <2>4. ASSUME NEW w PROVE w \in LaterVersions(s)' <=> w \in V \ {v}
    <3>1. w \in V \ {v} => w \in Nat /\ w > v
        BY <1>1, <1>2, <2>3
    <3>2. w \in 1 .. ce.OF_match_version_number - 1 /\ w > v =>
              w > ActiveVersion(s) /\ w # v
        BY <2>3
    <3> QED BY <2>1, <2>2, <3>1, <3>2
  <2> QED BY <2>4
<1>4. \A t \in Streams \ {s} : LaterVersions(t)' = LaterVersions(t)
    BY DEF LaterVersions, Applied
<1> HIDE DEF V, q
<1>5. /\ q # << >> /\ Head(q) = v
      /\ Tail(q) \in Seq(V \ {v}) /\ Lists(Tail(q), V \ {v})
    BY <1>1, <1>2, ListsTail
<1>6. Ascending(V \ {v}) = Tail(q)
  <2>1. V \ {v} \in SUBSET Nat
      BY <1>1
  <2> QED BY <1>5, <2>1, AscendingIs
<1>7. /\ plannedPaths[s] # << >> /\ Head(plannedPaths[s]) = route[v].path
      /\ PathsOf(Tail(q), route) = Tail(plannedPaths[s])
    BY <1>1, <1>5, PathsTail
<1>8. activePath' = [activePath EXCEPT ![s] = Head(plannedPaths[s])]
    BY <1>7, MappedNext DEF activePath, Applied
<1>9. plannedPaths' = [plannedPaths EXCEPT ![s] = Tail(@)]
  <2>1. \A t \in Streams \ {s} : plannedPaths'[t] = plannedPaths[t]
      BY <1>4, MappedNext DEF plannedPaths, PathsOf, Applied
  <2>2. plannedPaths'[s] = Tail(plannedPaths[s])
      BY <1>3, <1>6, <1>7, MappedNext DEF Applied
  <2>3. /\ plannedPaths = [t \in Streams |-> plannedPaths[t]]
        /\ plannedPaths' = [t \in Streams |-> plannedPaths'[t]]
      BY MappedNext DEF plannedPaths
  <2> QED BY <2>1, <2>2, <2>3
<1> QED BY <1>7, <1>8, <1>9 DEF Promise!TakeEffect

(* An accepted talker: the paths of the fresh versions are planned.        *)
LEMMA MapAccepted ==
    ASSUME OrderInv, NEW sw \in Switches, NEW s0 \in Streams, NEW k \in Nat,
           Accepted(sw, s0, k), TypeOK', NumberInRange'
    PROVE  Promise!Plan
<1> DEFINE n == ce.OF_match_version_number
           S == {s \in Streams : /\ Fresh(Row(ce', s).next)
                                 /\ route'[Row(ce', s).next].sid = s}
           path == [s \in S |-> route'[Row(ce', s).next].path]
<1>1. /\ TypeOK /\ NumberInRange /\ n \in Nat \ {0} /\ k >= 1 /\ n + k < VersionSpace
      /\ ce'.OF_match_version_number = n + k
      /\ \A s \in Streams : ActiveVersion(s)' = ActiveVersion(s)
    BY DEF OrderInv, Requests, NumberInRange, Accepted, switchVars, ActiveVersion
<1>2. /\ \A v : Fresh(v) => v \in Versions /\ v \in Nat /\ v >= n
      /\ \A v : Issued(v) => v \in Versions /\ v \in Nat /\ v < n
      /\ \A v : v \in 1 .. n + k - 1 <=> Issued(v) \/ Fresh(v)
    BY <1>1 DEF Issued, Fresh, Versions
<1>3. \A v : Issued(v) => route'[v] = route[v]
    BY <1>2 DEF Accepted
<1>4. \A v : Fresh(v) =>
          /\ route'[v].sid \in S /\ Row(ce', route'[v].sid).next = v
          /\ route'[v].path \in CandidatePaths[route'[v].sid]
    BY <1>2 DEF Accepted
<1>5. S \in (SUBSET Streams) \ {{}}
  <2>1. Fresh(n)
      BY <1>1 DEF Fresh
  <2>2. route'[n].sid \in S /\ S \subseteq Streams
      BY <1>4, <2>1
  <2> QED BY <2>2
<1>6. path \in [S -> UNION {CandidatePaths[s] : s \in Streams}]
  <2>1. ASSUME NEW s \in S
        PROVE  route'[Row(ce', s).next].path \in UNION {CandidatePaths[t] : t \in Streams}
    <3>1. route'[Row(ce', s).next].path \in CandidatePaths[s] /\ s \in Streams
        BY <1>4
    <3> QED BY <3>1
  <2> QED BY <2>1
<1>7. ASSUME NEW s \in Streams PROVE route'[ActiveVersion(s)] = route[ActiveVersion(s)]
  <2>1. ActiveVersion(s) = 0 \/ Issued(ActiveVersion(s))
      BY DEF OrderInv, ActiveOwned
  <2> QED BY <1>3, <2>1 DEF Accepted
<1>8. activePath' = activePath
    BY <1>1, <1>7, MappedNext DEF activePath
<1>9. ASSUME NEW s \in Streams
      PROVE  \A v : v \in LaterVersions(s)' <=>
                        \/ v \in LaterVersions(s)
                        \/ Fresh(v) /\ route'[v].sid = s
  <2>1. \A v : v \in LaterVersions(s)' <=>
               v \in 1 .. n + k - 1 /\ route'[v].sid = s /\ v > ActiveVersion(s)
    <3>1. LaterVersions(s)' = {v \in 1 .. ce'.OF_match_version_number - 1 :
                                  route'[v].sid = s /\ v > ActiveVersion(s)'}
        BY DEF LaterVersions
    <3>2. ce'.OF_match_version_number - 1 = n + k - 1 /\ ActiveVersion(s)' = ActiveVersion(s)
        BY <1>1
    <3> QED BY <3>1, <3>2
  <2>2. \A v : v \in LaterVersions(s) <=> Issued(v) /\ route[v].sid = s /\ v > ActiveVersion(s)
      BY DEF LaterVersions, Issued
  <2>3. \A v : Fresh(v) => v > ActiveVersion(s)
    <3>1. ActiveVersion(s) \in Nat /\ (ActiveVersion(s) = 0 \/ Issued(ActiveVersion(s)))
        BY <1>1, Numbers DEF OrderInv, ActiveOwned
    <3> QED BY <1>1, <1>2, <3>1
  <2> QED BY <1>2, <1>3, <2>1, <2>2, <2>3
<1>10. ASSUME NEW s \in Streams
       PROVE  plannedPaths'[s] = IF s \in S THEN Append(plannedPaths[s], path[s])
                                 ELSE plannedPaths[s]
  <2> DEFINE V == LaterVersions(s)
             q == Ascending(V)
  <2>1. /\ V \in SUBSET Nat /\ q \in Seq(V) /\ Lists(q, V)
        /\ plannedPaths[s] = PathsOf(q, route)
        /\ \A v \in V : Issued(v) /\ route[v].path \in Paths
      BY <1>1, LaterFacts
  <2>2. plannedPaths'[s] = PathsOf(Ascending(LaterVersions(s)'), route')
      BY MappedNext
  <2>3. CASE s \notin S
    <3>1. \A v : ~ (Fresh(v) /\ route'[v].sid = s)
        BY <1>4, <2>3
    <3>2. LaterVersions(s)' = V
        BY <1>9, <3>1
    <3> HIDE DEF V, S
    <3>3. \A i \in DOMAIN q : q[i] \in V /\ route'[q[i]] = route[q[i]]
        BY <1>3, <2>1
    <3> HIDE DEF q
    <3>4. PathsOf(q, route') = PathsOf(q, route)
        BY <3>3 DEF PathsOf
    <3> QED BY <2>1, <2>2, <2>3, <3>2, <3>4 DEF q
  <2>4. CASE s \in S
    <3> DEFINE v == Row(ce', s).next
    <3>1. Fresh(v) /\ route'[v].sid = s /\ \A w : Fresh(w) /\ route'[w].sid = s => w = v
        BY <1>4, <2>4
    <3>2. path[s] = route'[v].path /\ route'[v].path \in Paths
      <4>1. route'[v].path \in CandidatePaths[s]
          BY <1>4, <3>1
      <4> QED BY <2>4, <4>1, CandidatePathsAssumption
    <3> HIDE DEF v
    <3>3. LaterVersions(s)' = V \cup {v}
        BY <1>9, <3>1
    <3> HIDE DEF V, S, path
    <3>4. v \in Nat /\ \A w \in V : w < v
        BY <1>1, <1>2, <2>1, <3>1
    <3> HIDE DEF q
    <3>5. Append(q, v) \in Seq(V \cup {v}) /\ Lists(Append(q, v), V \cup {v})
        BY <2>1, <3>4, ListsAppend
    <3>6. Ascending(V \cup {v}) = Append(q, v)
      <4>1. V \cup {v} \in SUBSET Nat
          BY <2>1, <3>4
      <4> QED BY <3>5, <4>1, AscendingIs
    <3>7. PathsOf(Append(q, v), route') = Append(PathsOf(q, route), route'[v].path)
      <4>1. \A w \in V : route[w].path \in Paths /\ route'[w].path = route[w].path
          BY <1>3, <2>1
      <4>2. PICK r, f : r = route /\ f = route'
          OBVIOUS
      <4>3. /\ q \in Seq(V) /\ f[v].path \in Paths
            /\ \A w \in V : r[w].path \in Paths /\ f[w].path = r[w].path
          BY <2>1, <3>2, <4>1, <4>2
      <4>4. PathsOf(Append(q, v), f) = Append(PathsOf(q, r), f[v].path)
          BY <4>3, PathsAppend
      <4> QED BY <4>2, <4>4
    <3> QED BY <2>1, <2>2, <2>4, <3>2, <3>3, <3>6, <3>7
  <2> QED BY <2>3, <2>4
<1>11. plannedPaths' = [s \in Streams |-> IF s \in S THEN Append(plannedPaths[s], path[s])
                                          ELSE plannedPaths[s]]
  <2>1. plannedPaths' = [s \in Streams |-> plannedPaths'[s]]
      BY MappedNext
  <2> HIDE DEF S, path
  <2> QED BY <1>10, <2>1
<1> HIDE DEF S, path
<1> QED BY <1>5, <1>6, <1>8, <1>11 DEF Promise!Plan

(* Every step of the controller, the channels and the switches plans paths *)
(* for streams, lets the first planned path of one take effect, or does    *)
(* nothing that StreamUpdate sees.                                         *)
LEMMA RefineStep ==
    ASSUME Orderly, OrderInv, UpdateInv, [Next]_vars
    PROVE  [Promise!Next]_(Promise!updateVars)
<1>1. TypeOK /\ NumberInRange /\ TypeOK' /\ NumberInRange'
  <2>1. Requests /\ Requests'
      BY RequestsStep DEF OrderInv
  <2> QED BY <2>1 DEF Requests
<1>2. CASE Unapplied
    BY <1>2, MapUnapplied DEF Promise!updateVars
<1>3. ASSUME NEW sw \in Switches, NEW s \in Streams, NEW k \in Nat, Accepted(sw, s, k)
      PROVE  Promise!Next
    BY <1>1, <1>3, MapAccepted DEF Promise!Next
<1>4. ASSUME NEW s \in Streams, NEW v \in Versions, Applied(s, v)
      PROVE  Promise!Next
    BY <1>1, <1>4, MapApplied DEF Promise!Next
<1> QED BY <1>2, <1>3, <1>4, UpdateStep

LEMMA RefineInit == Init => Promise!Init
<1> SUFFICES ASSUME Init PROVE Promise!Init
    OBVIOUS
<1>1. /\ \A s \in Streams : ActiveVersion(s) = 0
      /\ 0 \in Versions /\ route[0].path = << >>
    BY DEF Init, SwitchInit, ActiveVersion, Versions
<1>2. activePath = [s \in Streams |-> << >>]
    BY <1>1 DEF activePath
<1>3. ce.OF_match_version_number = 1
  <2>1. 1 \in Nat /\ 1 < VersionSpace
      OBVIOUS
  <2> QED BY <2>1, ModSmall DEF Init, EngineInit
<1>4. ASSUME NEW s \in Streams PROVE plannedPaths[s] = << >>
  <2>1. LaterVersions(s) = {}
      BY <1>3 DEF LaterVersions
  <2>2. {} \in SUBSET Nat /\ << >> \in Seq({}) /\ Lists(<< >>, {})
      BY DEF Lists
  <2>3. Ascending({}) = << >>
      BY <2>2, AscendingIs
  <2>4. PathsOf(<< >>, route) = << >>
      BY DEF PathsOf
  <2>5. plannedPaths[s] = PathsOf(Ascending(LaterVersions(s)), route)
      BY DEF plannedPaths, PathsOf
  <2> QED BY <2>1, <2>3, <2>4, <2>5
<1>5. plannedPaths = [s \in Streams |-> << >>]
  <2>1. plannedPaths = [s \in Streams |-> plannedPaths[s]]
      BY DEF plannedPaths
  <2> QED BY <1>4, <2>1
<1> QED BY <1>2, <1>5 DEF Promise!Init

(* PathReconfig implements the ordered update of StreamUpdate: whatever    *)
(* the interleaving of requests, rules, ACKs and activations, every stream *)
(* runs on one path and its planned paths take effect in the order they    *)
(* were planned, none skipped, none twice and none of another stream       *)
(* (ConfigurationEngine.cc, Edge_OF_RelayUnit.cc).                         *)
THEOREM ImplementsInOrder ==
    ASSUME Orderly
    PROVE  Spec => Promise!InOrderSpec
<1>1. Init => OrderInv /\ UpdateInv /\ Promise!Init
    BY OrderInit, UpdateInit, RefineInit
<1>2. OrderInv /\ UpdateInv /\ [Next]_vars => OrderInv' /\ UpdateInv'
    BY OrderStep, UpdateStep
<1>3. OrderInv /\ UpdateInv /\ [Next]_vars => [Promise!Next]_(Promise!updateVars)
    BY RefineStep
<1> QED BY <1>1, <1>2, <1>3, PTL DEF Spec, Promise!InOrderSpec
=============================================================================
