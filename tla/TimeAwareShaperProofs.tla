----------------------- MODULE TimeAwareShaperProofs -----------------------
(* The gates and the selection of one port, for every control list, every  *)
(* number of classes and every length of the period.                       *)
EXTENDS TimeAwareShaper, WellFoundedInduction, TLAPS

LEMMA Constants ==
    /\ numPCP \in Nat \ {0} /\ cycle_ticks \in Nat \ {0} /\ FrameTicks \in Nat \ {0}
    /\ MaxQueued \in Nat \ {0} /\ MaxConfigs \in Nat \ {0}
BY ShaperAssumption

LEMMA ListFacts ==
    ASSUME NEW list \in Lists
    PROVE  /\ Len(list) \in Nat \ {0}
           /\ \A k \in 1 .. Len(list) : /\ list[k].open \subseteq Classes
                                         /\ list[k].time \in 0 .. cycle_ticks - 1
           /\ \A k \in 1 .. Len(list) - 1 : list[k].time < list[k + 1].time
<1>1. /\ list \in Seq([open : SUBSET Classes, time : 0 .. cycle_ticks - 1]) /\ list # << >>
      /\ \A k \in 1 .. Len(list) - 1 : list[k].time < list[k + 1].time
    BY ShaperAssumption
<1>2. Len(list) \in Nat \ {0}
    BY <1>1
<1> DEFINE Row == [open : SUBSET Classes, time : 0 .. cycle_ticks - 1]
<1>3. \A k \in 1 .. Len(list) : list[k] \in Row
  <2>1. list \in Seq(Row)
      BY <1>1
  <2> HIDE DEF Row
  <2> QED BY <2>1
<1> QED BY <1>1, <1>2, <1>3

(* What is known of the list in force: the row that is taken next, its     *)
(* predecessor, and for how long a row lasts.                              *)
Rows == 1 .. Len(gateControlList)
TimeOf(k) == gateControlList[k].time
Before == PrecedingElement(gateControlList, gateControlElement)
Lasts(k) ==
    (TimeOf(NextElement(gateControlList, k)) - TimeOf(k) + cycle_ticks) % cycle_ticks

Current == {e \in events : IsCurrent(e)}

(* The row that is taken next is the first that lies ahead.                *)
NextIsAhead ==
    \/ /\ TimeOf(gateControlElement) >= ticks
       /\ gateControlElement > 1 => TimeOf(gateControlElement - 1) <= ticks
    \/ /\ gateControlElement = 1 /\ TimeOf(1) < ticks
       /\ TimeOf(Len(gateControlList)) <= ticks

(* The newest list has one event, for that row; only a list of one row,    *)
(* once read, has none.                                                    *)
TimerInv ==
    /\ \A e \in Current : e.left = Distance(TimeOf(gateControlElement))
    /\ Current = {} => Len(gateControlList) = 1
    /\ Current # {} => NextIsAhead

(* Until the event, the gates stand as the row before it says; only a list *)
(* that was set at this very moment may find them otherwise.               *)
GatesInv ==
    \/ transmissionGate = gateControlList[Before].open
    \/ /\ Current # {} /\ TimeOf(gateControlElement) = ticks /\ sinceLoad = 0

(* A frame on the wire that the row in force would not have let go started *)
(* before the list was set, or when that row began - but not if the row is *)
(* guarded.                                                                *)
WireInv ==
    \/ Len(gateControlList) = 1
    \/ sending \in gateControlList[Before].open \cup {0}
    \/ left + sinceLoad <= FrameTicks
    \/ /\ left + Lasts(Before) <= FrameTicks + Distance(TimeOf(gateControlElement))
       /\ ~ Guarded(Before)

(* The MAC waits only while nothing is on the wire.                        *)
ShaperInv == ShaperTypeOK /\ TimerInv /\ GatesInv /\ WireInv /\ NoEligibleFrameWaits

-----------------------------------------------------------------------------
(* Arithmetic and finite ranges.                                           *)
LEMMA LeastExists ==
    ASSUME NEW T, T \subseteq Nat, T # {}
    PROVE  \E x \in T : \A y \in T : x <= y
<1> DEFINE R == OpToRel(<, Nat)
<1>1. IsWellFoundedOn(R, Nat)
    BY NatLessThanWellFounded
<1>2. \A x, y \in Nat : y < x => << y, x >> \in R
    BY DEF OpToRel
<1> HIDE DEF R
<1>3. PICK x \in T : \A y \in T : << y, x >> \notin R
    BY <1>1, WFMin
<1>4. \A y \in T : ~ (y < x)
    BY <1>2, <1>3
<1> QED BY <1>3, <1>4

LEMMA RangeMin ==
    ASSUME NEW b \in Nat, NEW T, T \subseteq 1 .. b, T # {}
    PROVE  Min(T) \in T /\ \A y \in T : Min(T) <= y
<1>1. T \subseteq Nat
    OBVIOUS
<1>2. \E x \in T : \A y \in T : x <= y
    BY <1>1, LeastExists
<1> QED BY <1>2 DEF Min

LEMMA RangeMax ==
    ASSUME NEW b \in Nat, NEW T, T \subseteq 1 .. b, T # {}
    PROVE  Max(T) \in T /\ \A y \in T : Max(T) >= y
<1> DEFINE R == {b - x : x \in T}
<1>1. \A x \in T : x \in Int /\ b - x \in Nat
    OBVIOUS
<1>2. R \subseteq Nat /\ R # {}
    BY <1>1
<1> HIDE DEF R
<1>3. PICK r \in R : \A y \in R : r <= y
    BY <1>2, LeastExists
<1>4. PICK x \in T : r = b - x
    BY <1>3 DEF R
<1>5. \A y \in T : b - x <= b - y
    BY <1>3, <1>4 DEF R
<1>6. \A y \in T : x >= y
    BY <1>1, <1>5
<1>7. \E z \in T : \A y \in T : z >= y
    BY <1>6
<1> QED BY <1>7 DEF Max

LEMMA ModSmall ==
    ASSUME NEW m \in Nat, NEW k \in Nat, m < k
    PROVE  m % k = m /\ (m + k) % k = m
<1>1. k > 0 /\ m = k * 0 + m /\ m + k = k * 1 + m
    OBVIOUS
<1> QED BY <1>1

LEMMA NextTick ==
    ASSUME NEW t \in 0 .. cycle_ticks - 1
    PROVE  (t + 1) % cycle_ticks = IF t + 1 = cycle_ticks THEN 0 ELSE t + 1
<1>1. CASE t + 1 = cycle_ticks
  <2>1. 0 % cycle_ticks = 0 /\ (0 + cycle_ticks) % cycle_ticks = 0
      BY Constants, ModSmall
  <2> QED BY <1>1, <2>1
<1>2. CASE t + 1 # cycle_ticks
  <2>1. t + 1 \in Nat /\ t + 1 < cycle_ticks
      BY <1>2, Constants
  <2> QED BY <1>2, <2>1, Constants, ModSmall
<1> QED BY <1>1, <1>2

LEMMA Around ==
    ASSUME NEW t \in 0 .. cycle_ticks - 1, NEW u \in 0 .. cycle_ticks - 1
    PROVE  (t - u + cycle_ticks) % cycle_ticks = IF t < u THEN t - u + cycle_ticks ELSE t - u
<1>1. CASE t < u
  <2>1. t - u + cycle_ticks \in Nat /\ t - u + cycle_ticks < cycle_ticks
      BY <1>1, Constants
  <2> QED BY <1>1, <2>1, Constants, ModSmall
<1>2. CASE ~ (t < u)
  <2>1. t - u \in Nat /\ t - u < cycle_ticks
      BY <1>2, Constants
  <2> QED BY <1>2, <2>1, Constants, ModSmall
<1> QED BY <1>1, <1>2

(* The rows of a list are in the order of their times.                     *)
LEMMA RowsInOrder ==
    ASSUME NEW list \in Lists, NEW i \in 1 .. Len(list), NEW j \in 1 .. Len(list), i < j
    PROVE  list[i].time < list[j].time
<1>1. /\ Len(list) \in Nat
      /\ \A k \in 1 .. Len(list) : list[k].time \in Int
      /\ \A k \in 1 .. Len(list) - 1 : list[k].time < list[k + 1].time
    BY ListFacts
<1> DEFINE T == {k \in 1 .. Len(list) : i < k /\ ~ (list[i].time < list[k].time)}
<1>2. SUFFICES ASSUME T # {} PROVE FALSE
    OBVIOUS
<1>3. \A k : k \in T <=> k \in 1 .. Len(list) /\ i < k /\ ~ (list[i].time < list[k].time)
    OBVIOUS
<1> HIDE DEF T
<1>4. PICK k \in T : \A y \in T : k <= y
  <2>1. T \subseteq Nat
      BY <1>1, <1>3
  <2> QED BY <1>2, <2>1, LeastExists
<1>5. k - 1 \in 1 .. Len(list) - 1 /\ k - 1 \in 1 .. Len(list) /\ i <= k - 1 /\ (k - 1) + 1 = k
    BY <1>1, <1>3, <1>4
<1>6. list[k - 1].time < list[k].time
    BY <1>1, <1>5
<1>7. k - 1 \notin T
    BY <1>1, <1>3, <1>4
<1>8. i = k - 1 \/ list[i].time < list[k - 1].time
    BY <1>3, <1>5, <1>7
<1> QED BY <1>1, <1>3, <1>4, <1>5, <1>6, <1>8

-----------------------------------------------------------------------------
LEMMA DistanceFacts ==
    ASSUME ticks \in 0 .. cycle_ticks - 1, NEW time \in 0 .. cycle_ticks - 1
    PROVE  Distance(time) \in 0 .. cycle_ticks - 1 /\ (Distance(time) = 0 <=> time = ticks)
BY Constants DEF Distance

(* The row that is read first: the first that lies ahead, or the first of  *)
(* the list when all have passed.                                          *)
LEMMA FirstFacts ==
    ASSUME ticks \in 0 .. cycle_ticks - 1, NEW list \in Lists, NEW first,
           first = FirstElement(list)
    PROVE  /\ first \in 1 .. Len(list)
           /\ \/ list[first].time >= ticks /\ (first > 1 => list[first - 1].time < ticks)
              \/ first = 1 /\ list[1].time < ticks /\ list[Len(list)].time < ticks
<1> DEFINE ahead == {k \in 1 .. Len(list) : list[k].time >= ticks}
<1>1. /\ Len(list) \in Nat \ {0}
      /\ \A k \in 1 .. Len(list) : list[k].time \in 0 .. cycle_ticks - 1
    BY ListFacts
<1>2. CASE ahead = {}
    BY <1>1, <1>2, Constants DEF FirstElement
<1>3. CASE ahead # {}
  <2>1. first = Min(ahead)
      BY <1>3 DEF FirstElement
  <2>2. first \in ahead /\ \A y \in ahead : first <= y
      BY <1>1, <1>3, <2>1, RangeMin
  <2>3. first > 1 => first - 1 \notin ahead /\ first - 1 \in 1 .. Len(list)
      BY <1>1, <2>2
  <2> QED BY <1>1, <2>2, <2>3, Constants
<1> QED BY <1>2, <1>3

LEMMA ElementFacts ==
    ASSUME NEW list \in Lists, NEW k \in 1 .. Len(list)
    PROVE  /\ NextElement(list, k) \in 1 .. Len(list)
           /\ PrecedingElement(list, k) \in 1 .. Len(list)
           /\ PrecedingElement(list, NextElement(list, k)) = k
           /\ NextElement(list, PrecedingElement(list, k)) = k
           /\ Len(list) > 1 => list[NextElement(list, k)].time # list[k].time
<1>1. Len(list) \in Nat \ {0}
    BY ListFacts
<1>2. Len(list) > 1 => list[NextElement(list, k)].time # list[k].time
  <2>1. \A j \in 1 .. Len(list) : list[j].time \in Int
      BY ListFacts
  <2>2. CASE k = Len(list) /\ Len(list) > 1
    <3>1. list[1].time < list[k].time
        BY <1>1, <2>2, RowsInOrder
    <3> QED BY <1>1, <2>1, <2>2, <3>1 DEF NextElement
  <2>3. CASE k # Len(list)
    <3>1. list[k].time < list[k + 1].time /\ k + 1 \in 1 .. Len(list)
        BY <1>1, <2>3, ListFacts
    <3> QED BY <2>1, <2>3, <3>1 DEF NextElement
  <2> QED BY <2>2, <2>3
<1> QED BY <1>1, <1>2 DEF NextElement, PrecedingElement

(* Between two events the row before the next one is the row in force.     *)
LEMMA BeforeIsInForce ==
    ASSUME ShaperTypeOK, NextIsAhead, TimeOf(gateControlElement) # ticks
    PROVE  RowInForce = Before
<1> DEFINE list == gateControlList
           k == gateControlElement
           begun == {j \in 1 .. Len(list) : list[j].time <= ticks}
<1>1. /\ list \in Lists /\ k \in 1 .. Len(list) /\ ticks \in Int
      /\ Len(list) \in Nat \ {0} /\ \A j \in 1 .. Len(list) : list[j].time \in Int
      /\ TimeOf(k) = list[k].time
    BY ListFacts DEF ShaperTypeOK, TimeOf
<1>2. RowInForce = IF begun = {} THEN Len(list) ELSE Max(begun)
    BY DEF RowInForce
<1>3. begun # {} => Max(begun) \in begun /\ \A j \in begun : Max(begun) >= j
    BY <1>1, RangeMax
<1> DEFINE last == Max(begun)
<1> HIDE DEF last
<1>4. CASE TimeOf(k) > ticks
  <2>1. \A j \in 1 .. Len(list) : j >= k => list[j].time > ticks
    <3>1. SUFFICES ASSUME NEW j \in 1 .. Len(list), j > k PROVE list[j].time > ticks
        BY <1>1, <1>4
    <3>2. list[k].time < list[j].time
        BY <1>1, <3>1, RowsInOrder
    <3> QED BY <1>1, <1>4, <3>2
  <2>2. \A j \in begun : j < k
      BY <1>1, <2>1
  <2>3. CASE k = 1
    <3>1. begun = {}
        BY <1>1, <2>2, <2>3
    <3> QED BY <1>2, <2>3, <3>1 DEF Before, PrecedingElement
  <2>4. CASE k # 1
    <3>1. k - 1 \in begun
        BY <1>1, <1>4, <2>4 DEF NextIsAhead, TimeOf
    <3>2. last \in begun /\ last >= k - 1 /\ last < k
        BY <1>3, <2>2, <3>1 DEF last
    <3>3. last = k - 1
        BY <1>1, <3>2
    <3> QED BY <1>2, <2>4, <3>1, <3>3 DEF Before, PrecedingElement, last
  <2> QED BY <2>3, <2>4
<1>5. CASE k = 1 /\ TimeOf(1) < ticks /\ TimeOf(Len(list)) <= ticks
  <2>1. Len(list) \in begun
      BY <1>1, <1>5 DEF TimeOf
  <2>2. last \in 1 .. Len(list) /\ last >= Len(list)
      BY <1>3, <2>1 DEF last
  <2>3. last = Len(list)
      BY <1>1, <2>2
  <2> QED BY <1>2, <1>5, <2>1, <2>3 DEF Before, PrecedingElement, last
<1> QED BY <1>1, <1>4, <1>5 DEF NextIsAhead

-----------------------------------------------------------------------------
(* The selection: the frame that goes is of an open class.                 *)
LEMMA SelectFacts ==
    ASSUME ShaperTypeOK, NEW requested \in 0 .. 1, selectFrame(requested)
    PROVE  \/ /\ requested = 1 /\ framesRequested' = 0
              /\ queue' \in [Classes -> 0 .. MaxQueued]
              /\ sending' \in transmissionGate /\ sending' \in Classes
              /\ left' \in 1 .. FrameTicks
           \/ /\ requested = 0 \/ Eligible = {}
              /\ framesRequested' = requested /\ UNCHANGED << queue, sending, left >>
<1>1. CASE requested > 0 /\ Eligible # {}
  <2> DEFINE i == Max(Eligible)
  <2>1. i \in Eligible
      BY <1>1, Constants, RangeMax DEF Eligible, Classes
  <2>2. /\ queue' = [queue EXCEPT ![i] = @ - 1]
        /\ framesRequested' = requested - 1
        /\ sending' = i
        /\ left' \in 1 .. FrameTicks
      BY <1>1 DEF selectFrame
  <2>3. queue \in [Classes -> 0 .. MaxQueued] /\ queue[i] > 0 /\ i \in Classes
        /\ i \in transmissionGate
      BY <2>1 DEF Eligible, ShaperTypeOK
  <2> HIDE DEF i
  <2>4. queue' \in [Classes -> 0 .. MaxQueued]
      BY <2>2, <2>3, Constants
  <2> QED BY <1>1, <2>2, <2>3, <2>4
<1>2. CASE ~ (requested > 0 /\ Eligible # {})
    BY <1>2 DEF selectFrame
<1> QED BY <1>1, <1>2

LEMMA ShaperTypeInit == Init => ShaperTypeOK
<1> SUFFICES ASSUME Init PROVE ShaperTypeOK
    OBVIOUS
<1> DEFINE first == FirstElement(gateControlList)
<1>1. /\ ticks = 0 /\ configNo = 1 /\ sinceLoad = 0 /\ gateControlList \in Lists
      /\ gateControlElement = first
      /\ events = {EventFor(gateControlList, first, 1)}
      /\ transmissionGate = IF gateControlList[first].time = 0 THEN Classes
                            ELSE gateControlList[PrecedingElement(gateControlList, first)].open
    BY DEF Init
<1>2. ticks \in 0 .. cycle_ticks - 1 /\ 1 \in 1 .. MaxConfigs /\ 0 \in 0 .. FrameTicks
    BY <1>1, Constants
<1>3. first \in 1 .. Len(gateControlList)
    BY <1>1, <1>2, FirstFacts
<1> HIDE DEF first
<1>4. Distance(gateControlList[first].time) \in 0 .. cycle_ticks - 1
    BY <1>1, <1>2, <1>3, ListFacts, DistanceFacts
<1>5. events \subseteq [config : 1 .. configNo, left : 0 .. cycle_ticks - 1]
    BY <1>1, <1>4 DEF EventFor
<1>6. transmissionGate \subseteq Classes
    BY <1>1, <1>3, ElementFacts, ListFacts
<1>7. queue \in [Classes -> 0 .. MaxQueued]
    BY Constants DEF Init
<1>8. /\ framesRequested \in 0 .. 1 /\ selfMessage \in BOOLEAN
      /\ sending \in 0 .. numPCP /\ left \in 0 .. FrameTicks /\ sending = 0 /\ left = 0
  <2>1. framesRequested = 0 /\ sending = 0 /\ left = 0
      BY DEF Init
  <2>2. selfMessage \in BOOLEAN
      BY Zenon DEF Init
  <2>3. 0 \in 0 .. 1 /\ 0 \in 0 .. numPCP /\ 0 \in 0 .. FrameTicks
      BY Constants
  <2> QED BY <2>1, <2>2, <2>3
<1>9. gateControlElement \in 1 .. Len(gateControlList) /\ configNo \in 1 .. MaxConfigs
      /\ sinceLoad \in 0 .. FrameTicks
    BY <1>1, <1>2, <1>3
<1> QED BY <1>1, <1>2, <1>5, <1>6, <1>7, <1>8, <1>9 DEF ShaperTypeOK

(* The parts of the type that the list, the timer and the frames change.   *)
ListType ==
    /\ gateControlList \in Lists /\ gateControlElement \in 1 .. Len(gateControlList)
    /\ configNo \in 1 .. MaxConfigs /\ sinceLoad \in 0 .. FrameTicks
    /\ events \subseteq [config : 1 .. configNo, left : 0 .. cycle_ticks - 1]
    /\ transmissionGate \subseteq Classes /\ selfMessage \in BOOLEAN

MacType ==
    /\ queue \in [Classes -> 0 .. MaxQueued]
    /\ framesRequested \in 0 .. 1
    /\ sending \in 0 .. numPCP /\ left \in 0 .. FrameTicks /\ (sending = 0 <=> left = 0)

LEMMA TypeParts == ShaperTypeOK <=> ListType /\ MacType /\ ticks \in 0 .. cycle_ticks - 1
BY DEF ShaperTypeOK, ListType, MacType

LEMMA PropagateType ==
    ASSUME ShaperTypeOK, NEW open \in SUBSET Classes, propagate(open)
    PROVE  transmissionGate' \subseteq Classes /\ selfMessage' \in BOOLEAN
BY DEF propagate

(* The gates change and the selection is told: no frame is left waiting.   *)
LEMMA PropagateTells ==
    ASSUME NoEligibleFrameWaits, NEW open, propagate(open), UNCHANGED macVars
    PROVE  NoEligibleFrameWaits'
BY DEF NoEligibleFrameWaits, Eligible, propagate, macVars

(* Loading a list: the row that is read first, its two events, the gates.  *)
LEMMA LoadStep ==
    ASSUME ShaperInv, setGateControlList
    PROVE  ShaperInv'
<1>1. PICK list \in Lists : Load(list)
    BY DEF setGateControlList
<1>2. PICK first : first = FirstElement(list)
    OBVIOUS
<1>3. PICK c : c = configNo
    OBVIOUS
<1>4. PICK d : d = Distance(list[first].time)
    OBVIOUS
<1>5. /\ gateControlList' = list /\ gateControlElement' = first
      /\ configNo' = c + 2 /\ sinceLoad' = 0
      /\ events' = events \cup {[config |-> c + 1, left |-> d], [config |-> c + 2, left |-> d]}
      /\ \/ list[first].time = ticks /\ UNCHANGED << transmissionGate, selfMessage >>
         \/ list[first].time # ticks /\ propagate(list[PrecedingElement(list, first)].open)
    BY <1>1, <1>2, <1>3, <1>4 DEF Load, EventFor
<1>6. c \in 1 .. MaxConfigs /\ c + 2 \in 1 .. MaxConfigs /\ ticks' = ticks
      /\ UNCHANGED macVars /\ ticks \in 0 .. cycle_ticks - 1
      /\ ShaperTypeOK /\ NoEligibleFrameWaits
    BY <1>3, Constants DEF setGateControlList, ShaperInv, ShaperTypeOK
<1>7. /\ first \in 1 .. Len(list)
      /\ \/ list[first].time >= ticks /\ (first > 1 => list[first - 1].time < ticks)
         \/ first = 1 /\ list[1].time < ticks /\ list[Len(list)].time < ticks
    BY <1>2, <1>6, FirstFacts
<1>8. /\ \A j \in 1 .. Len(list) : list[j].time \in 0 .. cycle_ticks - 1
                                      /\ list[j].open \subseteq Classes
      /\ Len(list) \in Nat \ {0} /\ PrecedingElement(list, first) \in 1 .. Len(list)
    BY <1>7, ListFacts, ElementFacts
<1>9. d \in 0 .. cycle_ticks - 1
    BY <1>4, <1>6, <1>7, <1>8, DistanceFacts
<1>10. /\ events \subseteq [config : 1 .. c, left : 0 .. cycle_ticks - 1]
       /\ transmissionGate \subseteq Classes /\ selfMessage \in BOOLEAN
       /\ left \in 0 .. FrameTicks
    BY <1>3 DEF ShaperInv, ShaperTypeOK
<1>11. ShaperTypeOK'
  <2>1. ListType'
    <3>1. events' \subseteq [config : 1 .. configNo', left : 0 .. cycle_ticks - 1]
        BY <1>5, <1>6, <1>9, <1>10
    <3>2. transmissionGate' \subseteq Classes /\ selfMessage' \in BOOLEAN
        BY <1>5, <1>6, <1>8, <1>10, PropagateType
    <3>3. sinceLoad' \in 0 .. FrameTicks /\ configNo' \in 1 .. MaxConfigs
        BY <1>5, <1>6, Constants
    <3> QED BY <1>5, <1>7, <3>1, <3>2, <3>3 DEF ListType
  <2>2. MacType'
    <3>1. MacType
        BY <1>6, TypeParts
    <3> QED BY <1>6, <3>1 DEF MacType, macVars
  <2> QED BY <1>6, <2>1, <2>2, TypeParts DEF ShaperTypeOK, ListType, MacType
<1>12. Current' = {[config |-> c + 2, left |-> d]}
  <2>1. \A e \in events : e.config # c + 2
      BY <1>6, <1>10
  <2> QED BY <1>5, <1>6, <2>1 DEF Current, IsCurrent
<1>13. TimerInv'
  <2>1. Distance(TimeOf(gateControlElement))' = d
      BY <1>4, <1>5, <1>6 DEF Distance, TimeOf
  <2>2. \A e \in Current' : e.left = d
      BY <1>12
  <2>3. NextIsAhead'
      BY <1>5, <1>6, <1>7, <1>8 DEF NextIsAhead, TimeOf
  <2> QED BY <1>12, <2>1, <2>2, <2>3 DEF TimerInv
<1>14. GatesInv'
  <2>1. CASE list[first].time = ticks
      BY <1>5, <1>6, <1>12, <2>1 DEF GatesInv, TimeOf
  <2>2. CASE propagate(list[PrecedingElement(list, first)].open)
      BY <1>5, <2>2 DEF GatesInv, Before, propagate
  <2> QED BY <1>5, <2>1, <2>2
<1>15. WireInv'
  <2>1. left' + sinceLoad' <= FrameTicks
      BY <1>5, <1>6, <1>10, Constants DEF macVars
  <2> QED BY <2>1 DEF WireInv
<1>16. NoEligibleFrameWaits'
    BY <1>5, <1>6, PropagateTells DEF NoEligibleFrameWaits, Eligible, macVars
<1> QED BY <1>11, <1>13, <1>14, <1>15, <1>16 DEF ShaperInv

(* The timer's event: the gates of the row are set and the next row waits  *)
(* for its time, or an event of an earlier list is thrown away.            *)
LEMMA GateEventStep ==
    ASSUME ShaperInv, GateEvent
    PROVE  ShaperInv'
<1>1. PICK e \in Due :
        /\ IF IsCurrent(e)
           THEN /\ propagate(gateControlList[gateControlElement].open)
                /\ IF Len(gateControlList) > 1
                   THEN /\ gateControlElement' = NextElement(gateControlList, gateControlElement)
                        /\ events' = (events \ {e})
                               \cup {EventFor(gateControlList,
                                              NextElement(gateControlList, gateControlElement),
                                              configNo)}
                   ELSE events' = events \ {e} /\ UNCHANGED gateControlElement
           ELSE /\ events' = events \ {e}
                /\ UNCHANGED << gateControlElement, transmissionGate, selfMessage >>
        /\ UNCHANGED << ticks, gateControlList, configNo, sinceLoad, macVars >>
    BY DEF GateEvent
<1>2. PICK list, k, c : list = gateControlList /\ k = gateControlElement /\ c = configNo
    OBVIOUS
<1>3. /\ list \in Lists /\ k \in 1 .. Len(list) /\ ticks \in 0 .. cycle_ticks - 1
      /\ c \in 1 .. MaxConfigs /\ sinceLoad \in 0 .. FrameTicks
      /\ events \subseteq [config : 1 .. c, left : 0 .. cycle_ticks - 1]
      /\ transmissionGate \subseteq Classes /\ selfMessage \in BOOLEAN
      /\ left \in 0 .. FrameTicks /\ (sending = 0 <=> left = 0)
      /\ ShaperTypeOK /\ MacType /\ NoEligibleFrameWaits
    BY <1>2, TypeParts DEF ShaperInv, ShaperTypeOK
<1>4. /\ e \in events /\ e.left = 0
      /\ ticks' = ticks /\ gateControlList' = list /\ configNo' = c /\ sinceLoad' = sinceLoad
      /\ UNCHANGED macVars
    BY <1>1, <1>2 DEF Due
<1>5. /\ \A j \in 1 .. Len(list) : list[j].time \in 0 .. cycle_ticks - 1
                                      /\ list[j].open \subseteq Classes
      /\ Len(list) \in Nat \ {0}
    BY <1>3, ListFacts
<1>6. MacType'
    BY <1>3, <1>4 DEF MacType, macVars
<1>7. CASE ~ IsCurrent(e)
  <2>1. events' = events \ {e} /\ gateControlElement' = k
        /\ UNCHANGED << transmissionGate, selfMessage >>
      BY <1>1, <1>2, <1>7
  <2>2. Current' = Current
      BY <1>2, <1>4, <1>7, <2>1 DEF Current, IsCurrent
  <2>3. ShaperTypeOK'
    <3>1. ListType'
        BY <1>3, <1>4, <2>1 DEF ListType
    <3> QED BY <1>3, <1>4, <1>6, <3>1 DEF ShaperTypeOK, ListType, MacType
  <2>4. TimerInv'
      BY <1>2, <1>4, <2>1, <2>2 DEF ShaperInv, TimerInv, NextIsAhead, Distance, TimeOf
  <2>5. GatesInv' /\ WireInv'
      BY <1>2, <1>4, <2>1, <2>2
         DEF ShaperInv, GatesInv, WireInv, Before, Lasts, Guarded, Distance, TimeOf, macVars
  <2>6. NoEligibleFrameWaits'
      BY <1>3, <1>4, <2>1 DEF NoEligibleFrameWaits, Eligible, macVars
  <2> QED BY <2>3, <2>4, <2>5, <2>6 DEF ShaperInv
<1>8. CASE IsCurrent(e)
  <2>1. propagate(list[k].open) /\ list[k].open \subseteq Classes
      BY <1>1, <1>2, <1>3, <1>5, <1>8
  <2>2. transmissionGate' = list[k].open /\ transmissionGate' \subseteq Classes
        /\ selfMessage' \in BOOLEAN
      BY <1>3, <2>1, PropagateType DEF propagate
  <2>3. NoEligibleFrameWaits'
      BY <1>3, <1>4, <2>1, PropagateTells
  <2>4. e \in Current /\ list[k].time = ticks
    <3>1. e \in Current
        BY <1>4, <1>8 DEF Current
    <3>2. Distance(list[k].time) = 0
        BY <1>2, <1>4, <3>1 DEF ShaperInv, TimerInv, TimeOf
    <3> QED BY <1>3, <1>5, <3>1, <3>2, DistanceFacts
  <2>5. CASE Len(list) = 1
    <3>1. events' = events \ {e} /\ gateControlElement' = k /\ k = 1
        BY <1>1, <1>2, <1>3, <1>8, <2>5
    <3>2. \A f \in Current : f = e
      <4>1. ASSUME NEW f \in Current PROVE f = e
        <5>1. f.left = e.left /\ f.config = e.config
            BY <2>4, <1>8 DEF Current, IsCurrent, ShaperInv, TimerInv
        <5>2. f \in [config : 1 .. c, left : 0 .. cycle_ticks - 1]
              /\ e \in [config : 1 .. c, left : 0 .. cycle_ticks - 1]
            BY <1>3, <1>4 DEF Current
        <5> QED BY <5>1, <5>2
      <4> QED BY <4>1
    <3>3. Current' = {}
        BY <1>2, <1>4, <3>1, <3>2 DEF Current, IsCurrent
    <3>4. ShaperTypeOK'
      <4>1. ListType'
          BY <1>3, <1>4, <2>2, <3>1 DEF ListType
      <4> QED BY <1>3, <1>4, <1>6, <4>1 DEF ShaperTypeOK, ListType, MacType
    <3>5. TimerInv'
        BY <1>4, <2>5, <3>3 DEF TimerInv
    <3>6. GatesInv'
        BY <1>4, <2>2, <2>5, <3>1 DEF GatesInv, Before, PrecedingElement
    <3>7. WireInv'
        BY <1>4, <2>5 DEF WireInv
    <3> QED BY <2>3, <3>4, <3>5, <3>6, <3>7 DEF ShaperInv
  <2>6. CASE Len(list) > 1
    <3>1. PICK n : n = NextElement(list, k)
        OBVIOUS
    <3>2. PICK d : d = Distance(list[n].time)
        OBVIOUS
    <3>3. gateControlElement' = n
          /\ events' = (events \ {e}) \cup {[config |-> c, left |-> d]}
        BY <1>1, <1>2, <1>8, <2>6, <3>1, <3>2 DEF EventFor
    <3>4. /\ n \in 1 .. Len(list) /\ PrecedingElement(list, n) = k
          /\ list[n].time # list[k].time
        BY <1>3, <2>6, <3>1, ElementFacts
    <3>5. d \in 1 .. cycle_ticks - 1 /\ Distance(list[n].time)' = d
      <4>1. d \in 0 .. cycle_ticks - 1 /\ d # 0
          BY <1>3, <1>5, <2>4, <3>2, <3>4, DistanceFacts
      <4>2. Distance(list[n].time)' = d
          BY <1>4, <3>2, <1>3, <3>1 DEF Distance, NextElement
      <4> QED BY <4>1, <4>2, Constants
    <3>6. \A f \in Current' : f.left = d
      <4>1. \A f \in Current : f = e
        <5>1. ASSUME NEW f \in Current PROVE f = e
          <6>1. f.left = e.left /\ f.config = e.config
              BY <2>4, <1>8 DEF Current, IsCurrent, ShaperInv, TimerInv
          <6>2. f \in [config : 1 .. c, left : 0 .. cycle_ticks - 1]
                /\ e \in [config : 1 .. c, left : 0 .. cycle_ticks - 1]
              BY <1>3, <1>4 DEF Current
          <6> QED BY <6>1, <6>2
        <5> QED BY <5>1
      <4> QED BY <1>2, <1>4, <3>3, <4>1 DEF Current, IsCurrent
    <3>7. Current' # {}
      <4>1. [config |-> c, left |-> d] \in Current'
          BY <1>4, <3>3 DEF Current, IsCurrent
      <4> QED BY <4>1
    <3>8. ShaperTypeOK'
      <4>1. events' \subseteq [config : 1 .. configNo', left : 0 .. cycle_ticks - 1]
          BY <1>3, <1>4, <3>3, <3>5
      <4>2. ListType'
          BY <1>3, <1>4, <2>2, <3>3, <3>4, <4>1 DEF ListType
      <4> QED BY <1>3, <1>4, <1>6, <4>2 DEF ShaperTypeOK, ListType, MacType
    <3>9. NextIsAhead'
      <4>1. CASE k = Len(list)
        <5>1. n = 1 /\ list[1].time < list[k].time
            BY <1>3, <1>5, <2>6, <3>1, <4>1, RowsInOrder DEF NextElement
        <5>2. list[1].time < ticks /\ list[Len(list)].time <= ticks
            BY <1>3, <1>5, <2>4, <4>1, <5>1
        <5> QED BY <1>4, <3>3, <5>1, <5>2 DEF NextIsAhead, TimeOf
      <4>2. CASE k # Len(list)
        <5>1. n = k + 1 /\ list[k].time < list[n].time /\ n - 1 = k
            BY <1>3, <1>5, <3>1, <4>2, ListFacts DEF NextElement
        <5> QED BY <1>3, <1>4, <1>5, <2>4, <3>3, <3>4, <5>1 DEF NextIsAhead, TimeOf
      <4> QED BY <4>1, <4>2
    <3>10. TimerInv'
      <4>1. Distance(TimeOf(gateControlElement))' = d
          BY <1>4, <3>2, <3>3 DEF Distance, TimeOf
      <4> QED BY <3>6, <3>7, <3>9, <4>1 DEF TimerInv
    <3>11. Before' = k
        BY <1>4, <3>3, <3>4 DEF Before
    <3>12. GatesInv'
        BY <1>4, <2>2, <3>11 DEF GatesInv
    <3>13. Lasts(k)' = d
      <4>1. Lasts(k)' = (list[n].time - list[k].time + cycle_ticks) % cycle_ticks
          BY <1>3, <1>4, <3>1 DEF Lasts, TimeOf, NextElement
      <4>2. Lasts(k)' = IF list[n].time < list[k].time
                        THEN list[n].time - list[k].time + cycle_ticks
                        ELSE list[n].time - list[k].time
          BY <1>3, <1>5, <3>4, <4>1, Around
      <4> QED BY <2>4, <3>2, <4>2 DEF Distance
    <3>14. WireInv'
      <4>1. Distance(TimeOf(gateControlElement))' = d /\ left' = left /\ sending' = sending
          BY <1>4, <3>2, <3>3 DEF Distance, TimeOf, macVars
      <4>2. CASE ~ Guarded(k)'
        <5>1. left' + Lasts(k)' <= FrameTicks + Distance(TimeOf(gateControlElement))'
            BY <1>3, <3>5, <3>13, <4>1, Constants
        <5> QED BY <3>11, <4>2, <5>1 DEF WireInv, Lasts, Guarded, TimeOf
      <4>3. CASE Guarded(k)'
        <5>1. PICK q : q = PrecedingElement(list, k)
            OBVIOUS
        <5>2. q \in 1 .. Len(list) /\ NextElement(list, q) = k /\ Before = q
            BY <1>2, <1>3, <5>1, ElementFacts DEF Before
        <5>3. list[q].open = {} /\ Lasts(q) >= FrameTicks
          <6>1. /\ list[q].open = {}
                /\ (list[k].time - list[q].time + cycle_ticks) % cycle_ticks >= FrameTicks
              BY <1>3, <1>4, <4>3, <5>1 DEF Guarded, PrecedingElement
          <6> QED BY <1>2, <5>2, <6>1 DEF Lasts, TimeOf
        <5>4. Lasts(q) \in 0 .. cycle_ticks - 1
          <6>1. Lasts(q) = IF list[k].time < list[q].time
                           THEN list[k].time - list[q].time + cycle_ticks
                           ELSE list[k].time - list[q].time
              BY <1>2, <1>3, <1>5, <5>2, Around DEF Lasts, TimeOf
          <6> QED BY <1>3, <1>5, <5>2, <6>1, Constants
        <5>5. Distance(TimeOf(gateControlElement)) = 0
            BY <1>2, <1>4, <2>4 DEF ShaperInv, TimerInv
        <5>6. sending = 0 \/ left + sinceLoad <= FrameTicks
          <6>1. \/ sending \in list[q].open \cup {0}
                \/ left + sinceLoad <= FrameTicks
                \/ left + Lasts(q) <= FrameTicks + Distance(TimeOf(gateControlElement))
            <7>1. \/ Len(gateControlList) = 1
                  \/ sending \in gateControlList[Before].open \cup {0}
                  \/ left + sinceLoad <= FrameTicks
                  \/ left + Lasts(Before) <= FrameTicks + Distance(TimeOf(gateControlElement))
                BY DEF ShaperInv, WireInv
            <7> QED BY <1>2, <1>5, <2>6, <5>2, <7>1
          <6>2. left + Lasts(q) <= FrameTicks => left = 0
              BY <1>3, <5>3, <5>4, Constants
          <6> QED BY <1>3, <5>3, <5>5, <6>1, <6>2, Constants
        <5> QED BY <1>4, <4>1, <5>6 DEF WireInv
      <4> QED BY <4>2, <4>3
    <3> QED BY <2>3, <3>8, <3>10, <3>12, <3>14 DEF ShaperInv
  <2>7. Len(list) = 1 \/ Len(list) > 1
    <3>1. Len(list) \in Nat \ {0}
        BY <1>5
    <3>2. \A n \in Nat \ {0} : n = 1 \/ n > 1
        OBVIOUS
    <3> QED BY <3>1, <3>2, Zenon
  <2> QED BY <2>5, <2>6, <2>7
<1> QED BY <1>7, <1>8

(* Time passes: nothing is due, so the row in force stays in force.        *)
LEMMA TickStep ==
    ASSUME ShaperInv, Tick
    PROVE  ShaperInv'
<1>1. PICK list, k, c : list = gateControlList /\ k = gateControlElement /\ c = configNo
    OBVIOUS
<1>2. /\ \A e \in events : e.left # 0
      /\ ~ selfMessage
      /\ ticks' = (ticks + 1) % cycle_ticks
      /\ events' = {[e EXCEPT !.left = @ - 1] : e \in events}
      /\ left' = IF left > 0 THEN left - 1 ELSE 0
      /\ sending' = IF left > 1 THEN sending ELSE 0
      /\ sinceLoad' = IF sinceLoad < FrameTicks THEN sinceLoad + 1 ELSE FrameTicks
      /\ gateControlList' = list /\ gateControlElement' = k /\ configNo' = c
      /\ UNCHANGED << transmissionGate, queue, framesRequested, selfMessage >>
    BY <1>1 DEF Tick, Due
<1>3. /\ list \in Lists /\ k \in 1 .. Len(list) /\ ticks \in 0 .. cycle_ticks - 1
      /\ c \in 1 .. MaxConfigs /\ sinceLoad \in 0 .. FrameTicks
      /\ events \subseteq [config : 1 .. c, left : 0 .. cycle_ticks - 1]
      /\ transmissionGate \subseteq Classes /\ selfMessage \in BOOLEAN
      /\ queue \in [Classes -> 0 .. MaxQueued] /\ framesRequested \in 0 .. 1
      /\ sending \in 0 .. numPCP /\ left \in 0 .. FrameTicks /\ (sending = 0 <=> left = 0)
    BY <1>1 DEF ShaperInv, ShaperTypeOK
<1>4. /\ \A j \in 1 .. Len(list) : list[j].time \in 0 .. cycle_ticks - 1
      /\ Len(list) \in Nat \ {0}
    BY <1>3, ListFacts
<1>5. ticks' = (IF ticks + 1 = cycle_ticks THEN 0 ELSE ticks + 1)
      /\ ticks' \in 0 .. cycle_ticks - 1
    BY <1>2, <1>3, NextTick, Constants, SMTT(30)
<1>6. ShaperTypeOK'
  <2>1. events' \subseteq [config : 1 .. c, left : 0 .. cycle_ticks - 1]
    <3>1. ASSUME NEW f \in events'
          PROVE  f \in [config : 1 .. c, left : 0 .. cycle_ticks - 1]
      <4>1. PICK e \in events : f = [e EXCEPT !.left = @ - 1]
          BY <1>2, <3>1
      <4>2. e \in [config : 1 .. c, left : 0 .. cycle_ticks - 1] /\ e.left # 0
          BY <1>2, <1>3
      <4> QED BY <4>1, <4>2, Constants
    <3> QED BY <3>1
  <2>2. ListType'
    <3>1. sinceLoad' \in 0 .. FrameTicks
        BY <1>2, <1>3, Constants, SMTT(30)
    <3> QED BY <1>2, <1>3, <2>1, <3>1 DEF ListType
  <2>3. MacType'
    <3>1. left' \in 0 .. FrameTicks /\ sending' \in 0 .. numPCP /\ (sending' = 0 <=> left' = 0)
        BY <1>2, <1>3, Constants, SMTT(30)
    <3> QED BY <1>2, <1>3, <3>1 DEF MacType
  <2> QED BY <1>5, <2>2, <2>3 DEF ShaperTypeOK, ListType, MacType
<1>7. \A f \in Current' : \E e \in Current : f.left = e.left - 1
  <2>1. ASSUME NEW f \in Current'
        PROVE  \E e \in Current : f.left = e.left - 1
    <3>1. f \in events' /\ f.config = c
        BY <1>2 DEF Current, IsCurrent
    <3>2. PICK e \in events : f = [e EXCEPT !.left = @ - 1]
        BY <1>2, <3>1
    <3>3. e \in [config : 1 .. c, left : 0 .. cycle_ticks - 1]
        BY <1>3
    <3>4. e.config = c /\ f.left = e.left - 1
        BY <3>1, <3>2, <3>3
    <3> QED BY <1>1, <3>4 DEF Current, IsCurrent
  <2> QED BY <2>1
<1>8. Current' = {} => Current = {}
  <2>1. ASSUME NEW e \in Current PROVE Current' # {}
    <3>1. PICK f : f = [e EXCEPT !.left = @ - 1]
        OBVIOUS
    <3>2. e \in events /\ e.config = c /\ e \in [config : 1 .. c, left : 0 .. cycle_ticks - 1]
        BY <1>1, <1>3 DEF Current, IsCurrent
    <3>3. f \in events' /\ f.config = c
        BY <1>2, <3>1, <3>2
    <3>4. f \in Current'
        BY <1>2, <3>3 DEF Current, IsCurrent
    <3> QED BY <3>4
  <2> QED BY <2>1
<1>9. CASE Current = {}
  <2>1. Len(list) = 1 /\ Current' = {}
      BY <1>1, <1>7, <1>9 DEF ShaperInv, TimerInv
  <2>2. TimerInv' /\ WireInv'
      BY <1>2, <2>1 DEF TimerInv, WireInv
  <2>3. GatesInv'
      BY <1>1, <1>2, <1>9 DEF ShaperInv, GatesInv, Before
  <2>4. NoEligibleFrameWaits'
      BY <1>2 DEF ShaperInv, NoEligibleFrameWaits, Eligible
  <2> QED BY <1>6, <2>2, <2>3, <2>4 DEF ShaperInv
<1>10. CASE Current # {}
  <2>1. PICK d : d = Distance(list[k].time)
      OBVIOUS
  <2>2. /\ d \in 0 .. cycle_ticks - 1 /\ (d = 0 <=> list[k].time = ticks)
        /\ Distance(TimeOf(gateControlElement)) = d /\ (\A e \in Current : e.left = d)
        /\ NextIsAhead
      BY <1>1, <1>3, <1>4, <1>10, <2>1, DistanceFacts DEF TimeOf, ShaperInv, TimerInv
  <2>3. d # 0
      BY <1>2, <1>10, <2>2 DEF Current
  <2>4. Distance(TimeOf(gateControlElement))' = d - 1
    <3>1. list[k].time \in 0 .. cycle_ticks - 1 /\ list[k].time # ticks
        BY <1>3, <1>4, <2>2, <2>3
    <3>2. d = IF list[k].time < ticks THEN list[k].time - ticks + cycle_ticks
              ELSE list[k].time - ticks
        BY <2>1 DEF Distance
    <3>3. Distance(TimeOf(gateControlElement))'
              = IF list[k].time < ticks' THEN list[k].time - ticks' + cycle_ticks
                ELSE list[k].time - ticks'
        BY <1>2 DEF Distance, TimeOf
    <3> QED BY <1>3, <1>5, <3>1, <3>2, <3>3, Constants, SMTT(30)
  <2>5. NextIsAhead'
    <3>1. \/ list[k].time >= ticks /\ (k > 1 => list[k - 1].time <= ticks)
          \/ k = 1 /\ list[1].time < ticks /\ list[Len(list)].time <= ticks
        BY <1>1, <2>2 DEF NextIsAhead, TimeOf
    <3>2. \/ list[k].time >= ticks' /\ (k > 1 => list[k - 1].time <= ticks')
          \/ k = 1 /\ list[1].time < ticks' /\ list[Len(list)].time <= ticks'
      <4>1. list[k].time \in 0 .. cycle_ticks - 1 /\ list[k].time # ticks
            /\ list[Len(list)].time \in 0 .. cycle_ticks - 1
            /\ (k > 1 => list[k - 1].time \in 0 .. cycle_ticks - 1)
          BY <1>3, <1>4, <2>2, <2>3
      <4> QED BY <1>3, <1>5, <3>1, <4>1, Constants
    <3> QED BY <1>2, <3>2 DEF NextIsAhead, TimeOf
  <2>6. TimerInv'
      BY <1>7, <1>8, <1>10, <2>2, <2>4, <2>5 DEF TimerInv
  <2>7. GatesInv'
      BY <1>1, <1>2, <2>2, <2>3 DEF ShaperInv, GatesInv, Before, TimeOf
  <2>8. WireInv'
    <3>1. PICK b : b = Before
        OBVIOUS
    <3>2. Before' = b /\ (TimeOf(b))' = TimeOf(b)
          /\ Lasts(b)' = Lasts(b) /\ (Guarded(b)' <=> Guarded(b))
        BY <1>1, <1>2, <3>1 DEF Before, TimeOf, Lasts, Guarded
    <3>3. b \in 1 .. Len(list)
        BY <1>1, <1>3, <3>1, ElementFacts DEF Before
    <3>4. PICK l : l = Lasts(b)
        OBVIOUS
    <3>5. l \in Int
      <4>1. NextElement(list, b) \in 1 .. Len(list)
          BY <1>3, <3>3, ElementFacts
      <4>2. PICK u : u = list[NextElement(list, b)].time
          OBVIOUS
      <4>3. u \in 0 .. cycle_ticks - 1 /\ list[b].time \in 0 .. cycle_ticks - 1
          BY <1>4, <3>3, <4>1, <4>2
      <4>4. l = (u - list[b].time + cycle_ticks) % cycle_ticks
          BY <1>1, <3>4, <4>2 DEF Lasts, TimeOf
      <4>5. l = IF u < list[b].time THEN u - list[b].time + cycle_ticks ELSE u - list[b].time
          BY <4>3, <4>4, Around
      <4> QED BY <4>3, <4>5, Constants
    <3>6. \/ Len(list) = 1
          \/ sending \in list[b].open \cup {0}
          \/ left + sinceLoad <= FrameTicks
          \/ left + l <= FrameTicks + d /\ ~ Guarded(b)
      <4>1. \/ Len(gateControlList) = 1
            \/ sending \in gateControlList[Before].open \cup {0}
            \/ left + sinceLoad <= FrameTicks
            \/ /\ left + Lasts(Before) <= FrameTicks + Distance(TimeOf(gateControlElement))
               /\ ~ Guarded(Before)
          BY DEF ShaperInv, WireInv
      <4> QED BY <1>1, <2>2, <3>1, <3>4, <4>1
    <3>7. \/ Len(list) = 1
          \/ sending' \in list[b].open \cup {0}
          \/ left' + sinceLoad' <= FrameTicks
          \/ left' + l <= FrameTicks + (d - 1) /\ ~ Guarded(b)
      <4>1. sending' = sending \/ sending' = 0
          BY <1>2
      <4>2. CASE left = 0
          BY <1>2, <1>3, <4>2
      <4>3. CASE left # 0
        <5>1. left' = left - 1 /\ left \in Nat /\ sinceLoad \in Nat /\ FrameTicks \in Nat
              /\ d \in Nat
            BY <1>2, <1>3, <2>2, <4>3, Constants
        <5>2. left + sinceLoad <= FrameTicks => left' + sinceLoad' <= FrameTicks
          <6>1. left + sinceLoad <= FrameTicks => sinceLoad' = sinceLoad + 1
              BY <1>2, <4>3, <5>1
          <6> QED BY <5>1, <6>1
        <5>3. left + l <= FrameTicks + d => left' + l <= FrameTicks + (d - 1)
            BY <3>5, <5>1
        <5> QED BY <3>6, <4>1, <5>2, <5>3
      <4> QED BY <4>2, <4>3
    <3> QED BY <1>2, <2>4, <3>2, <3>4, <3>7 DEF WireInv
  <2>9. NoEligibleFrameWaits'
      BY <1>2 DEF ShaperInv, NoEligibleFrameWaits, Eligible
  <2> QED BY <1>6, <2>6, <2>7, <2>8, <2>9 DEF ShaperInv
<1> QED BY <1>9, <1>10

(* Only a frame starts: it is of a class the row in force lets go, or the  *)
(* list has been set at this very moment.                                  *)
LEMMA SelectStep ==
    ASSUME ShaperInv, NEW requested \in 0 .. 1, selectFrame(requested),
           UNCHANGED << ticks, listVars, events, transmissionGate >>, selfMessage' \in BOOLEAN
    PROVE  ShaperInv'
<1>1. /\ gateControlList' = gateControlList /\ gateControlElement' = gateControlElement
      /\ configNo' = configNo /\ sinceLoad' = sinceLoad /\ ticks' = ticks
      /\ events' = events /\ transmissionGate' = transmissionGate
    BY DEF listVars
<1>2. ShaperTypeOK /\ MacType /\ ListType
    BY TypeParts DEF ShaperInv
<1>3. \/ /\ requested = 1 /\ framesRequested' = 0
         /\ queue' \in [Classes -> 0 .. MaxQueued]
         /\ sending' \in transmissionGate /\ sending' \in Classes
         /\ left' \in 1 .. FrameTicks
      \/ /\ requested = 0 \/ Eligible = {}
         /\ framesRequested' = requested /\ UNCHANGED << queue, sending, left >>
    BY <1>2, SelectFacts
<1>4. ShaperTypeOK'
  <2>1. ListType'
      BY <1>1, <1>2 DEF ListType
  <2>2. MacType'
    <3>1. CASE framesRequested' = requested /\ UNCHANGED << queue, sending, left >>
        BY <1>2, <3>1 DEF MacType
    <3>2. CASE /\ framesRequested' = 0 /\ queue' \in [Classes -> 0 .. MaxQueued]
               /\ sending' \in Classes /\ left' \in 1 .. FrameTicks
        BY <3>2, Constants DEF MacType, Classes
    <3> QED BY <1>3, <3>1, <3>2
  <2>3. ticks' \in 0 .. cycle_ticks - 1
      BY <1>1, <1>2 DEF ShaperTypeOK
  <2> QED BY <2>1, <2>2, <2>3 DEF ShaperTypeOK, ListType, MacType
<1>5. Current' = Current
    BY <1>1 DEF Current, IsCurrent
<1>6. TimerInv' /\ GatesInv'
    BY <1>1, <1>5 DEF ShaperInv, TimerInv, GatesInv, NextIsAhead, Distance, TimeOf, Before
<1>7. /\ Before' = Before /\ Lasts(Before)' = Lasts(Before)
      /\ (Guarded(Before)' <=> Guarded(Before))
      /\ Distance(TimeOf(gateControlElement))' = Distance(TimeOf(gateControlElement))
    BY <1>1 DEF Before, Lasts, Guarded, Distance, TimeOf
<1>8. WireInv'
  <2>1. CASE UNCHANGED << sending, left >>
      BY <1>1, <1>7, <2>1 DEF ShaperInv, WireInv
  <2>2. CASE sending' \in transmissionGate /\ left' \in 1 .. FrameTicks
    <3>1. CASE transmissionGate = gateControlList[Before].open
        BY <1>1, <1>7, <2>2, <3>1 DEF WireInv
    <3>2. CASE sinceLoad = 0
        BY <1>1, <2>2, <3>2, Constants DEF WireInv
    <3> QED BY <3>1, <3>2 DEF ShaperInv, GatesInv
  <2> QED BY <1>3, <2>1, <2>2
<1>9. NoEligibleFrameWaits'
  <2>1. CASE framesRequested' = 0
      BY <2>1 DEF NoEligibleFrameWaits
  <2>2. CASE Eligible = {} /\ UNCHANGED queue
      BY <1>1, <2>2 DEF NoEligibleFrameWaits, Eligible
  <2> QED BY <1>3, <2>1, <2>2
<1> QED BY <1>4, <1>6, <1>8, <1>9 DEF ShaperInv

LEMMA ArriveStep ==
    ASSUME ShaperInv, NEW i \in Classes, Arrive(i)
    PROVE  ShaperInv'
<1>1. /\ queue[i] < MaxQueued /\ queue' = [queue EXCEPT ![i] = @ + 1] /\ selfMessage' = TRUE
      /\ gateControlList' = gateControlList /\ gateControlElement' = gateControlElement
      /\ configNo' = configNo /\ sinceLoad' = sinceLoad /\ ticks' = ticks
      /\ events' = events /\ transmissionGate' = transmissionGate
      /\ UNCHANGED << framesRequested, sending, left >>
    BY DEF Arrive, listVars
<1>2. ShaperTypeOK'
  <2>1. MacType /\ ListType /\ ticks \in 0 .. cycle_ticks - 1
      BY TypeParts DEF ShaperInv
  <2>2. queue' \in [Classes -> 0 .. MaxQueued]
      BY <1>1, <2>1, Constants DEF MacType
  <2> QED BY <1>1, <2>1, <2>2 DEF ShaperTypeOK, ListType, MacType
<1>3. Current' = Current
    BY <1>1 DEF Current, IsCurrent
<1>4. TimerInv' /\ GatesInv'
    BY <1>1, <1>3 DEF ShaperInv, TimerInv, GatesInv, NextIsAhead, Distance, TimeOf, Before
<1>5. WireInv'
    BY <1>1 DEF ShaperInv, WireInv, Before, Lasts, Guarded, Distance, TimeOf
<1>6. NoEligibleFrameWaits'
    BY <1>1 DEF NoEligibleFrameWaits
<1> QED BY <1>2, <1>4, <1>5, <1>6 DEF ShaperInv

LEMMA ShaperInit == Init => ShaperInv
<1> SUFFICES ASSUME Init PROVE ShaperInv
    OBVIOUS
<1>1. PICK list, first, d : /\ list = gateControlList /\ first = FirstElement(list)
                            /\ d = Distance(list[first].time)
    OBVIOUS
<1>2. /\ ticks = 0 /\ configNo = 1 /\ sinceLoad = 0 /\ list \in Lists
      /\ gateControlElement = first
      /\ events = {[config |-> 1, left |-> d]}
      /\ \/ list[first].time = 0
         \/ transmissionGate = list[PrecedingElement(list, first)].open
      /\ left = 0 /\ framesRequested = 0
    BY <1>1 DEF Init, EventFor
<1>3. ShaperTypeOK /\ ticks \in 0 .. cycle_ticks - 1
    BY ShaperTypeInit DEF ShaperTypeOK
<1>4. Current = {[config |-> 1, left |-> d]}
    BY <1>2 DEF Current, IsCurrent
<1>5. TimerInv
  <2>1. /\ first \in 1 .. Len(list)
        /\ \/ list[first].time >= ticks /\ (first > 1 => list[first - 1].time < ticks)
           \/ first = 1 /\ list[1].time < ticks /\ list[Len(list)].time < ticks
      BY <1>1, <1>2, <1>3, FirstFacts
  <2>2. \A j \in 1 .. Len(list) : list[j].time \in 0 .. cycle_ticks - 1
      BY <1>2, ListFacts
  <2>3. Len(list) \in Nat \ {0}
      BY <1>2, ListFacts
  <2>4. NextIsAhead
      BY <1>1, <1>2, <2>1, <2>2, <2>3 DEF NextIsAhead, TimeOf
  <2>5. \A e \in Current : e.left = Distance(TimeOf(gateControlElement))
      BY <1>1, <1>2, <1>4 DEF TimeOf
  <2> QED BY <1>4, <2>4, <2>5 DEF TimerInv
<1>6. GatesInv
    BY <1>1, <1>2, <1>4 DEF GatesInv, Before, TimeOf
<1>7. WireInv
    BY <1>2, Constants DEF WireInv
<1>8. NoEligibleFrameWaits
    BY <1>2 DEF NoEligibleFrameWaits
<1> QED BY <1>3, <1>5, <1>6, <1>7, <1>8 DEF ShaperInv

LEMMA ShaperStep == ShaperInv /\ [Next]_shaperVars => ShaperInv'
<1> SUFFICES ASSUME ShaperInv, [Next]_shaperVars PROVE ShaperInv'
    OBVIOUS
<1>1. CASE setGateControlList
    BY <1>1, LoadStep
<1>2. CASE GateEvent
    BY <1>2, GateEventStep
<1>3. ASSUME NEW i \in Classes, Arrive(i) PROVE ShaperInv'
    BY <1>3, ArriveStep
<1>4. CASE Wakeup
  <2>1. framesRequested \in 0 .. 1
      BY DEF ShaperInv, ShaperTypeOK
  <2>2. /\ selectFrame(framesRequested) /\ selfMessage' \in BOOLEAN
        /\ UNCHANGED << ticks, listVars, events, transmissionGate >>
      BY <1>4 DEF Wakeup
  <2> QED BY <2>1, <2>2, SelectStep
<1>5. CASE requestPacket
  <2>1. /\ selectFrame(1) /\ selfMessage' \in BOOLEAN
        /\ UNCHANGED << ticks, listVars, events, transmissionGate >>
    <3>1. framesRequested + 1 = 1 /\ selectFrame(framesRequested + 1)
          /\ UNCHANGED << ticks, listVars, events, transmissionGate, selfMessage >>
        BY <1>5 DEF requestPacket
    <3> QED BY <3>1 DEF ShaperInv, ShaperTypeOK
  <2> QED BY <2>1, SelectStep
<1>6. CASE Tick
    BY <1>6, TickStep
<1>7. CASE UNCHANGED shaperVars
  <2>1. UNCHANGED << ticks, gateControlList, gateControlElement, configNo, sinceLoad, events,
                     transmissionGate, queue, framesRequested, sending, left, selfMessage >>
      BY <1>7 DEF shaperVars, listVars, macVars
  <2>2. ShaperTypeOK'
      BY <2>1 DEF ShaperInv, ShaperTypeOK
  <2>3. Current' = Current
      BY <2>1 DEF Current, IsCurrent
  <2>4. TimerInv' /\ GatesInv'
      BY <2>1, <2>3 DEF ShaperInv, TimerInv, GatesInv, NextIsAhead, Distance, TimeOf, Before
  <2>5. WireInv'
      BY <2>1 DEF ShaperInv, WireInv, Before, Lasts, Guarded, Distance, TimeOf
  <2>6. NoEligibleFrameWaits'
      BY <2>1 DEF ShaperInv, NoEligibleFrameWaits, Eligible
  <2> QED BY <2>2, <2>4, <2>5, <2>6 DEF ShaperInv
<1> QED BY <1>1, <1>2, <1>3, <1>4, <1>5, <1>6, <1>7 DEF Next

(* The inductive invariant of the port: what the timer waits for, how the  *)
(* gates stand until then, and what can be on the wire.                    *)
THEOREM ShaperInvHolds == Spec => []ShaperInv
BY ShaperInit, ShaperStep, PTL DEF Spec

(* Every variable keeps its type: the event queue of the timer, the row    *)
(* that is read next, at most one request of the MAC, a frame on the wire  *)
(* exactly while the MAC is busy.                                          *)
THEOREM ShaperTypeCorrect == Spec => []ShaperTypeOK
<1>1. ShaperInv => ShaperTypeOK
    BY DEF ShaperInv
<1> QED BY <1>1, ShaperInvHolds, PTL

(* With no event of the newest list due, the row before the one the timer  *)
(* waits for is the row in force.                                          *)
LEMMA SettledRow ==
    ASSUME ShaperInv, Settled
    PROVE  /\ RowInForce = Before
           /\ Current = {} => Len(gateControlList) = 1
           /\ Current # {} => TimeOf(gateControlElement) # ticks
<1>1. PICK list, k : list = gateControlList /\ k = gateControlElement
    OBVIOUS
<1>2. /\ list \in Lists /\ k \in 1 .. Len(list) /\ ticks \in 0 .. cycle_ticks - 1
      /\ ShaperTypeOK
    BY <1>1 DEF ShaperInv, ShaperTypeOK
<1>3. \A j \in 1 .. Len(list) : list[j].time \in 0 .. cycle_ticks - 1
    BY <1>2, ListFacts
<1>4. Current = {} => Len(gateControlList) = 1
    BY DEF ShaperInv, TimerInv
<1>5. Current # {} => TimeOf(gateControlElement) # ticks
  <2>1. SUFFICES ASSUME NEW e \in Current PROVE list[k].time # ticks
      BY <1>1 DEF TimeOf
  <2>2. e.left # 0 /\ e.left = Distance(list[k].time)
      BY <1>1 DEF Settled, Due, Current, ShaperInv, TimerInv, TimeOf
  <2> QED BY <1>2, <1>3, <2>2, DistanceFacts
<1>6. CASE Current # {}
    BY <1>2, <1>4, <1>5, <1>6, BeforeIsInForce DEF ShaperInv, TimerInv
<1>7. CASE Current = {}
  <2>1. Len(list) = 1 /\ k = 1
    <3>1. Len(list) = 1
        BY <1>1, <1>4, <1>7
    <3>2. k \in 1 .. 1
        BY <1>2, <3>1
    <3> QED BY <3>1, <3>2
  <2>2. PICK begun : begun = {j \in 1 .. Len(list) : list[j].time <= ticks}
      OBVIOUS
  <2>3. begun # {} => Max(begun) \in begun
      BY <2>1, <2>2, RangeMax
  <2>4. RowInForce = IF begun = {} THEN Len(list) ELSE Max(begun)
      BY <1>1, <2>2 DEF RowInForce
  <2>5. RowInForce = 1
      BY <2>1, <2>2, <2>3, <2>4
  <2> QED BY <1>1, <1>4, <1>7, <2>1, <2>5 DEF Before, PrecedingElement
<1> QED BY <1>4, <1>5, <1>6, <1>7

(* However lists are replaced, and whatever events of replaced lists are   *)
(* still with the timer, the gates stand as the newest list says for this  *)
(* moment of the period (handleMessage of IEEE8021QbvGateControlList and   *)
(* switchToFirstGateControlElement).                                       *)
THEOREM GatesFollowListHolds == Spec => []GatesFollowList
<1>1. ShaperInv => GatesFollowList
  <2> SUFFICES ASSUME ShaperInv, Settled PROVE transmissionGate = InForce
      BY DEF GatesFollowList
  <2>1. /\ RowInForce = Before
        /\ Current # {} => TimeOf(gateControlElement) # ticks
      BY SettledRow
  <2>2. transmissionGate = gateControlList[Before].open
      BY <2>1 DEF ShaperInv, GatesInv
  <2> QED BY <2>1, <2>2 DEF InForce
<1> QED BY <1>1, ShaperInvHolds, PTL

(* A window that is guarded by closed gates is free of other classes'      *)
(* frames, once its list has been in force as long as a frame takes        *)
(* (selectFrame, scheduleCurrentGateControlElementTime).                   *)
THEOREM GuardedWindowIsFreeHolds == Spec => []GuardedWindowIsFree
<1>1. ShaperInv => GuardedWindowIsFree
  <2> SUFFICES ASSUME ShaperInv, Settled, Guarded(RowInForce), sinceLoad = FrameTicks
               PROVE  sending \in InForce \cup {0}
      BY DEF GuardedWindowIsFree
  <2>1. RowInForce = Before /\ InForce = gateControlList[Before].open
      BY SettledRow DEF InForce
  <2>2. PICK list, b : list = gateControlList /\ b = Before
      OBVIOUS
  <2>3. /\ list \in Lists /\ b \in 1 .. Len(list) /\ left \in 0 .. FrameTicks
        /\ (sending = 0 <=> left = 0)
    <3>1. /\ list \in Lists /\ left \in 0 .. FrameTicks /\ (sending = 0 <=> left = 0)
          /\ gateControlElement \in 1 .. Len(list)
        BY <2>2 DEF ShaperInv, ShaperTypeOK
    <3> QED BY <2>2, <3>1, ElementFacts DEF Before
  <2>4. Len(list) # 1
    <3>1. SUFFICES ASSUME Len(list) = 1 PROVE FALSE
        OBVIOUS
    <3>2. b = 1 /\ PrecedingElement(list, b) = 1
        BY <2>3, <3>1 DEF PrecedingElement
    <3>3. (list[1].time - list[1].time + cycle_ticks) % cycle_ticks >= FrameTicks
        BY <2>1, <2>2, <3>2 DEF Guarded
    <3>4. list[1].time \in 0 .. cycle_ticks - 1
        BY <2>3, <3>2, ListFacts
    <3>5. (list[1].time - list[1].time + cycle_ticks) % cycle_ticks = 0
        BY <3>4, Around
    <3> QED BY <3>3, <3>5, Constants
  <2>5. \/ sending \in list[b].open \cup {0}
        \/ left + sinceLoad <= FrameTicks
      BY <2>1, <2>2, <2>4 DEF ShaperInv, WireInv
  <2>6. left + sinceLoad <= FrameTicks => sending = 0
      BY <2>3, Constants
  <2> QED BY <2>1, <2>2, <2>5, <2>6
<1> QED BY <1>1, ShaperInvHolds, PTL

(* While the MAC waits and a frame may go, the selection has a message to  *)
(* itself (receiveSignal, requestPacket).                                  *)
THEOREM NoEligibleFrameWaitsHolds == Spec => []NoEligibleFrameWaits
<1>1. ShaperInv => NoEligibleFrameWaits
    BY DEF ShaperInv
<1> QED BY <1>1, ShaperInvHolds, PTL
=============================================================================
