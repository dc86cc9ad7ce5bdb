---------------------------- MODULE SRPTableAging ----------------------------
(***************************************************************************)
(* The ageing of one SRP table (SRPTable.cc) on the host of a source       *)
(* (AVBTrafficSourceApp.cc), with the protocol entity (SRProtocol.cc) that *)
(* subscribes to it: listeners of one stream renew their entries or stop   *)
(* to, and aged entries are removed by the next query that is made after   *)
(* nextAging.                                                              *)
(*                                                                         *)
(* Times are relative and end at agingTime, beyond which nothing differs:  *)
(* age is the time since the insertionTime of an entry, nextAging the time *)
(* that is left until the member of this name.                             *)
(***************************************************************************)
EXTENDS Integers, TLAPS

CONSTANTS
    Listeners,      \* modules that may listen: ports and sinks
    Keepers,        \* the listeners whose update timer never stops
    agingTime

Off == -1           \* nextAging == 0
Gone == -1          \* no entry

ASSUME AgingAssumption ==
    agingTime \in Nat \ {0} /\ Keepers \subseteq Listeners

VARIABLES
    age,            \* age[l]: of the entry of l
    nextAging,
    isStreaming,    \* of the source application
    returned        \* the listeners a query has just returned

agingVars == << age, nextAging, isStreaming, returned >>

Init ==
    /\ age = [l \in Listeners |-> Gone]
    /\ nextAging = Off /\ isStreaming = FALSE /\ returned = {}

Entered(ages) == {l \in Listeners : ages[l] # Gone}

Aged(ages) == {l \in Listeners : ages[l] = agingTime}

(* Mutant: the timeout of an entry is emitted before the entry is erased.  *)
SourceAfterTimeouts_EmittedFirst(ages) ==
    isStreaming /\ (Aged(ages) # {} => Entered(ages) # {})

(* The source hears of every timeout after the entry was erased; it stops  *)
(* when it finds no listener left.                                         *)
SourceAfterTimeouts(ages) ==
    isStreaming /\ (Aged(ages) # {} => Entered(ages) # Aged(ages))

(* nextAging is reset to 0 first; the entries that survive cannot lower it.*)
removeAgedEntries(ages) ==
    [ages        |-> [l \in Listeners |-> IF l \in Aged(ages) THEN Gone ELSE ages[l]],
     nextAging   |-> Off,
     isStreaming |-> SourceAfterTimeouts(ages)]

removeAgedEntriesIfNeeded(ages) ==
    IF nextAging = 0 THEN removeAgedEntries(ages)
    ELSE [ages |-> ages, nextAging |-> nextAging, isStreaming |-> isStreaming]

(* Mutant: ageing that was switched off stays off.                         *)
Rearmed_Never(next) == next

(* Mutant: a full period later.                                            *)
Rearmed_Late(next) == IF next = Off THEN agingTime + agingTime ELSE next

(* updateListenerWithStreamId, at its end.                                 *)
Rearmed(next) == IF next = Off THEN agingTime ELSE next

(* An entry is made or renewed; hearing of it, SRProtocol queries the      *)
(* table for the talker, and the source starts for a new listener.         *)
updateListenerWithStreamId(l) ==
    LET table == removeAgedEntriesIfNeeded([age EXCEPT ![l] = 0]) IN
    /\ age' = table.ages
    /\ nextAging' = Rearmed(table.nextAging)
    /\ isStreaming' = (table.isStreaming \/ age[l] = Gone)
    /\ returned' = {}

(* Any of the queries, as of a frame to be forwarded or a bandwidth check. *)
getListenersForStreamId ==
    LET table == removeAgedEntriesIfNeeded(age) IN
    /\ age' = table.ages /\ nextAging' = table.nextAging /\ isStreaming' = table.isStreaming
    /\ returned' = Entered(table.ages)

Tick ==
    /\ age' = [l \in Listeners |-> IF age[l] \in {Gone, agingTime} THEN age[l] ELSE age[l] + 1]
    /\ nextAging' = IF nextAging \in {Off, 0} THEN nextAging ELSE nextAging - 1
    /\ returned' = {}
    /\ UNCHANGED isStreaming

Next ==
    \/ Tick \/ getListenersForStreamId
    \/ \E l \in Listeners : updateListenerWithStreamId(l)

Spec == Init /\ [][Next]_agingVars

(* Time passes and the update timers of some sinks go on.                  *)
FairSpec ==
    /\ Spec /\ WF_agingVars(Tick)
    /\ \A l \in Keepers : SF_agingVars(updateListenerWithStreamId(l))

-----------------------------------------------------------------------------
(* Ages and the time left are within the agingTime.                        *)
AgingTypeOK ==
    /\ age \in [Listeners -> Gone .. agingTime]
    /\ nextAging \in Off .. agingTime
    /\ isStreaming \in BOOLEAN /\ returned \subseteq Listeners

(* The source streams exactly as long as its table has a listener, though  *)
(* it hears of the listeners one by one and in the middle of an update.    *)
StreamsForListeners == isStreaming <=> Entered(age) # {}

(* Ageing is switched off by every pass, yet an aged entry does go as long *)
(* as another listener of the table renews its own.                        *)
AgedEntriesGo == \A l \in Listeners \ Keepers : l \in Aged(age) ~> l \notin Aged(age)

(* SRPTable.ned:44, "Entries not updated are deleted after agingTime": no  *)
(* query returns an aged entry.                                            *)
NoAgedEntryReturned == returned \cap Aged(age) = {}

-----------------------------------------------------------------------------
(* Proofs, for every set of listeners and every agingTime.                 *)
AgingInv == AgingTypeOK /\ StreamsForListeners

Ages == [Listeners -> Gone .. agingTime]

(* A pass that removes the aged entries, or one that is not yet due,       *)
(* leaves a table of ages and a source that streams for its listeners, if  *)
(* it did so before.                                                       *)
LEMMA RemoveFacts ==
    ASSUME NEW ages \in Ages, nextAging \in Off .. agingTime, isStreaming \in BOOLEAN,
           NEW table, table = removeAgedEntriesIfNeeded(ages)
    PROVE  /\ table.ages \in Ages
           /\ table.nextAging \in Off .. agingTime
           /\ table.isStreaming \in BOOLEAN
           /\ Entered(ages) = {} => (table.isStreaming <=> isStreaming) /\ table.ages = ages
           /\ isStreaming /\ Entered(ages) # {} =>
                  (table.isStreaming <=> Entered(table.ages) # {})
           /\ Entered(table.ages) \subseteq Entered(ages)
           /\ \A l \in Listeners : ages[l] \notin {Gone, agingTime} => table.ages[l] = ages[l]
<1>1. agingTime \in Nat \ {0} /\ Gone = -1 /\ Off = -1
    BY AgingAssumption DEF Gone, Off
<1>2. CASE nextAging # 0
  <2>1. /\ table.ages = ages /\ table.nextAging = nextAging /\ table.isStreaming = isStreaming
      BY <1>2 DEF removeAgedEntriesIfNeeded
  <2> QED BY <2>1
<1>3. CASE nextAging = 0
  <2>1. /\ table.ages = [l \in Listeners |-> IF l \in Aged(ages) THEN Gone ELSE ages[l]]
        /\ table.nextAging = Off
        /\ table.isStreaming = SourceAfterTimeouts(ages)
      BY <1>3 DEF removeAgedEntriesIfNeeded, removeAgedEntries
  <2>2. table.ages \in Ages
      BY <1>1, <2>1 DEF Ages
  <2>3. Entered(table.ages) = Entered(ages) \ Aged(ages)
      BY <1>1, <2>1 DEF Entered, Aged
  <2>4. Aged(ages) \subseteq Entered(ages)
      BY <1>1 DEF Entered, Aged
  <2>5. table.isStreaming <=> isStreaming /\ (Aged(ages) # {} => Entered(ages) # Aged(ages))
      BY <2>1 DEF SourceAfterTimeouts
  <2>6. table.isStreaming \in BOOLEAN
      BY <2>1, Zenon DEF SourceAfterTimeouts
  <2>7. Entered(ages) = {} => table.ages = ages
    <3>1. SUFFICES ASSUME Entered(ages) = {} PROVE table.ages = ages
        OBVIOUS
    <3>2. Aged(ages) = {}
        BY <2>4, <3>1
    <3> QED BY <2>1, <3>2 DEF Ages
  <2>8. \A l \in Listeners : ages[l] \notin {Gone, agingTime} => table.ages[l] = ages[l]
      BY <2>1 DEF Aged
  <2>9. table.nextAging \in Off .. agingTime
      BY <1>1, <2>1
  <2>10. Entered(ages) = {} => (table.isStreaming <=> isStreaming)
      BY <2>4, <2>5
  <2>11. isStreaming /\ Entered(ages) # {} => (table.isStreaming <=> Entered(table.ages) # {})
    <3>1. Entered(ages) # {} =>
              (Entered(table.ages) # {} <=> (Aged(ages) # {} => Entered(ages) # Aged(ages)))
        BY <2>3, <2>4
    <3> QED BY <2>5, <3>1, Zenon
  <2>12. Entered(table.ages) \subseteq Entered(ages)
      BY <2>3
  <2> QED BY <2>2, <2>6, <2>7, <2>8, <2>9, <2>10, <2>11, <2>12, Zenon
<1> QED BY <1>2, <1>3

LEMMA UpdateStep ==
    ASSUME AgingInv, NEW l \in Listeners, updateListenerWithStreamId(l)
    PROVE  AgingInv'
<1>1. PICK table : table = removeAgedEntriesIfNeeded([age EXCEPT ![l] = 0])
    OBVIOUS
<1>2. /\ age' = table.ages /\ nextAging' = Rearmed(table.nextAging)
      /\ isStreaming' = (table.isStreaming \/ age[l] = Gone) /\ returned' = {}
    BY <1>1 DEF updateListenerWithStreamId
<1>3. agingTime \in Nat \ {0} /\ Gone = -1 /\ Off = -1 /\ age \in Ages
      /\ nextAging \in Off .. agingTime /\ isStreaming \in BOOLEAN
      /\ (isStreaming <=> Entered(age) # {})
    BY AgingAssumption DEF Gone, Off, Ages, AgingInv, AgingTypeOK, StreamsForListeners
<1>4. PICK renewed : renewed = [age EXCEPT ![l] = 0]
    OBVIOUS
<1>5. renewed \in Ages /\ renewed[l] = 0
    BY <1>3, <1>4 DEF Ages
<1>6. Entered(renewed) = Entered(age) \cup {l} /\ (age[l] # Gone => Entered(age) # {})
    BY <1>3, <1>4 DEF Ages, Entered
<1>7. /\ table.ages \in Ages
      /\ table.nextAging \in Off .. agingTime
      /\ table.isStreaming \in BOOLEAN
      /\ isStreaming /\ Entered(renewed) # {} =>
             (table.isStreaming <=> Entered(table.ages) # {})
      /\ renewed[l] \notin {Gone, agingTime} => table.ages[l] = renewed[l]
  <2>1. table = removeAgedEntriesIfNeeded(renewed)
      BY <1>1, <1>4
  <2>2. renewed \in Ages /\ nextAging \in Off .. agingTime /\ isStreaming \in BOOLEAN
      BY <1>3, <1>5
  <2>3. /\ table.ages \in Ages
        /\ table.nextAging \in Off .. agingTime
        /\ table.isStreaming \in BOOLEAN
        /\ Entered(renewed) = {} => (table.isStreaming <=> isStreaming) /\ table.ages = renewed
        /\ isStreaming /\ Entered(renewed) # {} =>
               (table.isStreaming <=> Entered(table.ages) # {})
        /\ Entered(table.ages) \subseteq Entered(renewed)
        /\ \A j \in Listeners :
               renewed[j] \notin {Gone, agingTime} => table.ages[j] = renewed[j]
      BY <2>1, <2>2, RemoveFacts
  <2> QED BY <2>3, Zenon
<1>8. AgingTypeOK'
  <2>1. nextAging' \in Off .. agingTime
      BY <1>2, <1>3, <1>7 DEF Rearmed
  <2>2. isStreaming' \in BOOLEAN
      BY <1>2, Zenon
  <2> QED BY <1>2, <1>7, <2>1, <2>2 DEF AgingTypeOK, Ages
<1>9. l \in Entered(age')
    BY <1>2, <1>3, <1>5, <1>7 DEF Entered
<1>10. StreamsForListeners'
  <2>1. CASE age[l] = Gone
      BY <1>2, <1>9, <2>1 DEF StreamsForListeners
  <2>2. CASE age[l] # Gone
    <3>1. isStreaming /\ Entered(renewed) # {}
        BY <1>3, <1>6, <2>2
    <3> QED BY <1>2, <1>7, <2>2, <3>1 DEF StreamsForListeners, Entered
  <2> QED BY <2>1, <2>2
<1> QED BY <1>8, <1>10 DEF AgingInv

LEMMA QueryStep ==
    ASSUME AgingInv, getListenersForStreamId
    PROVE  AgingInv'
<1>1. PICK table : table = removeAgedEntriesIfNeeded(age)
    OBVIOUS
<1>2. /\ age' = table.ages /\ nextAging' = table.nextAging
      /\ isStreaming' = table.isStreaming /\ returned' = Entered(table.ages)
    BY <1>1 DEF getListenersForStreamId
<1>3. /\ age \in Ages /\ nextAging \in Off .. agingTime /\ isStreaming \in BOOLEAN
      /\ (isStreaming <=> Entered(age) # {})
    BY DEF Ages, AgingInv, AgingTypeOK, StreamsForListeners
<1>4. /\ table.ages \in Ages /\ table.nextAging \in Off .. agingTime
      /\ table.isStreaming \in BOOLEAN
      /\ Entered(age) = {} => (table.isStreaming <=> isStreaming) /\ table.ages = age
      /\ isStreaming /\ Entered(age) # {} => (table.isStreaming <=> Entered(table.ages) # {})
    BY <1>1, <1>3, RemoveFacts
<1>5. returned' \subseteq Listeners
    BY <1>2 DEF Entered
<1>6. AgingTypeOK'
    BY <1>2, <1>4, <1>5 DEF AgingTypeOK, Ages
<1>7. isStreaming' <=> Entered(age') # {}
    BY <1>2, <1>3, <1>4
<1> QED BY <1>6, <1>7 DEF AgingInv, StreamsForListeners, Entered

LEMMA TickStep ==
    ASSUME AgingInv, Tick
    PROVE  AgingInv'
<1>1. agingTime \in Nat \ {0} /\ Gone = -1 /\ Off = -1 /\ age \in Ages
      /\ nextAging \in Off .. agingTime /\ isStreaming \in BOOLEAN
    BY AgingAssumption DEF Gone, Off, Ages, AgingInv, AgingTypeOK
<1>2. /\ age' = [l \in Listeners |-> IF age[l] \in {Gone, agingTime} THEN age[l] ELSE age[l] + 1]
      /\ nextAging' = (IF nextAging \in {Off, 0} THEN nextAging ELSE nextAging - 1)
      /\ returned' = {} /\ isStreaming' = isStreaming
    BY DEF Tick
<1>3. age' \in Ages /\ nextAging' \in Off .. agingTime
    BY <1>1, <1>2 DEF Ages
<1>4. \A l \in Listeners : age'[l] = Gone <=> age[l] = Gone
    BY <1>1, <1>2 DEF Ages
<1>5. Entered(age') = Entered(age)
    BY <1>4 DEF Entered
<1> QED BY <1>1, <1>2, <1>3, <1>5 DEF AgingInv, AgingTypeOK, StreamsForListeners, Ages, Entered

LEMMA AgingInit == Init => AgingInv
<1> SUFFICES ASSUME Init PROVE AgingInv
    OBVIOUS
<1>1. agingTime \in Nat \ {0} /\ Gone = -1 /\ Off = -1
    BY AgingAssumption DEF Gone, Off
<1>2. AgingTypeOK
  <2>1. isStreaming \in BOOLEAN
      BY Zenon DEF Init
  <2>2. /\ age \in [Listeners -> Gone .. agingTime]
        /\ nextAging \in Off .. agingTime /\ returned \subseteq Listeners
      BY <1>1 DEF Init
  <2> QED BY <2>1, <2>2 DEF AgingTypeOK
<1>3. Entered(age) = {} /\ isStreaming = FALSE
    BY DEF Init, Entered
<1> QED BY <1>2, <1>3 DEF AgingInv, StreamsForListeners

LEMMA AgingStep == AgingInv /\ [Next]_agingVars => AgingInv'
<1> SUFFICES ASSUME AgingInv, [Next]_agingVars PROVE AgingInv'
    OBVIOUS
<1>1. CASE Tick
    BY <1>1, TickStep
<1>2. CASE getListenersForStreamId
    BY <1>2, QueryStep
<1>3. ASSUME NEW l \in Listeners, updateListenerWithStreamId(l) PROVE AgingInv'
    BY <1>3, UpdateStep
<1>4. CASE UNCHANGED agingVars
    BY <1>4 DEF agingVars, AgingInv, AgingTypeOK, StreamsForListeners, Entered
<1> QED BY <1>1, <1>2, <1>3, <1>4 DEF Next

(* Ages and the time that is left stay within the agingTime: an entry is   *)
(* renewed or removed, and nextAging is set again only after it was reset. *)
THEOREM AgingTypeCorrect == Spec => []AgingTypeOK
<1>1. AgingInv => AgingTypeOK
    BY DEF AgingInv
<1> QED BY <1>1, AgingInit, AgingStep, PTL DEF Spec

(* The source streams exactly as long as the table has a listener, though  *)
(* it hears of the removed entries one by one, and though an update may    *)
(* remove other entries before it announces its own                        *)
(* (updateListenerWithStreamId, removeAgedEntries, receiveSignal).         *)
THEOREM StreamsForListenersHolds == Spec => []StreamsForListeners
<1>1. AgingInv => StreamsForListeners
    BY DEF AgingInv
<1> QED BY <1>1, AgingInit, AgingStep, PTL DEF Spec
=============================================================================
