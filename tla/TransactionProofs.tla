-------------------------- MODULE TransactionProofs --------------------------
(* Transactions of any number of apps over any number of switches: the     *)
(* conversation of an app with each switch, and what it makes of the       *)
(* stores.                                                                 *)
EXTENDS TransactionModel, WellFoundedInduction, TLAPS

LEMMA Constants ==
    /\ NoSession \notin Sessions /\ Applicable \subseteq Valid /\ Valid \subseteq Changes
    /\ executeAtStartOfPeriod \in BOOLEAN
    /\ TimedApps \subseteq Sessions
    /\ TimedApps # {} => executeAtStartOfPeriod
    /\ Lead \in Nat \ {0} /\ ReleaseLead \in Nat \ {0} /\ CommitDelay \in Nat
    /\ N \in Nat \ {0}
    /\ \A c \in Sessions : Plans[c] \subseteq [Switches -> Seq(Changes) \ {<< >>}] \cup {PlainClient}
    /\ ChangesOfOthers \subseteq Changes
    /\ MaxCandidate \in Nat
BY NoSessionAssumption, ChangesAssumption, PeriodAssumption, TransactionAssumption

-----------------------------------------------------------------------------
(* The shape of the state.                                                 *)
States ==
    {"BeginOfTransaction", "WaitOnLockResponse", "WaitOnCandidateConfirmation",
     "WaitOnCandidateLockResponse", "WaitOnChangeConfirmation", "WaitOnTimestampConfirmation",
     "WaitOnCommitExecution", "WaitOnDeleteOldConfiguration", "ErrorState",
     "WaitOnDeleteCandidate", "WaitOnUnlock", "EndOfTransaction"}

AppRecords ==
    [state : States, flags : [Switches -> SUBSET Flags], result : BOOLEAN,
     timestamp : -1 .. Lead, released : 0 .. CommitDelay]

Ids ==
    {"Lock", "Copy Config", "Lock Candidate", "Change", "Timestamp", "Commit approved",
     "Delete Old Config", "Delete Candidate Config", "Unlock"}

Requests == [id : Ids, n : Nat]
Replies == [id : Ids, n : Nat, status : {"ok", "error"}]

Shapes ==
    /\ stores \in [Switches -> Stores]
    /\ \A c \in Apps : plan[c] \in [Switches -> Seq(Changes) \ {<< >>}]
    /\ apps \in [Sessions -> AppRecords]
    /\ requests \in [Sessions -> [Switches -> Seq(Requests)]]
    /\ replies \in [Sessions -> [Switches -> Seq(Replies)]]
    /\ aborted \in BOOLEAN

(* What is under way between an app and a switch: nothing, a request, or   *)
(* its reply.                                                              *)
Silent(c, sw) == requests[c][sw] = << >> /\ replies[c][sw] = << >>

Asked(c, sw, id, n) == requests[c][sw] = << Message(id, n) >> /\ replies[c][sw] = << >>

Replied(c, sw, id, n, status) ==
    /\ requests[c][sw] = << >>
    /\ replies[c][sw] = << [id |-> id, n |-> n, status |-> status] >>

Talks(c, sw, id, n) ==
    Asked(c, sw, id, n) \/ \E status \in {"ok", "error"} : Replied(c, sw, id, n, status)

Has(c, sw, flag) == flag \in apps[c].flags[sw]
HasAll(c, sw, flags) == \A flag \in flags : Has(c, sw, flag)
HasNone(c, sw, flags) == \A flag \in flags : ~ Has(c, sw, flag)

(* A switch that has the flag has answered; the others are asked.          *)
AskedUnless(c, sw, flags, id) ==
    IF HasNone(c, sw, flags) THEN Talks(c, sw, id, 0) ELSE Silent(c, sw)

(* In each state of the app: the flags a switch may have, and what is      *)
(* under way.                                                              *)
InBegin(c, sw) == HasNone(c, sw, Flags) /\ Silent(c, sw)

InLock(c, sw) ==
    /\ HasNone(c, sw, Flags \ {"LockedRunning"})
    /\ Silent(c, sw) \/ (Talks(c, sw, "Lock", 0) /\ ~ Has(c, sw, "LockedRunning"))

InCopy(c, sw) ==
    /\ Has(c, sw, "LockedRunning")
    /\ HasNone(c, sw, {"LockedCandidate", "Configuration", "CommitTimeStamp", "Commited"})
    /\ ~ (Has(c, sw, "Candidate") /\ Has(c, sw, "Error"))
    /\ AskedUnless(c, sw, {"Candidate", "Error"}, "Copy Config")

InCandidateLock(c, sw) ==
    /\ HasAll(c, sw, {"LockedRunning", "Candidate"})
    /\ HasNone(c, sw, {"Configuration", "CommitTimeStamp", "Commited", "Error"})
    /\ AskedUnless(c, sw, {"LockedCandidate"}, "Lock Candidate")

InChange(c, sw) ==
    /\ HasAll(c, sw, {"LockedRunning", "Candidate", "LockedCandidate"})
    /\ HasNone(c, sw, {"CommitTimeStamp", "Commited"})
    /\ ~ (Has(c, sw, "Configuration") /\ Has(c, sw, "Error"))
    /\ IF HasNone(c, sw, {"Configuration", "Error"})
       THEN \E n \in 1 .. Len(plan[c][sw]) : Talks(c, sw, "Change", n)
       ELSE Silent(c, sw)

InTimestamp(c, sw) ==
    /\ HasAll(c, sw, Staged) /\ ~ Has(c, sw, "Commited")
    /\ ~ (Has(c, sw, "CommitTimeStamp") /\ Has(c, sw, "Error"))
    /\ AskedUnless(c, sw, {"CommitTimeStamp", "Error"}, "Timestamp")

InCommit(c, sw) ==
    /\ HasAll(c, sw, Staged) /\ ~ Has(c, sw, "Error")
    /\ c \in TimedApps => Has(c, sw, "CommitTimeStamp")
    /\ IF Has(c, sw, "Commited") THEN Silent(c, sw)
       ELSE \/ Talks(c, sw, "Commit approved", 0)
            \/ Silent(c, sw) /\ stores[sw].commitOperation = c

InDeleteOld(c, sw) ==
    /\ HasAll(c, sw, {"LockedRunning", "Commited"}) /\ ~ Has(c, sw, "Error")
    /\ Has(c, sw, "LockedCandidate") <=> Has(c, sw, "Candidate")
    /\ IF Has(c, sw, "Candidate") THEN Talks(c, sw, "Delete Old Config", 0) ELSE Silent(c, sw)

InError(c, sw) ==
    /\ Has(c, sw, "LockedRunning") /\ ~ Has(c, sw, "Commited")
    /\ Has(c, sw, "LockedCandidate") => Has(c, sw, "Candidate")
    /\ Silent(c, sw)

InDelete(c, sw) ==
    /\ Has(c, sw, "LockedRunning") /\ ~ Has(c, sw, "Commited")
    /\ Has(c, sw, "LockedCandidate") => Has(c, sw, "Candidate")
    /\ IF Has(c, sw, "Candidate") THEN Talks(c, sw, "Delete Candidate Config", 0) ELSE Silent(c, sw)

InUnlock(c, sw) ==
    /\ HasNone(c, sw, {"Candidate", "LockedCandidate"})
    /\ Silent(c, sw) \/ Talks(c, sw, "Unlock", 0)

InEnd(c, sw) == ~ Has(c, sw, "LockedRunning") /\ InUnlock(c, sw)

InState(c, sw, state) ==
    CASE state = "BeginOfTransaction"          -> InBegin(c, sw)
      [] state = "WaitOnLockResponse"          -> InLock(c, sw)
      [] state = "WaitOnCandidateConfirmation" -> InCopy(c, sw)
      [] state = "WaitOnCandidateLockResponse" -> InCandidateLock(c, sw)
      [] state = "WaitOnChangeConfirmation"    -> InChange(c, sw)
      [] state = "WaitOnTimestampConfirmation" -> InTimestamp(c, sw)
      [] state = "WaitOnCommitExecution"       -> InCommit(c, sw)
      [] state = "WaitOnDeleteOldConfiguration"-> InDeleteOld(c, sw)
      [] state = "ErrorState"                  -> InError(c, sw)
      [] state = "WaitOnDeleteCandidate"       -> InDelete(c, sw)
      [] state = "WaitOnUnlock"                -> InUnlock(c, sw)
      [] state = "EndOfTransaction"            -> InEnd(c, sw)
      [] OTHER                                 -> FALSE

(* What an app asks for, one switch at a time while it locks.              *)
Conversation(c) ==
    /\ \A sw \in Switches : InState(c, sw, apps[c].state)
    /\ apps[c].state = "WaitOnLockResponse" =>
          \A sw, other \in Switches : ~ Silent(c, sw) /\ ~ Silent(c, other) => sw = other
    /\ apps[c].state \in {"WaitOnUnlock", "EndOfTransaction"} =>
          \/ \A sw \in Switches : Has(c, sw, "Commited")
          \/ \A sw \in Switches : ~ Has(c, sw, "Commited")

Protocol == \A c \in Apps : Conversation(c)

(* The locks of a switch are an app's exactly from the reply that grants   *)
(* them to the reply that takes them back.                                 *)
Owns(c, sw) ==
    \/ Has(c, sw, "LockedRunning") /\ ~ Replied(c, sw, "Unlock", 0, "ok")
    \/ Replied(c, sw, "Lock", 0, "ok")

OwnsCandidate(c, sw) ==
    \/ /\ Has(c, sw, "LockedCandidate")
       /\ \A id \in {"Delete Old Config", "Delete Candidate Config"} : ~ Replied(c, sw, id, 0, "ok")
    \/ Replied(c, sw, "Lock Candidate", 0, "ok")

LocksOwned ==
    \A c \in Apps, sw \in Switches :
        /\ stores[sw].runningLock = c <=> Owns(c, sw)
        /\ stores[sw].candidateLock = c <=> OwnsCandidate(c, sw)

(* A commit is scheduled for an app that waits for it.                     *)
CommitAwaited ==
    \A c \in Apps, sw \in Switches : stores[sw].commitOperation = c =>
        /\ apps[c].state = "WaitOnCommitExecution"
        /\ Silent(c, sw) /\ ~ Has(c, sw, "Commited")

ProtocolInv == Shapes /\ Protocol /\ LocksOwned /\ CommitAwaited

-----------------------------------------------------------------------------
(* Operators of the model.                                                 *)
LEMMA Short ==
    /\ << >> \o << >> = << >>
    /\ \A m \in Requests : /\ << >> \o << m >> = << m >> /\ << m >> \o << >> = << m >>
                           /\ << m >> # << >> /\ Head(<< m >>) = m /\ Tail(<< m >>) = << >>
    /\ \A m \in Replies : /\ Append(<< >>, m) = << m >> /\ << m >> # << >>
                          /\ Head(<< m >>) = m /\ Tail(<< m >>) = << >>
OBVIOUS

LEMMA MessageFacts ==
    ASSUME NEW id \in Ids, NEW n \in Nat
    PROVE  /\ Message(id, n) \in Requests /\ Message(id, n).id = id /\ Message(id, n).n = n
           /\ \A status \in {"ok", "error"} :
                 [id |-> id, n |-> n, status |-> status] \in Replies
BY DEF Message, Requests, Replies

(* The messages of a step.                                                 *)
Sending(out) == out \in [Switches -> Seq(Requests)]

LEMMA MessageSeq ==
    /\ << >> \in Seq(Requests)
    /\ \A id \in Ids, n \in Nat : << Message(id, n) >> \in Seq(Requests)
<1>1. \A m \in Requests : << m >> \in Seq(Requests)
    OBVIOUS
<1>2. \A id \in Ids, n \in Nat : Message(id, n) \in Requests
    BY MessageFacts
<1> QED BY <1>1, <1>2

LEMMA ToNoneFacts == Sending(ToNone) /\ \A s \in Switches : ToNone[s] = << >>
BY MessageSeq DEF ToNone, Sending

LEMMA ToAllFacts ==
    ASSUME NEW id \in Ids
    PROVE  Sending(ToAll(id)) /\ \A s \in Switches : ToAll(id)[s] = << Message(id, 0) >>
BY MessageSeq DEF ToAll, Sending

LEMMA ToFacts ==
    ASSUME NEW id \in Ids, NEW n \in Nat, NEW sw \in Switches
    PROVE  /\ Sending(To(sw, id, n)) /\ To(sw, id, n)[sw] = << Message(id, n) >>
           /\ \A s \in Switches \ {sw} : To(sw, id, n)[s] = << >>
<1>1. << Message(id, n) >> \in Seq(Requests)
    BY MessageSeq
<1> QED BY <1>1, ToNoneFacts DEF To, Sending

LEMMA InStateFacts ==
    ASSUME NEW F \in SUBSET Flags
    PROVE  /\ isInState(F, "Available") <=>
                 \A f \in Flags \ {"CommitTimeStamp"} : f \notin F
           /\ isInState(F, "Locked") <=> "LockedRunning" \in F /\ "Error" \notin F
           /\ isInState(F, "WithCandidate") <=>
                 /\ "LockedRunning" \in F /\ "Candidate" \in F /\ "LockedCandidate" \notin F
                 /\ "Configuration" \notin F /\ "Commited" \notin F /\ "Error" \notin F
           /\ isInState(F, "WithLockedCandidate") <=>
                 /\ "LockedRunning" \in F /\ "Candidate" \in F /\ "LockedCandidate" \in F
                 /\ "Configuration" \notin F /\ "Commited" \notin F /\ "Error" \notin F
           /\ isInState(F, "WithChangedCandidateConfiguration") <=>
                 (\A f \in Staged : f \in F) /\ "Commited" \notin F /\ "Error" \notin F
           /\ isInState(F, "WithTimestamp") <=>
                 /\ \A f \in Staged : f \in F
                 /\ "Commited" \notin F /\ "Error" \notin F /\ "CommitTimeStamp" \in F
           /\ isInState(F, "Commited") <=>
                 (\A f \in Staged : f \in F) /\ "Commited" \in F /\ "Error" \notin F
           /\ isInState(F, "WithoutCandidate") <=>
                 "LockedRunning" \in F /\ "Candidate" \notin F /\ "Commited" \notin F
           /\ isInState(F, "WithoutOldConfig") <=>
                 "LockedRunning" \in F /\ "Commited" \in F /\ "Candidate" \notin F
           /\ isInState(F, "Unlocked") <=> "LockedRunning" \notin F
           /\ isInState(F, "Error") <=> "Error" \in F
<1> DEFINE G == F \ {"CommitTimeStamp"}
<1>1. \A f \in Flags \ {"CommitTimeStamp"} : f \in G <=> f \in F
    OBVIOUS
<1>2. G \subseteq Flags \ {"CommitTimeStamp"}
    OBVIOUS
<1>3. isInState(F, "Available") <=> G = {}
    BY DEF isInState
<1>4. isInState(F, "Locked") <=> "LockedRunning" \in G /\ "Error" \notin G
    BY DEF isInState
<1>5. isInState(F, "WithCandidate") <=> G = {"LockedRunning", "Candidate"}
    BY DEF isInState
<1>6. isInState(F, "WithLockedCandidate") <=>
          G = {"LockedRunning", "Candidate", "LockedCandidate"}
    BY DEF isInState
<1>7. isInState(F, "WithChangedCandidateConfiguration") <=> G = Staged
    BY DEF isInState
<1>8. isInState(F, "WithTimestamp") <=> G = Staged /\ "CommitTimeStamp" \in F
    BY DEF isInState
<1>9. isInState(F, "Commited") <=> G = Staged \cup {"Commited"}
    BY DEF isInState
<1>10. isInState(F, "WithoutCandidate") <=>
           "LockedRunning" \in G /\ G \cap {"Candidate", "Commited"} = {}
    BY DEF isInState
<1>11. isInState(F, "WithoutOldConfig") <=>
           {"LockedRunning", "Commited"} \subseteq G /\ "Candidate" \notin G
    BY DEF isInState
<1>12. isInState(F, "Unlocked") <=> "LockedRunning" \notin G
    BY DEF isInState
<1>13. isInState(F, "Error") <=> "Error" \in G
    BY DEF isInState
<1>14. Flags = {"LockedRunning", "Candidate", "LockedCandidate", "Configuration",
                "CommitTimeStamp", "Commited", "Error"}
    BY DEF Flags, Staged
<1> HIDE DEF G
<1>15. /\ "LockedRunning" \in F <=> "LockedRunning" \in G
       /\ "Candidate" \in F <=> "Candidate" \in G
       /\ "LockedCandidate" \in F <=> "LockedCandidate" \in G
       /\ "Configuration" \in F <=> "Configuration" \in G
       /\ "Commited" \in F <=> "Commited" \in G
       /\ "Error" \in F <=> "Error" \in G
       /\ \A f \in G : f \in {"LockedRunning", "Candidate", "LockedCandidate", "Configuration",
                              "Commited", "Error"}
    BY <1>1, <1>2, <1>14
<1>16. isInState(F, "Available") <=> \A f \in Flags \ {"CommitTimeStamp"} : f \notin F
    BY <1>1, <1>2, <1>3
<1>17. isInState(F, "WithCandidate") <=>
           /\ "LockedRunning" \in F /\ "Candidate" \in F /\ "LockedCandidate" \notin F
           /\ "Configuration" \notin F /\ "Commited" \notin F /\ "Error" \notin F
    BY <1>5, <1>15
<1>18. isInState(F, "WithLockedCandidate") <=>
           /\ "LockedRunning" \in F /\ "Candidate" \in F /\ "LockedCandidate" \in F
           /\ "Configuration" \notin F /\ "Commited" \notin F /\ "Error" \notin F
    BY <1>6, <1>15
<1>19. isInState(F, "WithChangedCandidateConfiguration") <=>
           (\A f \in Staged : f \in F) /\ "Commited" \notin F /\ "Error" \notin F
    BY <1>7, <1>15 DEF Staged
<1>20. isInState(F, "WithTimestamp") <=>
           /\ \A f \in Staged : f \in F
           /\ "Commited" \notin F /\ "Error" \notin F /\ "CommitTimeStamp" \in F
    BY <1>8, <1>15 DEF Staged
<1>21. isInState(F, "Commited") <=>
           (\A f \in Staged : f \in F) /\ "Commited" \in F /\ "Error" \notin F
    BY <1>9, <1>15 DEF Staged
<1>22. isInState(F, "WithoutCandidate") <=>
           "LockedRunning" \in F /\ "Candidate" \notin F /\ "Commited" \notin F
    BY <1>10, <1>15
<1>23. isInState(F, "WithoutOldConfig") <=>
           "LockedRunning" \in F /\ "Commited" \in F /\ "Candidate" \notin F
    BY <1>11, <1>15
<1> QED BY <1>4, <1>12, <1>13, <1>15, <1>16, <1>17, <1>18, <1>19, <1>20, <1>21, <1>22, <1>23

-----------------------------------------------------------------------------
(* The parts of a step of an app.                                          *)
(* What an app may have become on a reply: flags of the switch were set or *)
(* reset, and the result or the timestamp was determined.                  *)
Flagged(c, sw, set, reset, a) ==
    /\ set \subseteq Flags /\ reset \subseteq Flags
    /\ \/ a = WithFlags(c, sw, set, reset)
       \/ a = [WithFlags(c, sw, set, reset) EXCEPT !.result = FALSE]
       \/ a = determineTimestamp(WithFlags(c, sw, set, reset))
       \/ set = {} /\ reset = {} /\ a = apps[c]

LEMMA WithFlagsFacts ==
    ASSUME Shapes, NEW c \in Sessions, NEW sw \in Switches,
           NEW set, NEW reset, NEW a, Flagged(c, sw, set, reset, a)
    PROVE  /\ a \in AppRecords
           /\ \A flag : flag \in a.flags[sw] <=>
                           (flag \in apps[c].flags[sw] \/ flag \in set) /\ flag \notin reset
           /\ \A s \in Switches \ {sw} : a.flags[s] = apps[c].flags[s]
<1>1. apps[c] \in AppRecords /\ set \in SUBSET Flags /\ reset \in SUBSET Flags
    BY DEF Shapes, Flagged
<1>2. PICK b : b = WithFlags(c, sw, set, reset)
    OBVIOUS
<1>3. b = [apps[c] EXCEPT !.flags = [apps[c].flags EXCEPT ![sw] = (@ \cup set) \ reset]]
    BY <1>2 DEF WithFlags
<1> DEFINE flags == [apps[c].flags EXCEPT ![sw] = (@ \cup set) \ reset]
<1>4. /\ flags \in [Switches -> SUBSET Flags]
      /\ \A flag : flag \in flags[sw] <=>
                      (flag \in apps[c].flags[sw] \/ flag \in set) /\ flag \notin reset
      /\ \A s \in Switches \ {sw} : flags[s] = apps[c].flags[s]
    BY <1>1 DEF AppRecords
<1> HIDE DEF flags
<1>5. b.flags = flags /\ b \in AppRecords
    BY <1>1, <1>3, <1>4 DEF AppRecords, flags
<1>6. \/ a = b \/ a = [b EXCEPT !.result = FALSE] \/ a = [b EXCEPT !.timestamp = Lead]
      \/ set = {} /\ reset = {} /\ a = apps[c]
    BY <1>2 DEF Flagged, determineTimestamp
<1>7. CASE set = {} /\ reset = {} /\ a = apps[c]
    BY <1>1, <1>7
<1>8. CASE a = b \/ a = [b EXCEPT !.result = FALSE] \/ a = [b EXCEPT !.timestamp = Lead]
  <2>1. Lead \in -1 .. Lead /\ FALSE \in BOOLEAN
      BY Constants
  <2>2. a.flags = flags /\ a \in AppRecords
      BY <1>5, <1>8, <2>1 DEF AppRecords
  <2> QED BY <1>4, <2>2
<1> QED BY <1>6, <1>7, <1>8

LEMMA EnterFacts ==
    ASSUME Shapes, NEW c \in Sessions, NEW a \in AppRecords, NEW next \in States,
           NEW out, Sending(out), Enter(c, a, next, out)
    PROVE  /\ apps' \in [Sessions -> AppRecords]
           /\ apps'[c].state = next /\ apps'[c].flags = a.flags
           /\ apps'[c].timestamp = a.timestamp /\ apps'[c].released = a.released
           /\ requests' \in [Sessions -> [Switches -> Seq(Requests)]]
           /\ \A s \in Switches : requests'[c][s] = requests[c][s] \o out[s]
           /\ \A d \in Sessions \ {c} : apps'[d] = apps[d] /\ requests'[d] = requests[d]
           /\ stores' = stores /\ plan' = plan /\ aborted' = aborted
<1> DEFINE b == transitionToState(a, next)
           r == [s \in Switches |-> requests[c][s] \o out[s]]
<1>1. /\ b \in AppRecords /\ b.state = next /\ b.flags = a.flags
      /\ b.timestamp = a.timestamp /\ b.released = a.released
    BY DEF transitionToState, AppRecords
<1>2. /\ r \in [Switches -> Seq(Requests)]
      /\ \A s \in Switches : r[s] = requests[c][s] \o out[s]
  <2>1. \A s \in Switches : requests[c][s] \in Seq(Requests) /\ out[s] \in Seq(Requests)
      BY DEF Shapes, Sending
  <2>2. \A s \in Switches : requests[c][s] \o out[s] \in Seq(Requests)
      BY <2>1
  <2> QED BY <2>2
<1>3. apps' = [apps EXCEPT ![c] = b] /\ requests' = [requests EXCEPT ![c] = r]
    BY DEF Enter
<1> HIDE DEF b, r
<1>4. stores' = stores /\ plan' = plan /\ aborted' = aborted
    BY DEF Enter
<1> QED BY <1>1, <1>2, <1>3, <1>4 DEF Shapes

(* A reply is received from a switch that was asked.                       *)
LEMMA ReceiveFacts ==
    ASSUME Shapes, NEW c \in Sessions, NEW sw \in Switches, NEW state, NEW i, NEW status,
           NEW id \in Ids, NEW n \in Nat, Silent(c, sw) \/ Talks(c, sw, id, n),
           Receive(c, sw, state, i, status)
    PROVE  /\ ~ aborted /\ apps[c].state = state /\ i = id
           /\ Replied(c, sw, id, n, status) /\ Head(replies[c][sw]).n = n
           /\ ~ Silent(c, sw)
           /\ replies' \in [Sessions -> [Switches -> Seq(Replies)]]
           /\ replies'[c][sw] = << >> /\ requests[c][sw] = << >>
           /\ \A s \in Switches \ {sw} : replies'[c][s] = replies[c][s]
           /\ \A d \in Sessions \ {c} : replies'[d] = replies[d]
<1>1. /\ ~ aborted /\ apps[c].state = state /\ replies[c][sw] # << >>
      /\ Head(replies[c][sw]).id = i /\ Head(replies[c][sw]).status = status
      /\ replies' = [replies EXCEPT ![c] = [replies[c] EXCEPT ![sw] = Tail(replies[c][sw])]]
    BY DEF Receive
<1>2. ~ Silent(c, sw) /\ ~ Asked(c, sw, id, n)
    BY <1>1 DEF Silent, Asked
<1>3. PICK st \in {"ok", "error"} : Replied(c, sw, id, n, st)
    BY <1>2 DEF Talks
<1>4. PICK m : m = [id |-> id, n |-> n, status |-> st]
    OBVIOUS
<1>5. m \in Replies /\ m.id = id /\ m.status = st /\ m.n = n /\ replies[c][sw] = << m >>
      /\ requests[c][sw] = << >>
    BY <1>3, <1>4, MessageFacts DEF Replied
<1>6. Head(replies[c][sw]) = m /\ Tail(replies[c][sw]) = << >>
    BY <1>5, Short
<1>7. i = id /\ status = st /\ Head(replies[c][sw]).n = n
    BY <1>1, <1>5, <1>6
<1> DEFINE r == [replies[c] EXCEPT ![sw] = << >>]
<1>8. /\ r \in [Switches -> Seq(Replies)] /\ r[sw] = << >>
      /\ \A s \in Switches \ {sw} : r[s] = replies[c][s]
  <2>1. << >> \in Seq(Replies) /\ replies[c] \in [Switches -> Seq(Replies)]
      BY DEF Shapes
  <2> QED BY <2>1
<1>9. replies' = [replies EXCEPT ![c] = r]
    BY <1>1, <1>6
<1> HIDE DEF r
<1>10. /\ replies' \in [Sessions -> [Switches -> Seq(Replies)]] /\ replies'[c] = r
       /\ \A d \in Sessions \ {c} : replies'[d] = replies[d]
    BY <1>8, <1>9 DEF Shapes
<1> QED BY <1>1, <1>2, <1>3, <1>5, <1>7, <1>8, <1>10

-----------------------------------------------------------------------------
(* A step of app c on the reply of a switch: what changes is the           *)
(* conversation of c alone.                                                *)
Elsewhere(c) ==
    /\ stores' = stores /\ plan' = plan /\ aborted' = aborted
    /\ \A d \in Sessions \ {c} : /\ apps'[d] = apps[d] /\ requests'[d] = requests[d]
                                 /\ replies'[d] = replies[d]

Marks(c, sw, set, reset) ==
    \A flag : Has(c, sw, flag)' <=> (Has(c, sw, flag) \/ flag \in set) /\ flag \notin reset

Sends(c, sw, out) ==
    /\ out[sw] = << >> => Silent(c, sw)'
    /\ \A id \in Ids, n \in Nat : out[sw] = << Message(id, n) >> => Asked(c, sw, id, n)'

Moves(c, a, next) ==
    /\ Shapes' /\ Elsewhere(c) /\ a \in AppRecords
    /\ apps'[c].state = next /\ apps'[c].flags = a.flags
    /\ apps'[c].timestamp = a.timestamp /\ apps'[c].released = a.released

(* Switch s is not concerned by the step.                                  *)
Untouched(c, s) ==
    /\ \A flag : Has(c, s, flag)' <=> Has(c, s, flag)
    /\ requests'[c][s] = requests[c][s] /\ replies'[c][s] = replies[c][s]

Answered(c, sw, set, reset, out) ==
    /\ Marks(c, sw, set, reset) /\ Sends(c, sw, out)
    /\ \A s \in Switches \ {sw} :
          /\ Marks(c, s, {}, {})
          /\ Silent(c, s) => Sends(c, s, out)
          /\ out[s] = << >> => Untouched(c, s)

LEMMA Answer ==
    ASSUME Shapes, NEW c \in Apps, NEW sw \in Switches, NEW state, NEW i, NEW status,
           NEW id \in Ids, NEW n \in Nat, Silent(c, sw) \/ Talks(c, sw, id, n),
           Receive(c, sw, state, i, status),
           NEW set, NEW reset, NEW a,
           Flagged(c, sw, set, reset, a),
           NEW next \in States, NEW out, Sending(out), Enter(c, a, next, out)
    PROVE  /\ Moves(c, a, next) /\ apps[c].state = state /\ i = id
           /\ Replied(c, sw, id, n, status)
           /\ Answered(c, sw, set, reset, out)
<1>1. c \in Sessions
    BY DEF Apps
<1>2. /\ ~ aborted /\ apps[c].state = state /\ i = id
      /\ Replied(c, sw, id, n, status) /\ Head(replies[c][sw]).n = n
      /\ replies' \in [Sessions -> [Switches -> Seq(Replies)]]
      /\ replies'[c][sw] = << >> /\ requests[c][sw] = << >>
      /\ \A s \in Switches \ {sw} : replies'[c][s] = replies[c][s]
      /\ \A d \in Sessions \ {c} : replies'[d] = replies[d]
    BY <1>1, ReceiveFacts
<1>5. /\ a \in AppRecords
      /\ \A flag : flag \in a.flags[sw] <=>
                      (flag \in apps[c].flags[sw] \/ flag \in set) /\ flag \notin reset
      /\ \A s \in Switches \ {sw} : a.flags[s] = apps[c].flags[s]
    BY <1>1, WithFlagsFacts
<1>6. /\ apps' \in [Sessions -> AppRecords]
      /\ apps'[c].state = next /\ apps'[c].flags = a.flags
      /\ apps'[c].timestamp = a.timestamp /\ apps'[c].released = a.released
      /\ requests' \in [Sessions -> [Switches -> Seq(Requests)]]
      /\ \A s \in Switches : requests'[c][s] = requests[c][s] \o out[s]
      /\ \A d \in Sessions \ {c} : apps'[d] = apps[d] /\ requests'[d] = requests[d]
      /\ stores' = stores /\ plan' = plan /\ aborted' = aborted
    BY <1>1, <1>5, EnterFacts
<1>7. Moves(c, a, next)
  <2>1. Shapes'
      BY <1>2, <1>6 DEF Shapes, Apps
  <2> QED BY <1>2, <1>5, <1>6, <2>1 DEF Moves, Elsewhere
<1>8. Marks(c, sw, set, reset) /\ \A s \in Switches \ {sw} : Marks(c, s, {}, {})
    BY <1>5, <1>6 DEF Marks, Has
<1>9. Sends(c, sw, out)
  <2>1. requests'[c][sw] = << >> \o out[sw]
      BY <1>2, <1>6
  <2>2. out[sw] = << >> => Silent(c, sw)'
      BY <1>2, <2>1, Short DEF Silent
  <2>3. ASSUME NEW j \in Ids, NEW m \in Nat, out[sw] = << Message(j, m) >>
        PROVE  Asked(c, sw, j, m)'
      BY <1>2, <2>1, <2>3, Short, MessageFacts DEF Asked
  <2> QED BY <2>2, <2>3 DEF Sends
<1>10. ASSUME NEW s \in Switches \ {sw}, Silent(c, s)
       PROVE  Sends(c, s, out)
  <2>1. requests'[c][s] = << >> \o out[s] /\ replies'[c][s] = << >>
      BY <1>2, <1>6, <1>10 DEF Silent
  <2>2. out[s] = << >> => Silent(c, s)'
      BY <2>1, Short DEF Silent
  <2>3. ASSUME NEW j \in Ids, NEW m \in Nat, out[s] = << Message(j, m) >>
        PROVE  Asked(c, s, j, m)'
      BY <2>1, <2>3, Short, MessageFacts DEF Asked
  <2> QED BY <2>2, <2>3 DEF Sends
<1>11. ASSUME NEW s \in Switches \ {sw}, out[s] = << >>
       PROVE  Untouched(c, s)
  <2>1. requests'[c][s] = requests[c][s] \o << >> /\ requests[c][s] \in Seq(Requests)
      BY <1>1, <1>6, <1>11, ZenonT(30) DEF Shapes
  <2>2. requests'[c][s] = requests[c][s]
      BY <2>1
  <2> QED BY <1>2, <1>5, <1>6, <1>11, <2>2 DEF Untouched, Has
<1> QED BY <1>2, <1>7, <1>8, <1>9, <1>10, <1>11 DEF Answered

LEMMA InStateCases ==
    ASSUME NEW c \in Apps, NEW s \in Switches
    PROVE  /\ InState(c, s, "BeginOfTransaction") <=> InBegin(c, s)
           /\ InState(c, s, "WaitOnLockResponse") <=> InLock(c, s)
           /\ InState(c, s, "WaitOnCandidateConfirmation") <=> InCopy(c, s)
           /\ InState(c, s, "WaitOnCandidateLockResponse") <=> InCandidateLock(c, s)
           /\ InState(c, s, "WaitOnChangeConfirmation") <=> InChange(c, s)
           /\ InState(c, s, "WaitOnTimestampConfirmation") <=> InTimestamp(c, s)
           /\ InState(c, s, "WaitOnCommitExecution") <=> InCommit(c, s)
           /\ InState(c, s, "WaitOnDeleteOldConfiguration") <=> InDeleteOld(c, s)
           /\ InState(c, s, "ErrorState") <=> InError(c, s)
           /\ InState(c, s, "WaitOnDeleteCandidate") <=> InDelete(c, s)
           /\ InState(c, s, "WaitOnUnlock") <=> InUnlock(c, s)
           /\ InState(c, s, "EndOfTransaction") <=> InEnd(c, s)
BY DEF InState

(* What holds of a switch that is not concerned still holds.               *)
LEMMA UntouchedFacts ==
    ASSUME NEW c \in Apps, NEW s \in Switches, Untouched(c, s), plan' = plan,
           stores'[s].commitOperation = c <=> stores[s].commitOperation = c
    PROVE  /\ \A state \in States : InState(c, s, state)' <=> InState(c, s, state)
           /\ Silent(c, s)' <=> Silent(c, s)
           /\ Owns(c, s)' <=> Owns(c, s)
           /\ OwnsCandidate(c, s)' <=> OwnsCandidate(c, s)
<1>1. \A flag : Has(c, s, flag)' <=> Has(c, s, flag)
    BY DEF Untouched
<1>2. /\ Silent(c, s)' <=> Silent(c, s)
      /\ \A id, n : Asked(c, s, id, n)' <=> Asked(c, s, id, n)
      /\ \A id, n, status : Replied(c, s, id, n, status)' <=> Replied(c, s, id, n, status)
    BY DEF Untouched, Silent, Asked, Replied
<1>3. \A id, n : Talks(c, s, id, n)' <=> Talks(c, s, id, n)
    BY <1>2 DEF Talks
<1>4. /\ \A flags : HasAll(c, s, flags)' <=> HasAll(c, s, flags)
      /\ \A flags : HasNone(c, s, flags)' <=> HasNone(c, s, flags)
    BY <1>1 DEF HasAll, HasNone
<1>5. \A flags, id : AskedUnless(c, s, flags, id)' <=> AskedUnless(c, s, flags, id)
    BY <1>2, <1>3, <1>4 DEF AskedUnless
<1>6. /\ InBegin(c, s)' <=> InBegin(c, s)
      /\ InLock(c, s)' <=> InLock(c, s)
      /\ InCopy(c, s)' <=> InCopy(c, s)
      /\ InCandidateLock(c, s)' <=> InCandidateLock(c, s)
      /\ InTimestamp(c, s)' <=> InTimestamp(c, s)
    BY <1>1, <1>2, <1>3, <1>4, <1>5 DEF InBegin, InLock, InCopy, InCandidateLock, InTimestamp
<1>7. InChange(c, s)' <=> InChange(c, s)
    BY <1>1, <1>2, <1>3, <1>4 DEF InChange
<1>8. InCommit(c, s)' <=> InCommit(c, s)
    BY <1>1, <1>2, <1>3, <1>4 DEF InCommit
<1>9. /\ InDeleteOld(c, s)' <=> InDeleteOld(c, s)
      /\ InError(c, s)' <=> InError(c, s)
      /\ InDelete(c, s)' <=> InDelete(c, s)
      /\ InUnlock(c, s)' <=> InUnlock(c, s)
      /\ InEnd(c, s)' <=> InEnd(c, s)
    BY <1>1, <1>2, <1>3, <1>4 DEF InDeleteOld, InError, InDelete, InUnlock, InEnd
<1>10. \A state \in States : InState(c, s, state)' <=> InState(c, s, state)
  <2> SUFFICES ASSUME NEW state \in States
               PROVE  InState(c, s, state)' <=> InState(c, s, state)
      OBVIOUS
  <2>1. ASSUME state = "BeginOfTransaction" PROVE InState(c, s, state)' <=> InState(c, s, state)
      BY <2>1, <1>6 DEF InState
  <2>2. ASSUME state = "WaitOnLockResponse" PROVE InState(c, s, state)' <=> InState(c, s, state)
      BY <2>2, <1>6 DEF InState
  <2>3. ASSUME state = "WaitOnCandidateConfirmation" PROVE InState(c, s, state)' <=> InState(c, s, state)
      BY <2>3, <1>6 DEF InState
  <2>4. ASSUME state = "WaitOnCandidateLockResponse" PROVE InState(c, s, state)' <=> InState(c, s, state)
      BY <2>4, <1>6 DEF InState
  <2>5. ASSUME state = "WaitOnChangeConfirmation" PROVE InState(c, s, state)' <=> InState(c, s, state)
      BY <2>5, <1>7 DEF InState
  <2>6. ASSUME state = "WaitOnTimestampConfirmation" PROVE InState(c, s, state)' <=> InState(c, s, state)
      BY <2>6, <1>6 DEF InState
  <2>7. ASSUME state = "WaitOnCommitExecution" PROVE InState(c, s, state)' <=> InState(c, s, state)
      BY <2>7, <1>8 DEF InState
  <2>8. ASSUME state = "WaitOnDeleteOldConfiguration" PROVE InState(c, s, state)' <=> InState(c, s, state)
      BY <2>8, <1>9 DEF InState
  <2>9. ASSUME state = "ErrorState" PROVE InState(c, s, state)' <=> InState(c, s, state)
      BY <2>9, <1>9 DEF InState
  <2>10. ASSUME state = "WaitOnDeleteCandidate" PROVE InState(c, s, state)' <=> InState(c, s, state)
      BY <2>10, <1>9 DEF InState
  <2>11. ASSUME state = "WaitOnUnlock" PROVE InState(c, s, state)' <=> InState(c, s, state)
      BY <2>11, <1>9 DEF InState
  <2>12. ASSUME state = "EndOfTransaction" PROVE InState(c, s, state)' <=> InState(c, s, state)
      BY <2>12, <1>9 DEF InState
  <2> QED BY <2>1, <2>2, <2>3, <2>4, <2>5, <2>6, <2>7, <2>8, <2>9, <2>10, <2>11, <2>12 DEF States
<1> QED BY <1>1, <1>2, <1>10 DEF Owns, OwnsCandidate

(* The app's view of its own locks does not change by its own steps; the   *)
(* locks of others are not concerned.                                      *)
OwnsKept(c) ==
    \A sw \in Switches :
        /\ Owns(c, sw)' <=> Owns(c, sw)
        /\ OwnsCandidate(c, sw)' <=> OwnsCandidate(c, sw)

CommitKept(c) ==
    \A sw \in Switches : stores[sw].commitOperation = c =>
        /\ apps'[c].state = "WaitOnCommitExecution"
        /\ Silent(c, sw)' /\ ~ Has(c, sw, "Commited")'

(* What another app is doing is not concerned.                             *)
LEMMA OtherApp ==
    ASSUME Shapes, NEW c \in Apps, Elsewhere(c), NEW d \in Apps, d # c, NEW s \in Switches
    PROVE  /\ InState(d, s, apps[d].state)' <=> InState(d, s, apps[d].state)
           /\ Silent(d, s)' <=> Silent(d, s)
           /\ Owns(d, s)' <=> Owns(d, s)
           /\ OwnsCandidate(d, s)' <=> OwnsCandidate(d, s)
           /\ \A flag : Has(d, s, flag)' <=> Has(d, s, flag)
           /\ apps'[d] = apps[d]
<1>1. apps'[d] = apps[d] /\ d \in Sessions
    BY DEF Elsewhere, Apps
<1>2. Untouched(d, s) /\ stores' = stores /\ plan' = plan
    BY DEF Elsewhere, Untouched, Has, Apps
<1>3. PICK st : st = apps[d].state /\ st \in States
    BY <1>1 DEF Shapes, AppRecords
<1>4. /\ InState(d, s, st)' <=> InState(d, s, st)
      /\ Silent(d, s)' <=> Silent(d, s)
      /\ Owns(d, s)' <=> Owns(d, s)
      /\ OwnsCandidate(d, s)' <=> OwnsCandidate(d, s)
    BY <1>2, <1>3, UntouchedFacts
<1>5. InState(d, s, apps[d].state)' <=> InState(d, s, st)'
    BY <1>1, <1>3 DEF InState
<1> QED BY <1>1, <1>2, <1>3, <1>4, <1>5 DEF Untouched

LEMMA AppInv ==
    ASSUME ProtocolInv, NEW c \in Apps, Shapes', Elsewhere(c), Conversation(c)',
           OwnsKept(c), CommitKept(c)
    PROVE  ProtocolInv'
<1>1. stores' = stores /\ Apps' = Apps /\ plan' = plan /\ Shapes
    BY DEF Elsewhere, Apps, ProtocolInv
<1>2. ASSUME NEW d \in Apps, d # c PROVE Conversation(d)'
  <2>1. Conversation(d)
      BY DEF ProtocolInv, Protocol
  <2>2. apps'[d] = apps[d]
      BY <1>2 DEF Elsewhere, Apps
  <2>3. \A s \in Switches : InState(d, s, apps[d].state)'
    <3>1. ASSUME NEW s \in Switches PROVE InState(d, s, apps[d].state)'
        BY <1>1, <1>2, <2>1, OtherApp DEF Conversation
    <3> QED BY <3>1
  <2>4. \A s \in Switches : /\ Silent(d, s)' <=> Silent(d, s)
                            /\ Has(d, s, "Commited")' <=> Has(d, s, "Commited")
    <3>1. ASSUME NEW s \in Switches
          PROVE  /\ Silent(d, s)' <=> Silent(d, s)
                 /\ Has(d, s, "Commited")' <=> Has(d, s, "Commited")
        BY <1>1, <1>2, OtherApp
    <3> QED BY <3>1
  <2> QED BY <2>1, <2>2, <2>3, <2>4 DEF Conversation
<1>3. Protocol'
    BY <1>1, <1>2 DEF Protocol
<1>4. LocksOwned'
  <2> SUFFICES ASSUME NEW d \in Apps, NEW s \in Switches
               PROVE  /\ stores[s].runningLock = d <=> Owns(d, s)'
                      /\ stores[s].candidateLock = d <=> OwnsCandidate(d, s)'
      BY <1>1, Zenon DEF LocksOwned
  <2>1. /\ stores[s].runningLock = d <=> Owns(d, s)
        /\ stores[s].candidateLock = d <=> OwnsCandidate(d, s)
      BY DEF ProtocolInv, LocksOwned
  <2>2. /\ Owns(d, s)' <=> Owns(d, s)
        /\ OwnsCandidate(d, s)' <=> OwnsCandidate(d, s)
    <3>1. CASE d = c
        BY <3>1 DEF OwnsKept
    <3>2. CASE d # c
        BY <1>1, <3>2, OtherApp
    <3> QED BY <3>1, <3>2
  <2> QED BY <2>1, <2>2, Zenon
<1>5. CommitAwaited'
  <2> SUFFICES ASSUME NEW d \in Apps, NEW s \in Switches, stores[s].commitOperation = d
               PROVE  /\ apps'[d].state = "WaitOnCommitExecution"
                      /\ Silent(d, s)' /\ ~ Has(d, s, "Commited")'
      BY <1>1, Zenon DEF CommitAwaited
  <2>1. CASE d = c
      BY <2>1 DEF CommitKept
  <2>2. CASE d # c
    <3>1. /\ apps[d].state = "WaitOnCommitExecution"
          /\ Silent(d, s) /\ ~ Has(d, s, "Commited")
        BY DEF ProtocolInv, CommitAwaited
    <3>2. /\ apps'[d] = apps[d] /\ Silent(d, s)' <=> Silent(d, s)
          /\ Has(d, s, "Commited")' <=> Has(d, s, "Commited")
        BY <1>1, <2>2, OtherApp
    <3> QED BY <3>1, <3>2
  <2> QED BY <2>1, <2>2
<1> QED BY <1>3, <1>4, <1>5 DEF ProtocolInv

(* At most one thing is under way between an app and a switch.             *)
OneThing(c, sw) ==
    /\ \A id, n : Asked(c, sw, id, n) => Talks(c, sw, id, n)
    /\ \A id, n : Replied(c, sw, id, n, "ok") \/ Replied(c, sw, id, n, "error")
                     => Talks(c, sw, id, n)
    /\ \A id, n : Asked(c, sw, id, n) => \A i, m, status : ~ Replied(c, sw, i, m, status)
    /\ \A id, n : Talks(c, sw, id, n) => ~ Silent(c, sw)
    /\ \A id, n, status : Replied(c, sw, id, n, status) =>
          /\ ~ Silent(c, sw)
          /\ \A i, m : Talks(c, sw, i, m) => i = id /\ m = n
          /\ \A i, m, st : Replied(c, sw, i, m, st) => i = id /\ m = n /\ st = status

LEMMA Spoken ==
    ASSUME NEW c, NEW sw
    PROVE  OneThing(c, sw) /\ OneThing(c, sw)'
<1>1. \A id, n, i, m : Message(id, n) = Message(i, m) => id = i /\ n = m
    BY DEF Message
<1>2. \A id, n, st, i, m, status :
          [id |-> id, n |-> n, status |-> st] = [id |-> i, n |-> m, status |-> status] =>
              id = i /\ n = m /\ st = status
    OBVIOUS
<1>3. \A x, y : << x >> = << y >> => x = y
    OBVIOUS
<1>4. \A x : << x >> # << >>
    OBVIOUS
<1>5. OneThing(c, sw)
    BY <1>1, <1>2, <1>3, <1>4 DEF OneThing, Silent, Asked, Talks, Replied
<1>6. OneThing(c, sw)'
    BY <1>1, <1>2, <1>3, <1>4 DEF OneThing, Silent, Asked, Talks, Replied
<1> QED BY <1>5, <1>6

LEMMA OnlyReply ==
    ASSUME NEW c, NEW sw, NEW id, NEW n, NEW status, Replied(c, sw, id, n, status)
    PROVE  /\ \A i, m, st : Replied(c, sw, i, m, st) => i = id /\ m = n /\ st = status
           /\ \A i, m : Talks(c, sw, i, m) => i = id /\ m = n
           /\ ~ Silent(c, sw)
<1>1. OneThing(c, sw)
    BY Spoken
<1> QED BY <1>1, Zenon DEF OneThing

LEMMA OneTopic ==
    ASSUME NEW c, NEW sw, NEW id, NEW n, Talks(c, sw, id, n), NEW i, NEW m, Talks(c, sw, i, m)
    PROVE  i = id /\ m = n
<1>1. OneThing(c, sw)
    BY Spoken
<1>2. CASE \E status \in {"ok", "error"} : Replied(c, sw, id, n, status)
    BY <1>1, <1>2 DEF OneThing
<1>3. CASE \E status \in {"ok", "error"} : Replied(c, sw, i, m, status)
    BY <1>1, <1>3 DEF OneThing
<1>4. CASE Asked(c, sw, id, n) /\ Asked(c, sw, i, m)
  <2>1. Message(id, n) = Message(i, m)
      BY <1>4 DEF Asked
  <2> QED BY <2>1 DEF Message
<1> QED BY <1>2, <1>3, <1>4 DEF Talks

(* A request is sent where nothing is under way: no lock is concerned.     *)
LEMMA AskedKept ==
    ASSUME NEW c, NEW s, Silent(c, s), NEW id, NEW n, Asked(c, s, id, n)', Marks(c, s, {}, {})
    PROVE  /\ Owns(c, s)' <=> Owns(c, s)
           /\ OwnsCandidate(c, s)' <=> OwnsCandidate(c, s)
<1>1. \A i, m, status : ~ Replied(c, s, i, m, status) /\ ~ Replied(c, s, i, m, status)'
    BY Spoken DEF OneThing
<1>2. \A flag : Has(c, s, flag)' <=> Has(c, s, flag)
    BY DEF Marks
<1> QED BY <1>1, <1>2 DEF Owns, OwnsCandidate

(* What a step of app c on a reply of switch sw has to show.               *)
LEMMA AnsweredInv ==
    ASSUME ProtocolInv, NEW c \in Apps, NEW sw \in Switches,
           NEW a, NEW next \in States, NEW set, NEW reset,
           NEW out, Sending(out),
           Moves(c, a, next), Answered(c, sw, set, reset, out), ~ Silent(c, sw),
           \A s \in Switches \ {sw} :
               \/ out[s] = << >>
               \/ Silent(c, s) /\ \E id \in Ids, n \in Nat : out[s] = << Message(id, n) >>,
           Owns(c, sw)' <=> Owns(c, sw), OwnsCandidate(c, sw)' <=> OwnsCandidate(c, sw),
           \/ apps[c].state # "WaitOnCommitExecution"
           \/ next = "WaitOnCommitExecution" /\ \A s \in Switches : out[s] = << >>
           \/ \A s \in Switches \ {sw} : Has(c, s, "Commited"),
           Conversation(c)'
    PROVE  ProtocolInv'
<1>1. Shapes' /\ Elsewhere(c) /\ Shapes
    BY DEF Moves, ProtocolInv
<1>2. ASSUME NEW s \in Switches \ {sw}
      PROVE  /\ Owns(c, s)' <=> Owns(c, s)
             /\ OwnsCandidate(c, s)' <=> OwnsCandidate(c, s)
  <2>1. CASE out[s] = << >>
    <3>1. Untouched(c, s) /\ plan' = plan /\ stores' = stores
        BY <1>1, <2>1 DEF Answered, Elsewhere
    <3> QED BY <3>1, UntouchedFacts
  <2>2. CASE out[s] # << >>
    <3>1. PICK id \in Ids, n \in Nat : out[s] = << Message(id, n) >>
        BY <2>2
    <3>2. Silent(c, s) /\ Marks(c, s, {}, {}) /\ Asked(c, s, id, n)'
        BY <2>2, <3>1 DEF Answered, Sends
    <3> QED BY <3>2, AskedKept
  <2> QED BY <2>1, <2>2
<1>3. OwnsKept(c)
    BY <1>2 DEF OwnsKept
<1>4. CommitKept(c)
  <2> SUFFICES ASSUME NEW s \in Switches, stores[s].commitOperation = c
               PROVE  /\ apps'[c].state = "WaitOnCommitExecution"
                      /\ Silent(c, s)' /\ ~ Has(c, s, "Commited")'
      BY Zenon DEF CommitKept
  <2>1. /\ apps[c].state = "WaitOnCommitExecution"
        /\ Silent(c, s) /\ ~ Has(c, s, "Commited")
      BY DEF ProtocolInv, CommitAwaited
  <2>2. s # sw /\ next = "WaitOnCommitExecution" /\ out[s] = << >>
      BY <2>1
  <2>3. Untouched(c, s)
      BY <2>2 DEF Answered
  <2> QED BY <2>1, <2>2, <2>3 DEF Untouched, Silent, Moves
<1> QED BY <1>1, <1>3, <1>4, AppInv

(* A step of app c that no reply causes.                                   *)
Started(c, a) == a = apps[c] \/ a = [apps[c] EXCEPT !.result = FALSE]

LEMMA Starts ==
    ASSUME Shapes, NEW c \in Apps, NEW a, Started(c, a),
           NEW next \in States, NEW out, Sending(out), Enter(c, a, next, out),
           replies' = replies, \A s \in Switches : Silent(c, s)
    PROVE  /\ Moves(c, a, next)
           /\ \A s \in Switches : /\ Marks(c, s, {}, {}) /\ Sends(c, s, out)
                                  /\ out[s] = << >> => Untouched(c, s)
<1>1. c \in Sessions /\ apps[c] \in AppRecords
    BY DEF Apps, Shapes
<1>2. a \in AppRecords /\ a.flags = apps[c].flags
    BY <1>1 DEF AppRecords, Started
<1>3. /\ apps' \in [Sessions -> AppRecords]
      /\ apps'[c].state = next /\ apps'[c].flags = a.flags
      /\ apps'[c].timestamp = a.timestamp /\ apps'[c].released = a.released
      /\ requests' \in [Sessions -> [Switches -> Seq(Requests)]]
      /\ \A s \in Switches : requests'[c][s] = requests[c][s] \o out[s]
      /\ \A d \in Sessions \ {c} : apps'[d] = apps[d] /\ requests'[d] = requests[d]
      /\ stores' = stores /\ plan' = plan /\ aborted' = aborted
    BY <1>1, <1>2, EnterFacts
<1>4. Moves(c, a, next)
  <2>1. Shapes'
      BY <1>3 DEF Shapes, Apps
  <2> QED BY <1>2, <1>3, <2>1 DEF Moves, Elsewhere
<1>5. ASSUME NEW s \in Switches
      PROVE  /\ Marks(c, s, {}, {}) /\ Sends(c, s, out)
             /\ out[s] = << >> => Untouched(c, s)
  <2>1. requests'[c][s] = << >> \o out[s] /\ requests[c][s] = << >> /\ replies'[c][s] = << >>
      BY <1>3 DEF Silent
  <2>2. Marks(c, s, {}, {})
      BY <1>2, <1>3 DEF Marks, Has
  <2>3. out[s] = << >> => Silent(c, s)'
      BY <2>1, Short DEF Silent
  <2>4. ASSUME NEW j \in Ids, NEW m \in Nat, out[s] = << Message(j, m) >>
        PROVE  Asked(c, s, j, m)'
      BY <2>1, <2>4, Short, MessageFacts DEF Asked
  <2>5. out[s] = << >> => Untouched(c, s)
      BY <1>2, <1>3, <2>1, Short DEF Untouched, Has
  <2> QED BY <2>2, <2>3, <2>4, <2>5 DEF Sends
<1> QED BY <1>4, <1>5

LEMMA StartsInv ==
    ASSUME ProtocolInv, NEW c \in Apps, NEW a, NEW next \in States,
           NEW out, Sending(out), Moves(c, a, next),
           \A s \in Switches :
              /\ Silent(c, s) /\ Marks(c, s, {}, {}) /\ Sends(c, s, out)
              /\ out[s] = << >> => Untouched(c, s)
              /\ \/ out[s] = << >>
                 \/ \E id \in Ids, n \in Nat : out[s] = << Message(id, n) >>,
           apps[c].state # "WaitOnCommitExecution", Conversation(c)'
    PROVE  ProtocolInv'
<1>1. Shapes' /\ Elsewhere(c) /\ Shapes
    BY DEF Moves, ProtocolInv
<1>2. ASSUME NEW s \in Switches
      PROVE  /\ Owns(c, s)' <=> Owns(c, s)
             /\ OwnsCandidate(c, s)' <=> OwnsCandidate(c, s)
  <2>1. CASE out[s] = << >>
    <3>1. Untouched(c, s) /\ plan' = plan /\ stores' = stores
        BY <1>1, <2>1 DEF Elsewhere
    <3> QED BY <3>1, UntouchedFacts
  <2>2. CASE out[s] # << >>
    <3>1. PICK id \in Ids, n \in Nat : out[s] = << Message(id, n) >>
        BY <2>2
    <3>2. Silent(c, s) /\ Marks(c, s, {}, {}) /\ Asked(c, s, id, n)'
        BY <2>2, <3>1 DEF Sends
    <3> QED BY <3>2, AskedKept
  <2> QED BY <2>1, <2>2
<1>3. OwnsKept(c)
    BY <1>2 DEF OwnsKept
<1>4. CommitKept(c)
    BY DEF ProtocolInv, CommitAwaited, CommitKept
<1> QED BY <1>1, <1>3, <1>4, AppInv

-----------------------------------------------------------------------------
(* determineLockOrder always finds a switch while one is available.        *)
LEMMA LeastSwitch ==
    ASSUME NEW T, T \subseteq Switches, T # {}
    PROVE  \E sw \in T : \A other \in T : sw <= other
<1> DEFINE R == OpToRel(<, Nat)
<1>1. IsWellFoundedOn(R, Nat)
    BY NatLessThanWellFounded
<1>2. \A x, y \in Nat : y < x => << y, x >> \in R
    BY DEF OpToRel
<1>3. T \subseteq Nat
    BY Constants DEF Switches
<1> HIDE DEF R
<1>4. PICK x \in T : \A y \in T : << y, x >> \notin R
    BY <1>1, <1>3, WFMin
<1>5. \A y \in T : ~ (y < x)
    BY <1>2, <1>3, <1>4
<1> QED BY <1>3, <1>4, <1>5

LEMMA FirstAvailable ==
    ASSUME NEW a, NEW sw \in Switches, isInState(a.flags[sw], "Available")
    PROVE  /\ connectionToLock(a) \in Switches
           /\ isInState(a.flags[connectionToLock(a)], "Available")
<1>1. PICK T : T = getSwitchesInState(a, "Available")
    OBVIOUS
<1>2. T \subseteq Switches /\ T # {} /\ \A s \in T : isInState(a.flags[s], "Available")
    BY <1>1 DEF getSwitchesInState
<1>3. \E s \in T : \A other \in T : s <= other
    BY <1>2, LeastSwitch
<1>4. connectionToLock(a) = CHOOSE s \in T : \A other \in T : s <= other
    BY <1>1 DEF connectionToLock
<1>5. connectionToLock(a) \in T
    BY <1>3, <1>4
<1> QED BY <1>2, <1>5

LEMMA ConversationFacts ==
    ASSUME ProtocolInv, NEW c \in Apps
    PROVE  /\ Shapes /\ Conversation(c) /\ c \in Sessions /\ apps[c].state \in States
           /\ \A s \in Switches : InState(c, s, apps[c].state) /\ apps[c].flags[s] \in SUBSET Flags
           /\ \A s \in Switches : /\ stores[s].runningLock = c <=> Owns(c, s)
                                  /\ stores[s].candidateLock = c <=> OwnsCandidate(c, s)
<1>1. c \in Sessions /\ Shapes
    BY DEF Apps, ProtocolInv
<1>2. apps[c] \in AppRecords
    BY <1>1 DEF Shapes
<1>3. apps[c].state \in States /\ \A s \in Switches : apps[c].flags[s] \in SUBSET Flags
    BY <1>2 DEF AppRecords
<1>4. Conversation(c)
    BY DEF ProtocolInv, Protocol
<1>5. \A s \in Switches : InState(c, s, apps[c].state)
    BY <1>4 DEF Conversation
<1> QED BY <1>1, <1>3, <1>4, <1>5 DEF ProtocolInv, LocksOwned

(* The state the app goes on in, seen switch by switch.                    *)
LEMMA NextFlags ==
    ASSUME NEW c \in Apps, NEW a, NEW next, Moves(c, a, next), NEW s \in Switches
    PROVE  a.flags[s] \in SUBSET Flags /\ \A flag : Has(c, s, flag)' <=> flag \in a.flags[s]
BY DEF Moves, Has, AppRecords

LEMMA NextState ==
    ASSUME NEW c \in Apps, NEW a, NEW next, Moves(c, a, next), NEW s \in Switches
    PROVE  /\ isInState(a.flags[s], "Locked") =>
                  Has(c, s, "LockedRunning")' /\ ~ Has(c, s, "Error")'
           /\ isInState(a.flags[s], "WithCandidate") =>
                 /\ Has(c, s, "LockedRunning")' /\ Has(c, s, "Candidate")'
                 /\ ~ Has(c, s, "LockedCandidate")' /\ ~ Has(c, s, "Configuration")'
                 /\ ~ Has(c, s, "Commited")' /\ ~ Has(c, s, "Error")'
           /\ isInState(a.flags[s], "WithLockedCandidate") =>
                 /\ Has(c, s, "LockedRunning")' /\ Has(c, s, "Candidate")'
                 /\ Has(c, s, "LockedCandidate")' /\ ~ Has(c, s, "Configuration")'
                 /\ ~ Has(c, s, "Commited")' /\ ~ Has(c, s, "Error")'
           /\ isInState(a.flags[s], "WithChangedCandidateConfiguration") =>
                 HasAll(c, s, Staged)' /\ ~ Has(c, s, "Commited")' /\ ~ Has(c, s, "Error")'
           /\ isInState(a.flags[s], "WithTimestamp") =>
                 /\ HasAll(c, s, Staged)' /\ Has(c, s, "CommitTimeStamp")'
                 /\ ~ Has(c, s, "Commited")' /\ ~ Has(c, s, "Error")'
           /\ isInState(a.flags[s], "Commited") =>
                 HasAll(c, s, Staged)' /\ Has(c, s, "Commited")' /\ ~ Has(c, s, "Error")'
           /\ isInState(a.flags[s], "WithoutCandidate") =>
                 Has(c, s, "LockedRunning")' /\ ~ Has(c, s, "Candidate")' /\ ~ Has(c, s, "Commited")'
           /\ isInState(a.flags[s], "WithoutOldConfig") =>
                 Has(c, s, "LockedRunning")' /\ Has(c, s, "Commited")' /\ ~ Has(c, s, "Candidate")'
           /\ isInState(a.flags[s], "Unlocked") => ~ Has(c, s, "LockedRunning")'
           /\ isInState(a.flags[s], "Error") => Has(c, s, "Error")'
<1>1. PICK F \in SUBSET Flags : F = a.flags[s] /\ \A flag : Has(c, s, flag)' <=> flag \in F
    BY NextFlags
<1>2. HasAll(c, s, Staged)' <=> \A flag \in Staged : flag \in F
    BY <1>1 DEF HasAll
<1> QED BY <1>1, <1>2, InStateFacts

(* The names the state is made of.                                         *)
LEMMA Names ==
    /\ "Lock" \in Ids /\ "Copy Config" \in Ids /\ "Lock Candidate" \in Ids
    /\ "Change" \in Ids /\ "Timestamp" \in Ids /\ "Commit approved" \in Ids
    /\ "Delete Old Config" \in Ids /\ "Delete Candidate Config" \in Ids /\ "Unlock" \in Ids
    /\ "BeginOfTransaction" \in States /\ "WaitOnLockResponse" \in States
    /\ "WaitOnCandidateConfirmation" \in States /\ "WaitOnCandidateLockResponse" \in States
    /\ "WaitOnChangeConfirmation" \in States /\ "WaitOnTimestampConfirmation" \in States
    /\ "WaitOnCommitExecution" \in States /\ "WaitOnDeleteOldConfiguration" \in States
    /\ "ErrorState" \in States /\ "WaitOnDeleteCandidate" \in States
    /\ "WaitOnUnlock" \in States /\ "EndOfTransaction" \in States
    /\ "LockedRunning" \in Flags /\ "Candidate" \in Flags /\ "LockedCandidate" \in Flags
    /\ "Configuration" \in Flags /\ "CommitTimeStamp" \in Flags
    /\ "Commited" \in Flags /\ "Error" \in Flags
    /\ 0 \in Nat /\ 1 \in Nat
BY DEF Ids, States, Flags, Staged

-----------------------------------------------------------------------------
(* The steps of an app keep the protocol, one lemma per state.             *)
LEMMA BeginStep ==
    ASSUME ProtocolInv, NEW c \in Apps, handleMessageInBeginOfTransaction(c)
    PROVE  ProtocolInv'
<1>1. PICK t, out : t = connectionToLock(apps[c]) /\ out = To(t, "Lock", 0)
    OBVIOUS
<1>2. /\ apps[c].state = "BeginOfTransaction"
      /\ Enter(c, apps[c], "WaitOnLockResponse", out) /\ replies' = replies
    BY <1>1 DEF handleMessageInBeginOfTransaction
<1>3. \A s \in Switches : InBegin(c, s) /\ Silent(c, s) /\ HasNone(c, s, Flags)
    BY <1>2, ConversationFacts, InStateCases DEF InBegin
<1>4. \A s \in Switches : isInState(apps[c].flags[s], "Available")
    BY <1>3, ConversationFacts, InStateFacts DEF HasNone, Has
<1>5. t \in Switches
  <2>1. 1 \in Switches
      BY Constants DEF Switches
  <2> QED BY <1>1, <1>4, <2>1, FirstAvailable
<1>6. /\ Sending(out) /\ out[t] = << Message("Lock", 0) >>
      /\ \A s \in Switches \ {t} : out[s] = << >>
  <2>1. "Lock" \in Ids /\ 0 \in Nat
      BY Names
  <2> QED BY <1>1, <1>5, <2>1, ToFacts
<1>7. /\ Moves(c, apps[c], "WaitOnLockResponse")
      /\ \A s \in Switches : /\ Marks(c, s, {}, {}) /\ Sends(c, s, out)
                             /\ out[s] = << >> => Untouched(c, s)
  <2>1. Started(c, apps[c]) /\ Shapes /\ "WaitOnLockResponse" \in States
      BY ConversationFacts, Names DEF Started
  <2> QED BY <1>2, <1>3, <1>6, <2>1, Starts
<1>8. Asked(c, t, "Lock", 0)' /\ \A s \in Switches \ {t} : Silent(c, s)'
    BY <1>5, <1>6, <1>7, Names DEF Sends
<1>9. \A s \in Switches : InState(c, s, "WaitOnLockResponse")'
  <2>1. ASSUME NEW s \in Switches PROVE InLock(c, s)'
    <3>1. Silent(c, s)' \/ Talks(c, s, "Lock", 0)'
        BY <1>8, Spoken DEF OneThing
    <3>2. \A flag \in Flags : ~ Has(c, s, flag)'
        BY <1>3, <1>7 DEF HasNone, Marks
    <3> QED BY <3>1, <3>2, Names DEF InLock, HasNone
  <2> QED BY <2>1 DEF InState
<1>10. Conversation(c)'
  <2>1. apps'[c].state = "WaitOnLockResponse"
      BY <1>7 DEF Moves
  <2> QED BY <1>8, <1>9, <2>1 DEF Conversation
<1>11. \A s \in Switches :
           \/ out[s] = << >>
           \/ \E id \in Ids, n \in Nat : out[s] = << Message(id, n) >>
    BY <1>6, Names
<1> QED BY <1>2, <1>3, <1>6, <1>7, <1>10, <1>11, StartsInv, Names

(* What the steps of an app in a state begin with.                         *)
LEMMA Waiting ==
    ASSUME ProtocolInv, NEW c \in Apps, NEW sw \in Switches, NEW state, NEW i, NEW status,
           Receive(c, sw, state, i, status)
    PROVE  /\ apps[c].state = state /\ state \in States /\ \A s \in Switches : InState(c, s, state)
           /\ ~ Silent(c, sw)
<1>1. apps[c].state = state /\ replies[c][sw] # << >>
    BY DEF Receive
<1> QED BY <1>1, ConversationFacts DEF Silent

LEMMA NothingReplied ==
    ASSUME NEW c, NEW s, NEW out, Sends(c, s, out),
           out[s] = << >> \/ \E id \in Ids, n \in Nat : out[s] = << Message(id, n) >>
    PROVE  \A id, n, status : ~ Replied(c, s, id, n, status)'
<1>1. Silent(c, s)' \/ \E id \in Ids, n \in Nat : Asked(c, s, id, n)'
    BY DEF Sends
<1> QED BY <1>1, Spoken DEF OneThing

LEMMA LockOkStep ==
    ASSUME ProtocolInv, NEW c \in Apps, NEW sw \in Switches, 
           Receive(c, sw, "WaitOnLockResponse", "Lock", "ok"),
           handleMessageInWaitOnLockResponse(c, sw)
    PROVE  ProtocolInv'
<1>0. PICK a, set, reset : /\ set = {"LockedRunning"} /\ reset = {}
                           /\ a = WithFlags(c, sw, set, reset)
    OBVIOUS
<1>a. IF getSwitchesInState(a, "Locked") = Switches
      THEN Enter(c, a, "WaitOnCandidateConfirmation", ToAll("Copy Config"))
      ELSE Enter(c, a, "WaitOnLockResponse", To(connectionToLock(a), "Lock", 0))
    BY <1>0 DEF handleMessageInWaitOnLockResponse, Receive
<1>1. /\ apps[c].state = "WaitOnLockResponse" /\ \A s \in Switches : InLock(c, s)
      /\ ~ Silent(c, sw) /\ Shapes
    BY Waiting, ConversationFacts, InStateCases
<1>2. Silent(c, sw) \/ Talks(c, sw, "Lock", 0)
    BY <1>1 DEF InLock
<1>3. \A s \in Switches \ {sw} : Silent(c, s)
    BY <1>1, ConversationFacts DEF Conversation
<1>4. "Lock" \in Ids /\ "Copy Config" \in Ids /\ 0 \in Nat
      /\ "WaitOnLockResponse" \in States /\ "WaitOnCandidateConfirmation" \in States
    BY Names
<1>5. Flagged(c, sw, set, reset, a)
    BY <1>0, Names DEF Flagged
<1>6. ASSUME NEW next \in States, NEW out, Sending(out), Enter(c, a, next, out),
             \A s \in Switches : out[s] = << >> \/ \E id \in Ids, n \in Nat : out[s] = << Message(id, n) >>
      PROVE  /\ Moves(c, a, next) /\ Answered(c, sw, set, reset, out)
             /\ \A s \in Switches : /\ Has(c, s, "LockedRunning")' <=> Has(c, s, "LockedRunning") \/ s = sw
                                    /\ HasNone(c, s, Flags \ {"LockedRunning"})'
                                    /\ Sends(c, s, out)
             /\ Conversation(c)' => ProtocolInv'
  <2>1. /\ Moves(c, a, next) /\ Answered(c, sw, set, reset, out)
        /\ Replied(c, sw, "Lock", 0, "ok")
      BY <1>1, <1>2, <1>4, <1>5, <1>6, Answer
  <2>2. \A s \in Switches : /\ Has(c, s, "LockedRunning")' <=> Has(c, s, "LockedRunning") \/ s = sw
                            /\ HasNone(c, s, Flags \ {"LockedRunning"})'
                            /\ Sends(c, s, out)
      BY <1>0, <1>1, <1>3, <2>1 DEF Answered, Marks, InLock, HasNone
  <2>3. \A id, n, status : ~ Replied(c, sw, id, n, status)'
      BY <1>6, <2>2, NothingReplied
  <2>4. Owns(c, sw) /\ Owns(c, sw)'
      BY <2>1, <2>2, <2>3 DEF Owns
  <2>5. ~ OwnsCandidate(c, sw) /\ ~ OwnsCandidate(c, sw)'
    <3>1. ~ Replied(c, sw, "Lock Candidate", 0, "ok")
        BY <2>1, Spoken DEF OneThing
    <3>2. ~ Has(c, sw, "LockedCandidate") /\ ~ Has(c, sw, "LockedCandidate")'
        BY <1>1, <2>2, Names DEF InLock, HasNone
    <3> QED BY <2>3, <3>1, <3>2 DEF OwnsCandidate
  <2>6. ASSUME Conversation(c)' PROVE ProtocolInv'
      BY <1>1, <1>3, <1>6, <2>1, <2>4, <2>5, <2>6, AnsweredInv
  <2> QED BY <2>1, <2>2, <2>6
<1>7. CASE getSwitchesInState(a, "Locked") = Switches
  <2>1. PICK out : out = ToAll("Copy Config")
      OBVIOUS
  <2>2. Sending(out) /\ \A s \in Switches : out[s] = << Message("Copy Config", 0) >>
      BY <1>4, <2>1, ToAllFacts
  <2>3. Enter(c, a, "WaitOnCandidateConfirmation", out)
      BY <1>a, <1>7, <2>1
  <2>4. /\ Moves(c, a, "WaitOnCandidateConfirmation")
        /\ \A s \in Switches : /\ Has(c, s, "LockedRunning")' <=> Has(c, s, "LockedRunning") \/ s = sw
                               /\ HasNone(c, s, Flags \ {"LockedRunning"})'
                               /\ Sends(c, s, out)
        /\ Conversation(c)' => ProtocolInv'
      BY <1>4, <1>6, <2>2, <2>3
  <2>5. \A s \in Switches : isInState(a.flags[s], "Locked")
      BY <1>7 DEF getSwitchesInState
  <2>6. ASSUME NEW s \in Switches PROVE InCopy(c, s)'
    <3>1. Has(c, s, "LockedRunning")'
      <4>1. a.flags[s] \in SUBSET Flags /\ (Has(c, s, "LockedRunning")' <=> "LockedRunning" \in a.flags[s])
          BY <2>4, NextFlags
      <4>2. "LockedRunning" \in a.flags[s]
          BY <2>5, <4>1, InStateFacts
      <4> QED BY <4>1, <4>2
    <3>2. Talks(c, s, "Copy Config", 0)'
        BY <1>4, <2>2, <2>4, Spoken DEF OneThing, Sends
    <3>3. \A flag \in Flags \ {"LockedRunning"} : ~ Has(c, s, flag)'
        BY <2>4 DEF HasNone
    <3> QED BY <3>1, <3>2, <3>3, Names DEF InCopy, HasNone, AskedUnless
  <2>7. Conversation(c)'
      BY <2>4, <2>6 DEF Conversation, InState, Moves
  <2> QED BY <2>4, <2>7
<1>8. CASE getSwitchesInState(a, "Locked") # Switches
  <2>1. PICK t, out : t = connectionToLock(a) /\ out = To(t, "Lock", 0)
      OBVIOUS
  <2>2. PICK f \in Switches : ~ isInState(a.flags[f], "Locked")
      BY <1>8 DEF getSwitchesInState
  <2>3. /\ a \in AppRecords
        /\ \A flag : flag \in a.flags[sw] <=>
                        (flag \in apps[c].flags[sw] \/ flag \in set) /\ flag \notin reset
        /\ \A s \in Switches \ {sw} : a.flags[s] = apps[c].flags[s]
      BY <1>1, <1>5, ConversationFacts, WithFlagsFacts
  <2>4. \A s \in Switches : /\ a.flags[s] \in SUBSET Flags
                            /\ \A flag \in Flags \ {"LockedRunning"} : flag \notin a.flags[s]
      BY <1>0, <1>1, <2>3 DEF InLock, HasNone, Has, AppRecords
  <2>5. isInState(a.flags[f], "Available")
    <3>1. "LockedRunning" \notin a.flags[f]
        BY <2>2, <2>4, InStateFacts, Names
    <3> QED BY <2>4, <3>1, InStateFacts
  <2>6. t \in Switches /\ isInState(a.flags[t], "Available")
      BY <2>1, <2>5, FirstAvailable
  <2>7. "LockedRunning" \notin a.flags[t]
      BY <2>4, <2>6, InStateFacts, Names
  <2>8. /\ Sending(out) /\ out[t] = << Message("Lock", 0) >>
        /\ \A s \in Switches \ {t} : out[s] = << >>
    <3>1. "Lock" \in Ids /\ 0 \in Nat
        BY <1>4
    <3> QED BY <2>1, <2>6, <3>1, ToFacts
  <2>9. Enter(c, a, "WaitOnLockResponse", out)
      BY <1>a, <1>8, <2>1
  <2>10. \A s \in Switches :
             out[s] = << >> \/ \E id \in Ids, n \in Nat : out[s] = << Message(id, n) >>
      BY <1>4, <2>8
  <2>11. /\ Moves(c, a, "WaitOnLockResponse")
         /\ \A s \in Switches : /\ HasNone(c, s, Flags \ {"LockedRunning"})' /\ Sends(c, s, out)
         /\ Conversation(c)' => ProtocolInv'
      BY <1>4, <1>6, <2>8, <2>9, <2>10
  <2>12. Talks(c, t, "Lock", 0)' /\ \A s \in Switches \ {t} : Silent(c, s)'
      BY <1>4, <2>6, <2>8, <2>11, Spoken DEF OneThing, Sends
  <2>13. ASSUME NEW s \in Switches PROVE InLock(c, s)'
    <3>1. ~ Has(c, t, "LockedRunning")'
        BY <2>6, <2>7, <2>11, NextFlags
    <3> QED BY <2>11, <2>12, <3>1 DEF InLock
  <2>14. Conversation(c)'
    <3>1. apps'[c].state = "WaitOnLockResponse"
        BY <2>11 DEF Moves
    <3>2. \A s \in Switches : InState(c, s, "WaitOnLockResponse")'
        BY <2>13 DEF InState
    <3> QED BY <2>12, <3>1, <3>2 DEF Conversation
  <2> QED BY <2>11, <2>14
<1> QED BY <1>7, <1>8

LEMMA LockErrorStep ==
    ASSUME ProtocolInv, NEW c \in Apps, NEW sw \in Switches,
           Receive(c, sw, "WaitOnLockResponse", "Lock", "error"),
           handleMessageInWaitOnLockResponse(c, sw)
    PROVE  ProtocolInv'
<1>0. PICK a, set, reset : /\ set = {} /\ reset = {"LockedRunning"}
                           /\ a = [WithFlags(c, sw, set, reset) EXCEPT !.result = FALSE]
    OBVIOUS
<1>a. IF getSwitchesInState(apps[c], "Locked") = {}
      THEN Enter(c, a, "EndOfTransaction", ToNone)
      ELSE Enter(c, a, "WaitOnUnlock", To(sw, "Unlock", 0))
    BY <1>0 DEF handleMessageInWaitOnLockResponse, Receive
<1>1. /\ apps[c].state = "WaitOnLockResponse" /\ \A s \in Switches : InLock(c, s)
      /\ ~ Silent(c, sw) /\ Shapes
    BY Waiting, ConversationFacts, InStateCases
<1>2. Talks(c, sw, "Lock", 0) /\ ~ Has(c, sw, "LockedRunning")
    BY <1>1 DEF InLock
<1>3. \A s \in Switches \ {sw} : Silent(c, s)
    BY <1>1, ConversationFacts DEF Conversation
<1>4. "Lock" \in Ids /\ "Unlock" \in Ids /\ 0 \in Nat
      /\ "WaitOnUnlock" \in States /\ "EndOfTransaction" \in States
    BY Names
<1>5. Flagged(c, sw, set, reset, a)
    BY <1>0, Names DEF Flagged
<1>6. ASSUME NEW next \in States, NEW out, Sending(out), Enter(c, a, next, out),
             \A s \in Switches : out[s] = << >> \/ \E id \in Ids, n \in Nat : out[s] = << Message(id, n) >>
      PROVE  /\ Moves(c, a, next)
             /\ \A s \in Switches : /\ Has(c, s, "LockedRunning")' <=> Has(c, s, "LockedRunning")
                                    /\ HasNone(c, s, Flags \ {"LockedRunning"})'
                                    /\ Sends(c, s, out)
             /\ Conversation(c)' => ProtocolInv'
  <2>1. /\ Moves(c, a, next) /\ Answered(c, sw, set, reset, out)
        /\ Replied(c, sw, "Lock", 0, "error")
      BY <1>1, <1>2, <1>4, <1>5, <1>6, Answer
  <2>2. \A s \in Switches : /\ Has(c, s, "LockedRunning")' <=> Has(c, s, "LockedRunning")
                            /\ HasNone(c, s, Flags \ {"LockedRunning"})'
                            /\ Sends(c, s, out)
      BY <1>0, <1>1, <1>2, <1>3, <2>1 DEF Answered, Marks, InLock, HasNone
  <2>3. \A id, n, status : ~ Replied(c, sw, id, n, status)'
      BY <1>6, <2>2, NothingReplied
  <2>4. ~ Replied(c, sw, "Lock", 0, "ok") /\ ~ Replied(c, sw, "Lock Candidate", 0, "ok")
    <3>1. \A id, n, status : Replied(c, sw, id, n, status) => id = "Lock" /\ status = "error"
        BY <2>1, OnlyReply
    <3>2. "error" # "ok" /\ "Lock" # "Lock Candidate"
        OBVIOUS
    <3>3. ~ Replied(c, sw, "Lock", 0, "ok")
        BY <3>1, <3>2, Zenon
    <3>4. ~ Replied(c, sw, "Lock Candidate", 0, "ok")
        BY <3>1, <3>2, Zenon
    <3> QED BY <3>3, <3>4
  <2>5. ~ Owns(c, sw) /\ ~ Owns(c, sw)'
      BY <1>2, <2>2, <2>3, <2>4 DEF Owns
  <2>6. ~ OwnsCandidate(c, sw) /\ ~ OwnsCandidate(c, sw)'
    <3>1. ~ Has(c, sw, "LockedCandidate") /\ ~ Has(c, sw, "LockedCandidate")'
        BY <1>1, <2>2, Names DEF InLock, HasNone
    <3> QED BY <2>3, <2>4, <3>1 DEF OwnsCandidate
  <2>7. ASSUME Conversation(c)' PROVE ProtocolInv'
      BY <1>1, <1>3, <1>6, <2>1, <2>5, <2>6, <2>7, AnsweredInv
  <2> QED BY <2>1, <2>2, <2>7
<1>7. ASSUME NEW s \in Switches, HasNone(c, s, Flags \ {"LockedRunning"})'
      PROVE  /\ HasNone(c, s, {"Candidate", "LockedCandidate"})'
             /\ ~ Has(c, s, "Commited")'
    BY <1>7, Names DEF HasNone
<1>8. CASE getSwitchesInState(apps[c], "Locked") = {}
  <2>1. PICK out : out = ToNone
      OBVIOUS
  <2>2. Sending(out) /\ \A s \in Switches : out[s] = << >>
      BY <2>1, ToNoneFacts
  <2>3. Enter(c, a, "EndOfTransaction", out)
      BY <1>a, <1>8, <2>1
  <2>4. /\ Moves(c, a, "EndOfTransaction")
        /\ \A s \in Switches : /\ Has(c, s, "LockedRunning")' <=> Has(c, s, "LockedRunning")
                               /\ HasNone(c, s, Flags \ {"LockedRunning"})'
                               /\ Sends(c, s, out)
        /\ Conversation(c)' => ProtocolInv'
      BY <1>4, <1>6, <2>2, <2>3
  <2>5. ASSUME NEW s \in Switches PROVE ~ Has(c, s, "LockedRunning")
    <3>1. ~ isInState(apps[c].flags[s], "Locked") /\ apps[c].flags[s] \in SUBSET Flags
        BY <1>8, ConversationFacts DEF getSwitchesInState
    <3>2. ~ Has(c, s, "Error")
        BY <1>1, Names DEF InLock, HasNone
    <3> QED BY <3>1, <3>2, InStateFacts DEF Has
  <2>6. \A s \in Switches : InEnd(c, s)'
      BY <1>7, <2>2, <2>4, <2>5 DEF InEnd, InUnlock, Sends
  <2>7. Conversation(c)'
    <3>1. apps'[c].state = "EndOfTransaction"
        BY <2>4 DEF Moves
    <3>2. \A s \in Switches : InState(c, s, "EndOfTransaction")'
        BY <2>6 DEF InState
    <3> QED BY <1>7, <2>4, <3>1, <3>2 DEF Conversation
  <2> QED BY <2>4, <2>7
<1>9. CASE getSwitchesInState(apps[c], "Locked") # {}
  <2>1. PICK out : out = To(sw, "Unlock", 0)
      OBVIOUS
  <2>2. /\ Sending(out) /\ out[sw] = << Message("Unlock", 0) >>
        /\ \A s \in Switches \ {sw} : out[s] = << >>
    <3>1. "Unlock" \in Ids /\ 0 \in Nat
        BY <1>4
    <3> QED BY <2>1, <3>1, ToFacts
  <2>3. Enter(c, a, "WaitOnUnlock", out)
      BY <1>a, <1>9, <2>1
  <2>4. \A s \in Switches :
            out[s] = << >> \/ \E id \in Ids, n \in Nat : out[s] = << Message(id, n) >>
      BY <1>4, <2>2
  <2>5. /\ Moves(c, a, "WaitOnUnlock")
        /\ \A s \in Switches : HasNone(c, s, Flags \ {"LockedRunning"})' /\ Sends(c, s, out)
        /\ Conversation(c)' => ProtocolInv'
      BY <1>4, <1>6, <2>2, <2>3, <2>4
  <2>6. \A s \in Switches : Silent(c, s)' \/ Talks(c, s, "Unlock", 0)'
      BY <1>4, <2>2, <2>5, Spoken DEF OneThing, Sends
  <2>7. \A s \in Switches : InUnlock(c, s)'
      BY <1>7, <2>5, <2>6 DEF InUnlock
  <2>8. Conversation(c)'
    <3>1. apps'[c].state = "WaitOnUnlock"
        BY <2>5 DEF Moves
    <3>2. \A s \in Switches : InState(c, s, "WaitOnUnlock")'
        BY <2>7 DEF InState
    <3> QED BY <1>7, <2>5, <3>1, <3>2 DEF Conversation
  <2> QED BY <2>5, <2>8
<1> QED BY <1>8, <1>9

LEMMA CopyStep ==
    ASSUME ProtocolInv, NEW c \in Apps, NEW sw \in Switches,
           handleMessageInWaitOnCandidateConfirmation(c, sw)
    PROVE  ProtocolInv'
<1>a. PICK status \in {"ok", "error"} :
          /\ Receive(c, sw, "WaitOnCandidateConfirmation", "Copy Config", status)
          /\ LET a      == WithFlags(c, sw, {IF status = "ok" THEN "Candidate" ELSE "Error"}, {})
                 with   == getSwitchesInState(a, "WithCandidate")
                 failed == getSwitchesInState(a, "Error")
             IN CASE with = Switches   -> Enter(c, a, "WaitOnCandidateLockResponse", ToAll("Lock Candidate"))
                  [] failed = Switches -> Enter(c, a, "WaitOnUnlock", ToAll("Unlock"))
                  [] with # Switches /\ failed # Switches /\ with \cup failed = Switches
                                       -> Enter(c, a, "ErrorState", ToNone)
                  [] OTHER             -> Enter(c, a, "WaitOnCandidateConfirmation", ToNone)
    BY DEF handleMessageInWaitOnCandidateConfirmation
<1>0. PICK flag, set, reset, a, with, failed :
          /\ flag = (IF status = "ok" THEN "Candidate" ELSE "Error")
          /\ set = {flag} /\ reset = {} /\ a = WithFlags(c, sw, set, reset)
          /\ with = getSwitchesInState(a, "WithCandidate")
          /\ failed = getSwitchesInState(a, "Error")
    OBVIOUS
<1>b. (CASE with = Switches   -> Enter(c, a, "WaitOnCandidateLockResponse", ToAll("Lock Candidate"))
         [] failed = Switches -> Enter(c, a, "WaitOnUnlock", ToAll("Unlock"))
         [] with # Switches /\ failed # Switches /\ with \cup failed = Switches
                              -> Enter(c, a, "ErrorState", ToNone)
         [] OTHER             -> Enter(c, a, "WaitOnCandidateConfirmation", ToNone))
    BY <1>a, <1>0
<1>c. Receive(c, sw, "WaitOnCandidateConfirmation", "Copy Config", status)
    BY <1>a
<1>1. /\ apps[c].state = "WaitOnCandidateConfirmation" /\ \A s \in Switches : InCopy(c, s)
      /\ ~ Silent(c, sw) /\ Shapes
    BY <1>c, Waiting, ConversationFacts, InStateCases
<1>2. HasNone(c, sw, {"Candidate", "Error"}) /\ Talks(c, sw, "Copy Config", 0)
    BY <1>1 DEF InCopy, AskedUnless
<1>3. \A s \in Switches : Has(c, s, "Candidate") \/ Has(c, s, "Error") => Silent(c, s)
    BY <1>1 DEF InCopy, AskedUnless, HasNone
<1>4. flag = "Candidate" \/ flag = "Error"
    BY <1>0
<1>5. Flagged(c, sw, set, reset, a) /\ a = WithFlags(c, sw, set, reset)
    BY <1>0, <1>4, Names DEF Flagged
<1>d. with = Switches => failed # Switches
  <2>1. /\ a \in AppRecords /\ sw \in Switches
      BY <1>1, <1>5, ConversationFacts, WithFlagsFacts
  <2>2. a.flags[sw] \in SUBSET Flags
      BY <2>1 DEF AppRecords
  <2>3. ~ (isInState(a.flags[sw], "WithCandidate") /\ isInState(a.flags[sw], "Error"))
      BY <2>2, InStateFacts
  <2> QED BY <1>0, <2>3 DEF getSwitchesInState
<1>e. /\ with = Switches => Enter(c, a, "WaitOnCandidateLockResponse", ToAll("Lock Candidate"))
      /\ with # Switches /\ failed = Switches => Enter(c, a, "WaitOnUnlock", ToAll("Unlock"))
      /\ with # Switches /\ failed # Switches =>
            IF with \cup failed = Switches
            THEN Enter(c, a, "ErrorState", ToNone)
            ELSE Enter(c, a, "WaitOnCandidateConfirmation", ToNone)
    BY <1>b, <1>d
<1>6. ASSUME NEW next \in States, NEW out, Sending(out), Enter(c, a, next, out),
             \A s \in Switches :
                \/ out[s] = << >>
                \/ (s = sw \/ Silent(c, s)) /\ \E id \in Ids, n \in Nat : out[s] = << Message(id, n) >>
      PROVE  /\ Moves(c, a, next)
             /\ \A s \in Switches :
                   /\ Has(c, s, "LockedRunning")'
                   /\ HasNone(c, s, {"LockedCandidate", "Configuration", "CommitTimeStamp", "Commited"})'
                   /\ ~ (Has(c, s, "Candidate")' /\ Has(c, s, "Error")')
                   /\ (Has(c, s, "Candidate")' \/ Has(c, s, "Error")') =>
                          Sends(c, s, out) /\ (s = sw \/ Silent(c, s))
                   /\ s # sw /\ out[s] = << >> => Untouched(c, s)
             /\ Has(c, sw, "Candidate")' \/ Has(c, sw, "Error")'
             /\ Sends(c, sw, out)
             /\ Conversation(c)' => ProtocolInv'
  <2>0. "Copy Config" \in Ids /\ 0 \in Nat
      BY Names
  <2>1. /\ Moves(c, a, next) /\ Answered(c, sw, set, reset, out)
        /\ Replied(c, sw, "Copy Config", 0, status)
    <3>1. Receive(c, sw, "WaitOnCandidateConfirmation", "Copy Config", status)
        BY <1>c
    <3>2. Shapes /\ Talks(c, sw, "Copy Config", 0) /\ Sending(out) /\ Enter(c, a, next, out)
        BY <1>1, <1>2, <1>6
    <3> QED BY <1>5, <2>0, <3>1, <3>2, Answer, ZenonT(30)
  <2>2. \A s \in Switches \ {sw} : \A f : Has(c, s, f)' <=> Has(c, s, f)
      BY <2>1 DEF Answered, Marks
  <2>3. \A f : Has(c, sw, f)' <=> Has(c, sw, f) \/ f = flag
      BY <1>0, <2>1 DEF Answered, Marks
  <2>4. \A s \in Switches :
            /\ Has(c, s, "LockedRunning")'
            /\ HasNone(c, s, {"LockedCandidate", "Configuration", "CommitTimeStamp", "Commited"})'
            /\ ~ (Has(c, s, "Candidate")' /\ Has(c, s, "Error")')
      BY <1>1, <1>2, <1>4, <2>2, <2>3 DEF InCopy, HasNone
  <2>5. Has(c, sw, "Candidate")' \/ Has(c, sw, "Error")'
      BY <1>4, <2>3
  <2>6. Sends(c, sw, out) /\ \A s \in Switches \ {sw} :
                                 /\ Silent(c, s) => Sends(c, s, out)
                                 /\ out[s] = << >> => Untouched(c, s)
      BY <2>1 DEF Answered
  <2>7. ASSUME Conversation(c)' PROVE ProtocolInv'
    <3>1. \A id, n, st : ~ Replied(c, sw, id, n, st)'
        BY <1>6, <2>6, NothingReplied
    <3>2. \A id, n, st : Replied(c, sw, id, n, st) => id = "Copy Config"
        BY <2>1, OnlyReply
    <3>3. Owns(c, sw) /\ Owns(c, sw)'
        BY <1>1, <2>4, <3>1, <3>2 DEF Owns, InCopy
    <3>4. ~ OwnsCandidate(c, sw) /\ ~ OwnsCandidate(c, sw)'
        BY <1>1, <2>4, <3>1, <3>2 DEF OwnsCandidate, InCopy, HasNone
    <3> QED BY <1>1, <1>6, <2>1, <2>7, <3>3, <3>4, AnsweredInv
  <2> QED BY <1>3, <2>1, <2>2, <2>4, <2>5, <2>6, <2>7
<1>7. ASSUME NEW s \in Switches, s # sw, s \in with \cup failed PROVE Silent(c, s)
  <2>1. a.flags[s] = apps[c].flags[s]
      BY <1>1, <1>5, <1>7, ConversationFacts, WithFlagsFacts
  <2>2. isInState(apps[c].flags[s], "WithCandidate") \/ isInState(apps[c].flags[s], "Error")
      BY <1>0, <1>7, <2>1 DEF getSwitchesInState
  <2>3. apps[c].flags[s] \in SUBSET Flags
      BY ConversationFacts
  <2>4. Has(c, s, "Candidate") \/ Has(c, s, "Error")
      BY <2>2, <2>3, InStateFacts DEF Has
  <2> QED BY <1>3, <2>4
<1>8. CASE with = Switches
  <2>1. PICK out : out = ToAll("Lock Candidate")
      OBVIOUS
  <2>2. "Lock Candidate" \in Ids /\ 0 \in Nat /\ "WaitOnCandidateLockResponse" \in States
      BY Names
  <2>3. Sending(out) /\ \A s \in Switches : out[s] = << Message("Lock Candidate", 0) >>
      BY <2>1, <2>2, ToAllFacts
  <2>4. Enter(c, a, "WaitOnCandidateLockResponse", out)
      BY <1>e, <1>8, <2>1
  <2>5. \A s \in Switches :
            (s = sw \/ Silent(c, s)) /\ \E id \in Ids, n \in Nat : out[s] = << Message(id, n) >>
      BY <1>7, <1>8, <2>2, <2>3
  <2>6. /\ Moves(c, a, "WaitOnCandidateLockResponse")
        /\ \A s \in Switches :
              /\ HasNone(c, s, {"LockedCandidate", "Configuration", "CommitTimeStamp", "Commited"})'
              /\ (Has(c, s, "Candidate")' \/ Has(c, s, "Error")') => Sends(c, s, out)
        /\ Conversation(c)' => ProtocolInv'
      BY <1>6, <2>2, <2>3, <2>4, <2>5
  <2>7. ASSUME NEW s \in Switches PROVE InCandidateLock(c, s)'
    <3>1. Has(c, s, "LockedRunning")' /\ Has(c, s, "Candidate")' /\ ~ Has(c, s, "Error")'
        BY <1>0, <1>8, <2>6, NextState DEF getSwitchesInState
    <3>2. Talks(c, s, "Lock Candidate", 0)'
        BY <2>2, <2>3, <2>6, <3>1, Spoken DEF OneThing, Sends
    <3> QED BY <2>6, <3>1, <3>2 DEF InCandidateLock, HasAll, HasNone, AskedUnless
  <2>8. Conversation(c)'
    <3>1. apps'[c].state = "WaitOnCandidateLockResponse"
        BY <2>6 DEF Moves
    <3>2. \A s \in Switches : InState(c, s, "WaitOnCandidateLockResponse")'
        BY <2>7 DEF InState
    <3> QED BY <3>1, <3>2 DEF Conversation
  <2> QED BY <2>6, <2>8
<1>9. CASE with # Switches /\ failed = Switches
  <2>1. PICK out : out = ToAll("Unlock")
      OBVIOUS
  <2>2. "Unlock" \in Ids /\ 0 \in Nat /\ "WaitOnUnlock" \in States
      BY Names
  <2>3. Sending(out) /\ \A s \in Switches : out[s] = << Message("Unlock", 0) >>
      BY <2>1, <2>2, ToAllFacts
  <2>4. Enter(c, a, "WaitOnUnlock", out)
      BY <1>e, <1>9, <2>1
  <2>5. \A s \in Switches :
            (s = sw \/ Silent(c, s)) /\ \E id \in Ids, n \in Nat : out[s] = << Message(id, n) >>
      BY <1>7, <1>9, <2>2, <2>3
  <2>6. /\ Moves(c, a, "WaitOnUnlock")
        /\ \A s \in Switches :
              /\ HasNone(c, s, {"LockedCandidate", "Configuration", "CommitTimeStamp", "Commited"})'
              /\ ~ (Has(c, s, "Candidate")' /\ Has(c, s, "Error")')
              /\ (Has(c, s, "Candidate")' \/ Has(c, s, "Error")') => Sends(c, s, out)
        /\ Conversation(c)' => ProtocolInv'
      BY <1>6, <2>2, <2>3, <2>4, <2>5
  <2>7. ASSUME NEW s \in Switches PROVE InUnlock(c, s)' /\ ~ Has(c, s, "Commited")'
    <3>1. Has(c, s, "Error")'
        BY <1>0, <1>9, <2>6, NextState DEF getSwitchesInState
    <3>2. Talks(c, s, "Unlock", 0)'
        BY <2>2, <2>3, <2>6, <3>1, Spoken DEF OneThing, Sends
    <3> QED BY <2>6, <3>1, <3>2 DEF InUnlock, HasNone
  <2>8. Conversation(c)'
    <3>1. apps'[c].state = "WaitOnUnlock"
        BY <2>6 DEF Moves
    <3>2. \A s \in Switches : InState(c, s, "WaitOnUnlock")'
        BY <2>7 DEF InState
    <3> QED BY <2>7, <3>1, <3>2 DEF Conversation
  <2> QED BY <2>6, <2>8
<1>10. CASE with # Switches /\ failed # Switches
  <2>1. PICK out : out = ToNone
      OBVIOUS
  <2>2. Sending(out) /\ \A s \in Switches : out[s] = << >>
      BY <2>1, ToNoneFacts
  <2>3. "WaitOnCandidateConfirmation" \in States /\ "ErrorState" \in States
      BY Names
  <2>4. CASE with \cup failed = Switches
    <3>1. Enter(c, a, "ErrorState", out)
        BY <1>e, <1>10, <2>1, <2>4
    <3>2. /\ Moves(c, a, "ErrorState")
          /\ \A s \in Switches :
                /\ Has(c, s, "LockedRunning")'
                /\ HasNone(c, s, {"LockedCandidate", "Configuration", "CommitTimeStamp", "Commited"})'
                /\ (Has(c, s, "Candidate")' \/ Has(c, s, "Error")') => Sends(c, s, out)
          /\ Conversation(c)' => ProtocolInv'
        BY <1>6, <2>2, <2>3, <3>1
    <3>3. ASSUME NEW s \in Switches PROVE InError(c, s)'
      <4>1. Has(c, s, "Candidate")' \/ Has(c, s, "Error")'
        <5>1. s \in with \/ s \in failed
            BY <2>4
        <5>2. isInState(a.flags[s], "WithCandidate") \/ isInState(a.flags[s], "Error")
            BY <1>0, <5>1 DEF getSwitchesInState
        <5> QED BY <3>2, <5>2, NextState
      <4>2. Silent(c, s)'
          BY <2>2, <3>2, <4>1 DEF Sends
      <4> QED BY <3>2, <4>2 DEF InError, HasNone
    <3>4. Conversation(c)'
      <4>1. apps'[c].state = "ErrorState"
          BY <3>2 DEF Moves
      <4>2. \A s \in Switches : InState(c, s, "ErrorState")'
          BY <3>3 DEF InState
      <4> QED BY <4>1, <4>2 DEF Conversation
    <3> QED BY <3>2, <3>4
  <2>5. CASE with \cup failed # Switches
    <3>1. Enter(c, a, "WaitOnCandidateConfirmation", out)
        BY <1>e, <1>10, <2>1, <2>5
    <3>2. /\ Moves(c, a, "WaitOnCandidateConfirmation")
          /\ \A s \in Switches :
                /\ Has(c, s, "LockedRunning")'
                /\ HasNone(c, s, {"LockedCandidate", "Configuration", "CommitTimeStamp", "Commited"})'
                /\ ~ (Has(c, s, "Candidate")' /\ Has(c, s, "Error")')
                /\ s # sw => Untouched(c, s)
          /\ Has(c, sw, "Candidate")' \/ Has(c, sw, "Error")'
          /\ Sends(c, sw, out)
          /\ Conversation(c)' => ProtocolInv'
        BY <1>6, <2>2, <2>3, <3>1
    <3>3. ASSUME NEW s \in Switches PROVE InState(c, s, "WaitOnCandidateConfirmation")'
      <4>1. CASE s = sw
        <5>1. Silent(c, sw)'
            BY <2>2, <3>2 DEF Sends
        <5>2. InCopy(c, sw)'
            BY <3>2, <5>1 DEF InCopy, AskedUnless, HasNone
        <5> QED BY <4>1, <5>2 DEF InState
      <4>2. CASE s # sw
        <5>1. Untouched(c, s) /\ plan' = plan /\ stores' = stores
            BY <3>2, <4>2 DEF Moves, Elsewhere
        <5>2. InState(c, s, "WaitOnCandidateConfirmation")
            BY <1>1 DEF InState
        <5> QED BY <2>3, <5>1, <5>2, UntouchedFacts
      <4> QED BY <4>1, <4>2
    <3>4. Conversation(c)'
      <4>1. apps'[c].state = "WaitOnCandidateConfirmation"
          BY <3>2 DEF Moves
      <4> QED BY <3>3, <4>1 DEF Conversation
    <3> QED BY <3>2, <3>4
  <2> QED BY <2>4, <2>5
<1> QED BY <1>8, <1>9, <1>10

LEMMA Conversing ==
    ASSUME NEW c \in Apps, NEW a, NEW next, Moves(c, a, next), next # "WaitOnLockResponse",
           \/ next # "WaitOnUnlock" /\ next # "EndOfTransaction"
           \/ \A s \in Switches : Has(c, s, "Commited")'
           \/ \A s \in Switches : ~ Has(c, s, "Commited")',
           \A s \in Switches : InState(c, s, next)'
    PROVE  Conversation(c)'
<1>1. apps'[c].state = next
    BY DEF Moves
<1> QED BY <1>1 DEF Conversation

(* The app stays in its state: only the switch that answered is concerned. *)
LEMMA Staying ==
    ASSUME ProtocolInv, NEW c \in Apps, NEW sw \in Switches, NEW a, NEW next \in States,
           Moves(c, a, next), apps[c].state = next,
           \A s \in Switches \ {sw} : Untouched(c, s), InState(c, sw, next)'
    PROVE  \A s \in Switches : InState(c, s, next)'
<1>1. ASSUME NEW s \in Switches \ {sw} PROVE InState(c, s, next)'
  <2>1. InState(c, s, next)
      BY ConversationFacts
  <2>2. Untouched(c, s) /\ plan' = plan /\ stores' = stores
      BY DEF Moves, Elsewhere
  <2> QED BY <2>1, <2>2, UntouchedFacts
<1> QED BY <1>1

LEMMA FirstChangesFacts ==
    Sending(FirstChanges) /\ \A s \in Switches : FirstChanges[s] = << Message("Change", 1) >>
<1>1. "Change" \in Ids /\ 1 \in Nat
    BY Names
<1>2. << Message("Change", 1) >> \in Seq(Requests)
    BY <1>1, MessageSeq
<1> QED BY <1>2 DEF FirstChanges, Sending

LEMMA CandidateLockStep ==
    ASSUME ProtocolInv, NEW c \in Apps, NEW sw \in Switches,
           handleMessageInWaitOnCandidateLockResponse(c, sw)
    PROVE  ProtocolInv'
<1>0. PICK set, reset, a : /\ set = {"LockedCandidate"} /\ reset = {}
                           /\ a = WithFlags(c, sw, set, reset)
    OBVIOUS
<1>a. /\ Receive(c, sw, "WaitOnCandidateLockResponse", "Lock Candidate", "ok")
      /\ IF getSwitchesInState(a, "WithLockedCandidate") = Switches
         THEN Enter(c, a, "WaitOnChangeConfirmation", FirstChanges)
         ELSE Enter(c, a, "WaitOnCandidateLockResponse", ToNone)
    BY <1>0 DEF handleMessageInWaitOnCandidateLockResponse
<1>1. /\ apps[c].state = "WaitOnCandidateLockResponse" /\ \A s \in Switches : InCandidateLock(c, s)
      /\ ~ Silent(c, sw) /\ Shapes
    BY <1>a, Waiting, ConversationFacts, InStateCases
<1>2. Talks(c, sw, "Lock Candidate", 0)
    BY <1>1 DEF InCandidateLock, AskedUnless
<1>3. \A s \in Switches : Has(c, s, "LockedCandidate") => Silent(c, s)
    BY <1>1 DEF InCandidateLock, AskedUnless, HasNone
<1>5. Flagged(c, sw, set, reset, a)
    BY <1>0, Names DEF Flagged
<1>6. ASSUME NEW next \in States, NEW out, Sending(out), Enter(c, a, next, out),
             \A s \in Switches :
                \/ out[s] = << >>
                \/ (s = sw \/ Silent(c, s)) /\ \E id \in Ids, n \in Nat : out[s] = << Message(id, n) >>
      PROVE  /\ Moves(c, a, next)
             /\ \A s \in Switches :
                   /\ HasAll(c, s, {"LockedRunning", "Candidate"})'
                   /\ HasNone(c, s, {"Configuration", "CommitTimeStamp", "Commited", "Error"})'
                   /\ Has(c, s, "LockedCandidate")' => Sends(c, s, out)
                   /\ s # sw /\ out[s] = << >> => Untouched(c, s)
             /\ Has(c, sw, "LockedCandidate")'
             /\ Conversation(c)' => ProtocolInv'
  <2>1. /\ Moves(c, a, next) /\ Answered(c, sw, set, reset, out)
        /\ Replied(c, sw, "Lock Candidate", 0, "ok")
    <3>1. "Lock Candidate" \in Ids /\ 0 \in Nat
        BY Names
    <3>2. Shapes /\ Talks(c, sw, "Lock Candidate", 0) /\ Sending(out) /\ Enter(c, a, next, out)
        BY <1>1, <1>2, <1>6
    <3> QED BY <1>a, <1>5, <3>1, <3>2, Answer
  <2>2. \A s \in Switches \ {sw} : \A f : Has(c, s, f)' <=> Has(c, s, f)
      BY <2>1 DEF Answered, Marks
  <2>3. \A f : Has(c, sw, f)' <=> Has(c, sw, f) \/ f = "LockedCandidate"
      BY <1>0, <2>1 DEF Answered, Marks
  <2>4. \A s \in Switches :
            /\ HasAll(c, s, {"LockedRunning", "Candidate"})'
            /\ HasNone(c, s, {"Configuration", "CommitTimeStamp", "Commited", "Error"})'
      BY <1>1, <2>2, <2>3 DEF InCandidateLock, HasNone, HasAll
  <2>5. Sends(c, sw, out) /\ \A s \in Switches \ {sw} :
                                 /\ Silent(c, s) => Sends(c, s, out)
                                 /\ out[s] = << >> => Untouched(c, s)
      BY <2>1 DEF Answered
  <2>6. ASSUME Conversation(c)' PROVE ProtocolInv'
    <3>1. \A id, n, st : ~ Replied(c, sw, id, n, st)'
        BY <1>6, <2>5, NothingReplied
    <3>2. \A id, n, st : Replied(c, sw, id, n, st) => id = "Lock Candidate"
        BY <2>1, OnlyReply
    <3>3. Owns(c, sw) /\ Owns(c, sw)'
        BY <1>1, <2>4, <3>1, <3>2 DEF Owns, InCandidateLock, HasAll
    <3>4. OwnsCandidate(c, sw) /\ OwnsCandidate(c, sw)'
        BY <2>1, <2>3, <3>1 DEF OwnsCandidate
    <3> QED BY <1>1, <1>6, <2>1, <2>6, <3>3, <3>4, AnsweredInv
  <2> QED BY <1>3, <2>1, <2>2, <2>3, <2>4, <2>5, <2>6
<1>7. CASE getSwitchesInState(a, "WithLockedCandidate") = Switches
  <2>0. PICK out : out = FirstChanges
      OBVIOUS
  <2>1. Sending(out) /\ \A s \in Switches : out[s] = << Message("Change", 1) >>
      BY <2>0, FirstChangesFacts
  <2>2. "Change" \in Ids /\ 1 \in Nat /\ "WaitOnChangeConfirmation" \in States
      BY Names
  <2>3. Enter(c, a, "WaitOnChangeConfirmation", out)
      BY <1>a, <1>7, <2>0
  <2>4. \A s \in Switches : isInState(a.flags[s], "WithLockedCandidate")
      BY <1>7 DEF getSwitchesInState
  <2>5. \A s \in Switches : s # sw => Silent(c, s)
    <3>1. ASSUME NEW s \in Switches, s # sw PROVE Silent(c, s)
      <4>1. a.flags[s] = apps[c].flags[s] /\ apps[c].flags[s] \in SUBSET Flags
          BY <1>1, <1>5, <3>1, ConversationFacts, WithFlagsFacts
      <4>2. Has(c, s, "LockedCandidate")
          BY <2>4, <4>1, InStateFacts DEF Has
      <4> QED BY <1>3, <4>2
    <3> QED BY <3>1
  <2>6. \A s \in Switches :
            (s = sw \/ Silent(c, s)) /\ \E id \in Ids, n \in Nat : out[s] = << Message(id, n) >>
      BY <2>1, <2>2, <2>5
  <2>7. /\ Moves(c, a, "WaitOnChangeConfirmation")
        /\ \A s \in Switches :
              /\ HasAll(c, s, {"LockedRunning", "Candidate"})'
              /\ HasNone(c, s, {"Configuration", "CommitTimeStamp", "Commited", "Error"})'
              /\ Has(c, s, "LockedCandidate")' => Sends(c, s, out)
        /\ Conversation(c)' => ProtocolInv'
      BY <1>6, <2>1, <2>2, <2>3, <2>6
  <2>8. ASSUME NEW s \in Switches PROVE InState(c, s, "WaitOnChangeConfirmation")'
    <3>1. Has(c, s, "LockedCandidate")'
        BY <2>4, <2>7, NextState
    <3>2. Asked(c, s, "Change", 1)'
        BY <2>1, <2>2, <2>7, <3>1 DEF Sends
    <3>3. Talks(c, s, "Change", 1)'
        BY <3>2 DEF Talks
    <3>4. 1 \in 1 .. Len(plan'[c][s])
      <4>1. plan' = plan /\ plan[c] \in [Switches -> Seq(Changes) \ {<< >>}]
          BY <1>1, <2>7 DEF Shapes, Moves, Elsewhere
      <4>2. plan[c][s] \in Seq(Changes) /\ plan[c][s] # << >>
          BY <4>1
      <4>3. Len(plan[c][s]) \in Nat /\ Len(plan[c][s]) # 0
          BY <4>2
      <4> QED BY <4>1, <4>3
    <3>5. InChange(c, s)'
        BY <2>7, <3>1, <3>3, <3>4 DEF InChange, HasAll, HasNone
    <3> QED BY <3>5 DEF InState
  <2> QED BY <2>7, <2>8, Conversing
<1>8. CASE getSwitchesInState(a, "WithLockedCandidate") # Switches
  <2>0. PICK out : out = ToNone
      OBVIOUS
  <2>1. Sending(out) /\ \A s \in Switches : out[s] = << >>
      BY <2>0, ToNoneFacts
  <2>2. "WaitOnCandidateLockResponse" \in States
      BY Names
  <2>3. Enter(c, a, "WaitOnCandidateLockResponse", out)
      BY <1>a, <1>8, <2>0
  <2>4. /\ Moves(c, a, "WaitOnCandidateLockResponse")
        /\ \A s \in Switches :
              /\ HasAll(c, s, {"LockedRunning", "Candidate"})'
              /\ HasNone(c, s, {"Configuration", "CommitTimeStamp", "Commited", "Error"})'
              /\ Has(c, s, "LockedCandidate")' => Sends(c, s, out)
              /\ s # sw => Untouched(c, s)
        /\ Has(c, sw, "LockedCandidate")'
        /\ Conversation(c)' => ProtocolInv'
      BY <1>6, <2>1, <2>2, <2>3
  <2>5. InState(c, sw, "WaitOnCandidateLockResponse")'
    <3>1. Silent(c, sw)'
        BY <2>1, <2>4 DEF Sends
    <3>2. InCandidateLock(c, sw)'
        BY <2>4, <3>1 DEF InCandidateLock, AskedUnless, HasNone
    <3> QED BY <3>2 DEF InState
  <2>6. \A s \in Switches : InState(c, s, "WaitOnCandidateLockResponse")'
      BY <1>1, <2>2, <2>4, <2>5, Staying
  <2> QED BY <2>4, <2>6, Conversing
<1> QED BY <1>7, <1>8

(* A reply to a change, whatever the app makes of it.                      *)
Marking(flag, set, reset) ==
    /\ flag = "Configuration" \/ flag = "Error"
    /\ \A f : f \in set => f = flag
    /\ \A f : f \notin reset

LEMMA ChangeMoves ==
    ASSUME ProtocolInv, NEW c \in Apps, NEW sw \in Switches, NEW status \in {"ok", "error"},
           Receive(c, sw, "WaitOnChangeConfirmation", "Change", status),
           NEW flag, NEW set, NEW reset, Marking(flag, set, reset),
           NEW a, Flagged(c, sw, set, reset, a),
           NEW next \in States, NEW out, Sending(out), Enter(c, a, next, out),
           \A s \in Switches :
              \/ out[s] = << >>
              \/ (s = sw \/ Silent(c, s)) /\ \E id \in Ids, n \in Nat : out[s] = << Message(id, n) >>
    PROVE  /\ Moves(c, a, next) /\ Sends(c, sw, out)
           /\ \A f : Has(c, sw, f)' <=> Has(c, sw, f) \/ f \in set
           /\ \A s \in Switches : /\ HasAll(c, s, {"LockedRunning", "Candidate", "LockedCandidate"})'
                                  /\ HasNone(c, s, {"CommitTimeStamp", "Commited"})'
                                  /\ ~ (Has(c, s, "Configuration")' /\ Has(c, s, "Error")')
           /\ \A s \in Switches \ {sw} :
                 /\ Has(c, s, "Configuration")' <=> Has(c, s, "Configuration")
                 /\ Has(c, s, "Error")' <=> Has(c, s, "Error")
                 /\ Silent(c, s) => Sends(c, s, out)
                 /\ out[s] = << >> => Untouched(c, s)
           /\ Conversation(c)' => ProtocolInv'
<1>1. /\ apps[c].state = "WaitOnChangeConfirmation" /\ \A s \in Switches : InChange(c, s)
      /\ ~ Silent(c, sw) /\ Shapes
    BY Waiting, ConversationFacts, InStateCases
<1>2. /\ ~ Has(c, sw, "Configuration") /\ ~ Has(c, sw, "Error")
      /\ \E n \in 1 .. Len(plan[c][sw]) : Talks(c, sw, "Change", n)
    BY <1>1 DEF InChange, HasNone
<1>3. PICK n \in Nat : Talks(c, sw, "Change", n)
    BY <1>2
<1>4. /\ Moves(c, a, next) /\ Answered(c, sw, set, reset, out)
      /\ Replied(c, sw, "Change", n, status)
  <2>1. "Change" \in Ids
      BY Names
  <2> QED BY <1>1, <1>3, <2>1, Answer
<1>5. \A s \in Switches \ {sw} : \A f : Has(c, s, f)' <=> Has(c, s, f)
    BY <1>4 DEF Answered, Marks
<1>6. \A f : Has(c, sw, f)' <=> Has(c, sw, f) \/ f \in set
    BY <1>4 DEF Answered, Marks, Marking
<1>7. \A s \in Switches : /\ HasAll(c, s, {"LockedRunning", "Candidate", "LockedCandidate"})'
                          /\ HasNone(c, s, {"CommitTimeStamp", "Commited"})'
                          /\ ~ (Has(c, s, "Configuration")' /\ Has(c, s, "Error")')
    BY <1>1, <1>2, <1>5, <1>6 DEF InChange, HasNone, HasAll, Marking
<1>8. Sends(c, sw, out) /\ \A s \in Switches \ {sw} :
                               /\ Silent(c, s) => Sends(c, s, out)
                               /\ out[s] = << >> => Untouched(c, s)
    BY <1>4 DEF Answered
<1>9. ASSUME Conversation(c)' PROVE ProtocolInv'
  <2>1. \A id, k, st : ~ Replied(c, sw, id, k, st)'
      BY <1>8, NothingReplied
  <2>2. \A id, k, st : Replied(c, sw, id, k, st) => id = "Change"
      BY <1>4, OnlyReply
  <2>3. Owns(c, sw) /\ Owns(c, sw)'
      BY <1>1, <1>7, <2>1, <2>2 DEF Owns, InChange, HasAll
  <2>4. OwnsCandidate(c, sw) /\ OwnsCandidate(c, sw)'
      BY <1>1, <1>7, <2>1, <2>2 DEF OwnsCandidate, InChange, HasAll
  <2> QED BY <1>1, <1>4, <1>9, <2>3, <2>4, AnsweredInv
<1> QED BY <1>4, <1>5, <1>6, <1>7, <1>8, <1>9

(* The switch has taken all changes or refused one: the app waits for the  *)
(* others or undoes.                                                       *)
LEMMA ChangeAnswered ==
    ASSUME ProtocolInv, NEW c \in Apps, NEW sw \in Switches, NEW status \in {"ok", "error"},
           Receive(c, sw, "WaitOnChangeConfirmation", "Change", status),
           NEW flag, NEW set, NEW reset, Marking(flag, set, reset), flag \in set,
           NEW a, Flagged(c, sw, set, reset, a),
           NEW next, NEW out, Sending(out), Enter(c, a, next, out),
           \A s \in Switches : out[s] = << >>,
           \/ next = "WaitOnChangeConfirmation"
           \/ /\ next = "ErrorState"
              /\ getSwitchesInState(a, "Error")
                   \cup getSwitchesInState(a, "WithChangedCandidateConfiguration") = Switches
    PROVE  ProtocolInv'
<1>1. /\ apps[c].state = "WaitOnChangeConfirmation" /\ \A s \in Switches : InChange(c, s)
      /\ ~ Silent(c, sw) /\ Shapes
    BY Waiting, ConversationFacts, InStateCases
<1>5. next \in States
    BY Names
<1>6. /\ Moves(c, a, next) /\ Sends(c, sw, out)
      /\ \A f : Has(c, sw, f)' <=> Has(c, sw, f) \/ f \in set
      /\ \A s \in Switches : /\ HasAll(c, s, {"LockedRunning", "Candidate", "LockedCandidate"})'
                             /\ HasNone(c, s, {"CommitTimeStamp", "Commited"})'
                             /\ ~ (Has(c, s, "Configuration")' /\ Has(c, s, "Error")')
      /\ \A s \in Switches \ {sw} :
            /\ Has(c, s, "Configuration")' <=> Has(c, s, "Configuration")
            /\ Has(c, s, "Error")' <=> Has(c, s, "Error")
            /\ Untouched(c, s)
      /\ Conversation(c)' => ProtocolInv'
    BY <1>5, ChangeMoves
<1>7. Silent(c, sw)' /\ (Has(c, sw, "Configuration")' \/ Has(c, sw, "Error")')
    BY <1>6 DEF Sends, Marking
<1>8. CASE next = "WaitOnChangeConfirmation"
  <2>1. InChange(c, sw)'
      BY <1>6, <1>7 DEF InChange, HasNone
  <2>2. InState(c, sw, next)'
      BY <1>8, <2>1 DEF InState
  <2>3. \A s \in Switches : InState(c, s, next)'
      BY <1>1, <1>5, <1>6, <1>8, <2>2, Staying
  <2>4. Conversation(c)'
      BY <1>6, <1>8, <2>3, Conversing
  <2> QED BY <1>6, <2>4
<1>9. CASE next # "WaitOnChangeConfirmation"
  <2>1. ASSUME NEW s \in Switches PROVE InError(c, s)'
    <3>1. isInState(a.flags[s], "Error") \/ isInState(a.flags[s], "WithChangedCandidateConfiguration")
        BY <1>9 DEF getSwitchesInState
    <3>2. Has(c, s, "Error")' \/ HasAll(c, s, Staged)'
        BY <1>6, <3>1, NextState
    <3>3. Has(c, s, "Error")' \/ Has(c, s, "Configuration")'
        BY <3>2 DEF HasAll, Staged
    <3>4. Silent(c, s)'
      <4>1. CASE s = sw
          BY <1>7, <4>1
      <4>2. CASE s # sw
        <5>1. Silent(c, s) /\ Untouched(c, s)
            BY <1>1, <1>6, <3>3, <4>2 DEF InChange, HasNone
        <5> QED BY <5>1 DEF Untouched, Silent
      <4> QED BY <4>1, <4>2
    <3> QED BY <1>6, <3>4 DEF InError, HasAll, HasNone
  <2>2. \A s \in Switches : InState(c, s, next)'
      BY <1>9, <2>1 DEF InState
  <2>3. Conversation(c)'
      BY <1>6, <1>9, <2>2, Conversing
  <2> QED BY <1>6, <2>3
<1> QED BY <1>8, <1>9

LEMMA AllChangedStep ==
    ASSUME ProtocolInv, NEW c \in Apps, NEW sw \in Switches,
           Receive(c, sw, "WaitOnChangeConfirmation", "Change", "ok"),
           NEW set, NEW reset, Marking("Configuration", set, reset), "Configuration" \in set,
           NEW a, Flagged(c, sw, set, reset, a), a = WithFlags(c, sw, set, reset),
           getSwitchesInState(apps[c], "Error") = {},
           getSwitchesInState(a, "Error")
             \cup getSwitchesInState(a, "WithChangedCandidateConfiguration") = Switches,
           AllChanged(c, a)
    PROVE  ProtocolInv'
<1>1. /\ apps[c].state = "WaitOnChangeConfirmation" /\ \A s \in Switches : InChange(c, s)
      /\ ~ Silent(c, sw) /\ Shapes
    BY Waiting, ConversationFacts, InStateCases
<1>2. ASSUME NEW s \in Switches PROVE ~ Has(c, s, "Error")
  <2>1. ~ isInState(apps[c].flags[s], "Error") /\ apps[c].flags[s] \in SUBSET Flags
      BY ConversationFacts DEF getSwitchesInState
  <2> QED BY <2>1, InStateFacts DEF Has
<1>3. ASSUME NEW s \in Switches, s # sw PROVE Has(c, s, "Configuration") /\ Silent(c, s)
  <2>1. a.flags[s] = apps[c].flags[s] /\ apps[c].flags[s] \in SUBSET Flags
      BY <1>1, <1>3, ConversationFacts, WithFlagsFacts
  <2>2. \/ isInState(a.flags[s], "Error")
        \/ isInState(a.flags[s], "WithChangedCandidateConfiguration")
      BY DEF getSwitchesInState
  <2>3. Has(c, s, "Configuration")
      BY <1>2, <2>1, <2>2, InStateFacts DEF Has, Staged
  <2> QED BY <1>1, <2>3 DEF InChange, HasNone
<1>4. ASSUME NEW b, Flagged(c, sw, set, reset, b), NEW next \in States, NEW id \in Ids,
             NEW out, Sending(out), \A s \in Switches : out[s] = << Message(id, 0) >>,
             Enter(c, b, next, out)
      PROVE  /\ Moves(c, b, next)
             /\ \A s \in Switches :
                   /\ HasAll(c, s, Staged)' /\ ~ Has(c, s, "CommitTimeStamp")'
                   /\ ~ Has(c, s, "Commited")' /\ ~ Has(c, s, "Error")'
                   /\ Talks(c, s, id, 0)'
             /\ Conversation(c)' => ProtocolInv'
  <2>1. \A s \in Switches :
            (s = sw \/ Silent(c, s)) /\ \E i \in Ids, n \in Nat : out[s] = << Message(i, n) >>
      BY <1>3, <1>4
  <2>2. /\ Moves(c, b, next) /\ Sends(c, sw, out)
        /\ \A f : Has(c, sw, f)' <=> Has(c, sw, f) \/ f \in set
        /\ \A s \in Switches : /\ HasAll(c, s, {"LockedRunning", "Candidate", "LockedCandidate"})'
                               /\ HasNone(c, s, {"CommitTimeStamp", "Commited"})'
                               /\ ~ (Has(c, s, "Configuration")' /\ Has(c, s, "Error")')
        /\ \A s \in Switches \ {sw} :
              /\ Has(c, s, "Configuration")' <=> Has(c, s, "Configuration")
              /\ Silent(c, s) => Sends(c, s, out)
        /\ Conversation(c)' => ProtocolInv'
    <3>1. "ok" \in {"ok", "error"}
        OBVIOUS
    <3> QED BY <1>4, <2>1, <3>1, ChangeMoves
  <2>3. ASSUME NEW s \in Switches
        PROVE  /\ HasAll(c, s, Staged)' /\ ~ Has(c, s, "CommitTimeStamp")'
               /\ ~ Has(c, s, "Commited")' /\ ~ Has(c, s, "Error")'
               /\ Talks(c, s, id, 0)'
    <3>1. Has(c, s, "Configuration")'
        BY <1>3, <2>2
    <3>2. Sends(c, s, out)
        BY <1>3, <2>2
    <3>3. Asked(c, s, id, 0)'
        BY <1>4, <3>2 DEF Sends
    <3> QED BY <2>2, <3>1, <3>3 DEF HasAll, HasNone, Staged, Talks
  <2> QED BY <2>2, <2>3
<1>5. CASE c \in TimedApps
  <2>1. PICK b, out : b = determineTimestamp(a) /\ out = ToAll("Timestamp")
      OBVIOUS
  <2>2. "Timestamp" \in Ids /\ "WaitOnTimestampConfirmation" \in States
      BY Names
  <2>3. Sending(out) /\ \A s \in Switches : out[s] = << Message("Timestamp", 0) >>
      BY <2>1, <2>2, ToAllFacts
  <2>4. Flagged(c, sw, set, reset, b) /\ Enter(c, b, "WaitOnTimestampConfirmation", out)
      BY <1>5, <2>1 DEF Flagged, AllChanged
  <2>5. /\ Moves(c, b, "WaitOnTimestampConfirmation")
        /\ \A s \in Switches :
              /\ HasAll(c, s, Staged)' /\ ~ Has(c, s, "CommitTimeStamp")'
              /\ ~ Has(c, s, "Commited")' /\ ~ Has(c, s, "Error")'
              /\ Talks(c, s, "Timestamp", 0)'
        /\ Conversation(c)' => ProtocolInv'
      BY <1>4, <2>2, <2>3, <2>4
  <2>6. \A s \in Switches : InTimestamp(c, s)'
      BY <2>5 DEF InTimestamp, AskedUnless, HasNone
  <2>7. \A s \in Switches : InState(c, s, "WaitOnTimestampConfirmation")'
      BY <2>6 DEF InState
  <2> QED BY <2>5, <2>7, Conversing
<1>6. CASE c \notin TimedApps
  <2>1. PICK out : out = ToAll("Commit approved")
      OBVIOUS
  <2>2. "Commit approved" \in Ids /\ "WaitOnCommitExecution" \in States
      BY Names
  <2>3. Sending(out) /\ \A s \in Switches : out[s] = << Message("Commit approved", 0) >>
      BY <2>1, <2>2, ToAllFacts
  <2>4. Enter(c, a, "WaitOnCommitExecution", out)
      BY <1>6, <2>1 DEF AllChanged
  <2>5. /\ Moves(c, a, "WaitOnCommitExecution")
        /\ \A s \in Switches :
              /\ HasAll(c, s, Staged)' /\ ~ Has(c, s, "CommitTimeStamp")'
              /\ ~ Has(c, s, "Commited")' /\ ~ Has(c, s, "Error")'
              /\ Talks(c, s, "Commit approved", 0)'
        /\ Conversation(c)' => ProtocolInv'
      BY <1>4, <2>2, <2>3, <2>4
  <2>6. \A s \in Switches : InCommit(c, s)'
      BY <1>6, <2>5 DEF InCommit
  <2>7. \A s \in Switches : InState(c, s, "WaitOnCommitExecution")'
      BY <2>6 DEF InState
  <2> QED BY <2>5, <2>7, Conversing
<1> QED BY <1>5, <1>6

LEMMA NextChangeStep ==
    ASSUME ProtocolInv, NEW c \in Apps, NEW sw \in Switches,
           Receive(c, sw, "WaitOnChangeConfirmation", "Change", "ok"),
           NEW n, n = Head(replies[c][sw]).n, n < Len(plan[c][sw]),
           Enter(c, apps[c], "WaitOnChangeConfirmation", To(sw, "Change", n + 1))
    PROVE  ProtocolInv'
<1>1. /\ apps[c].state = "WaitOnChangeConfirmation" /\ \A s \in Switches : InChange(c, s)
      /\ ~ Silent(c, sw) /\ Shapes /\ c \in Sessions
    BY Waiting, ConversationFacts, InStateCases
<1>2. /\ ~ Has(c, sw, "Configuration") /\ ~ Has(c, sw, "Error")
      /\ \E k \in 1 .. Len(plan[c][sw]) : Talks(c, sw, "Change", k)
    BY <1>1 DEF InChange, HasNone
<1>3. Len(plan[c][sw]) \in Nat
  <2>1. plan[c] \in [Switches -> Seq(Changes) \ {<< >>}]
      BY <1>1 DEF Shapes
  <2>2. plan[c][sw] \in Seq(Changes)
      BY <2>1
  <2> QED BY <2>2
<1>4. n \in 1 .. Len(plan[c][sw])
  <2>1. PICK k \in 1 .. Len(plan[c][sw]) : Talks(c, sw, "Change", k)
      BY <1>2
  <2>2. "Change" \in Ids
      BY Names
  <2>3. k \in Nat
      BY <1>3
  <2>4. Head(replies[c][sw]).n = k
      BY <1>1, <2>1, <2>2, <2>3, ReceiveFacts
  <2> QED BY <2>4
<1>5. PICK set, reset, out : set = {} /\ reset = {} /\ out = To(sw, "Change", n + 1)
    OBVIOUS
<1>6. n + 1 \in 1 .. Len(plan[c][sw]) /\ n + 1 \in Nat
    BY <1>3, <1>4
<1>7. /\ Sending(out) /\ out[sw] = << Message("Change", n + 1) >>
      /\ \A s \in Switches \ {sw} : out[s] = << >>
  <2>1. "Change" \in Ids
      BY Names
  <2> QED BY <1>5, <1>6, <2>1, ToFacts
<1>8. /\ Flagged(c, sw, set, reset, apps[c]) /\ Marking("Error", set, reset)
      /\ \A f : f \notin set
    BY <1>5 DEF Flagged, Marking
<1>9. \A s \in Switches :
          \/ out[s] = << >>
          \/ (s = sw \/ Silent(c, s)) /\ \E id \in Ids, k \in Nat : out[s] = << Message(id, k) >>
    BY <1>6, <1>7, Names
<1>10. /\ Moves(c, apps[c], "WaitOnChangeConfirmation") /\ Sends(c, sw, out)
       /\ \A f : Has(c, sw, f)' <=> Has(c, sw, f) \/ f \in set
       /\ \A s \in Switches : /\ HasAll(c, s, {"LockedRunning", "Candidate", "LockedCandidate"})'
                              /\ HasNone(c, s, {"CommitTimeStamp", "Commited"})'
       /\ \A s \in Switches \ {sw} : out[s] = << >> => Untouched(c, s)
       /\ Conversation(c)' => ProtocolInv'
  <2>1. /\ "ok" \in {"ok", "error"} /\ "WaitOnChangeConfirmation" \in States
        /\ Enter(c, apps[c], "WaitOnChangeConfirmation", out)
      BY <1>5, Names
  <2> QED BY <1>7, <1>8, <1>9, <2>1, ChangeMoves
<1>11. InState(c, sw, "WaitOnChangeConfirmation")'
  <2>1. Asked(c, sw, "Change", n + 1)'
    <3>1. "Change" \in Ids
        BY Names
    <3> QED BY <1>6, <1>7, <1>10, <3>1 DEF Sends
  <2>2. Talks(c, sw, "Change", n + 1)' /\ plan' = plan
      BY <1>10, <2>1 DEF Talks, Moves, Elsewhere
  <2>3. InChange(c, sw)'
      BY <1>2, <1>6, <1>8, <1>10, <2>2 DEF InChange, HasNone, HasAll
  <2> QED BY <2>3 DEF InState
<1>12. \A s \in Switches : InState(c, s, "WaitOnChangeConfirmation")'
  <2>1. "WaitOnChangeConfirmation" \in States
      BY Names
  <2> QED BY <1>1, <1>7, <1>10, <1>11, <2>1, Staying
<1> QED BY <1>10, <1>12, Conversing

LEMMA ChangeStep ==
    ASSUME ProtocolInv, NEW c \in Apps, NEW sw \in Switches,
           handleMessageInWaitOnChangeConfirmation(c, sw)
    PROVE  ProtocolInv'
<1>1. PICK n, failed, changed, refused, nothing, done, error, out :
          /\ n = Head(replies[c][sw]).n
          /\ failed = getSwitchesInState(apps[c], "Error")
          /\ changed = {"Configuration"} /\ refused = {"Error"} /\ nothing = {}
          /\ done = WithFlags(c, sw, changed, nothing)
          /\ error = WithFlags(c, sw, refused, nothing)
          /\ out = ToNone
    OBVIOUS
<1>2. /\ Flagged(c, sw, changed, nothing, done) /\ Marking("Configuration", changed, nothing)
      /\ Flagged(c, sw, refused, nothing, error) /\ Marking("Error", refused, nothing)
      /\ "Configuration" \in changed /\ "Error" \in refused
    BY <1>1, Names DEF Flagged, Marking
<1>3. Sending(out) /\ \A s \in Switches : out[s] = << >>
    BY <1>1, ToNoneFacts
<1>4. "ok" \in {"ok", "error"} /\ "error" \in {"ok", "error"}
    OBVIOUS
<1>5. PICK allDone, allError :
          /\ allDone = getSwitchesInState(done, "Error")
                         \cup getSwitchesInState(done, "WithChangedCandidateConfiguration")
          /\ allError = getSwitchesInState(error, "Error")
                          \cup getSwitchesInState(error, "WithChangedCandidateConfiguration")
    OBVIOUS
<1>6. \/ /\ Receive(c, sw, "WaitOnChangeConfirmation", "Change", "ok")
         /\ CASE failed # {} ->
                    Enter(c, done, IF allDone = Switches THEN "ErrorState"
                                   ELSE "WaitOnChangeConfirmation", out)
              [] failed = {} /\ n < Len(plan[c][sw]) ->
                    Enter(c, apps[c], "WaitOnChangeConfirmation", To(sw, "Change", n + 1))
              [] failed = {} /\ n >= Len(plan[c][sw]) ->
                    IF allDone = Switches THEN AllChanged(c, done)
                    ELSE Enter(c, done, "WaitOnChangeConfirmation", out)
      \/ /\ Receive(c, sw, "WaitOnChangeConfirmation", "Change", "error")
         /\ Enter(c, error, IF allError = Switches THEN "ErrorState"
                            ELSE "WaitOnChangeConfirmation", out)
    BY <1>1, <1>5, Zenon DEF handleMessageInWaitOnChangeConfirmation
<1>7. CASE /\ Receive(c, sw, "WaitOnChangeConfirmation", "Change", "error")
           /\ Enter(c, error, IF allError = Switches THEN "ErrorState"
                              ELSE "WaitOnChangeConfirmation", out)
  <2>1. PICK next : /\ next = "WaitOnChangeConfirmation" \/ (next = "ErrorState" /\ allError = Switches)
                    /\ Enter(c, error, next, out)
      BY <1>7
  <2> QED BY <1>2, <1>3, <1>4, <1>5, <1>7, <2>1, ChangeAnswered
<1>8. CASE /\ Receive(c, sw, "WaitOnChangeConfirmation", "Change", "ok")
           /\ ~ Receive(c, sw, "WaitOnChangeConfirmation", "Change", "error")
  <2>1. n \in Nat /\ Len(plan[c][sw]) \in Nat
    <3>1. /\ Shapes /\ \A s \in Switches : InChange(c, s) /\ ~ Silent(c, sw) /\ c \in Sessions
        BY <1>8, Waiting, ConversationFacts, InStateCases
    <3>2. Len(plan[c][sw]) \in Nat
      <4>1. plan[c] \in [Switches -> Seq(Changes) \ {<< >>}]
          BY <3>1 DEF Shapes
      <4>2. plan[c][sw] \in Seq(Changes)
          BY <4>1
      <4> QED BY <4>2
    <3>3. PICK k \in 1 .. Len(plan[c][sw]) : Talks(c, sw, "Change", k)
        BY <3>1 DEF InChange
    <3>4. "Change" \in Ids
        BY Names
    <3>5. k \in Nat
        BY <3>2
    <3>6. Head(replies[c][sw]).n = k
        BY <1>8, <3>1, <3>3, <3>4, <3>5, ReceiveFacts
    <3> QED BY <1>1, <3>2, <3>5, <3>6
  <2>2. \/ \E next : /\ next = "WaitOnChangeConfirmation" \/ (next = "ErrorState" /\ allDone = Switches)
                     /\ Enter(c, done, next, out)
        \/ /\ n < Len(plan[c][sw])
           /\ Enter(c, apps[c], "WaitOnChangeConfirmation", To(sw, "Change", n + 1))
        \/ failed = {} /\ allDone = Switches /\ AllChanged(c, done)
    <3>1. CASE failed # {}
      <4>1. Enter(c, done, IF allDone = Switches THEN "ErrorState"
                           ELSE "WaitOnChangeConfirmation", out)
          BY <1>6, <1>8, <3>1
      <4>2. PICK next : next = IF allDone = Switches THEN "ErrorState"
                               ELSE "WaitOnChangeConfirmation"
          OBVIOUS
      <4> QED BY <4>1, <4>2
    <3>2. CASE failed = {} /\ n < Len(plan[c][sw])
        BY <1>6, <1>8, <3>2
    <3>3. CASE failed = {} /\ ~ n < Len(plan[c][sw])
      <4>1. n >= Len(plan[c][sw])
          BY <2>1, <3>3
      <4>2. IF allDone = Switches THEN AllChanged(c, done)
            ELSE Enter(c, done, "WaitOnChangeConfirmation", out)
          BY <1>6, <1>8, <3>3, <4>1
      <4> QED BY <3>3, <4>2
    <3> QED BY <3>1, <3>2, <3>3
  <2>3. ASSUME NEW next, next = "WaitOnChangeConfirmation" \/ (next = "ErrorState" /\ allDone = Switches),
               Enter(c, done, next, out)
        PROVE  ProtocolInv'
      BY <1>2, <1>3, <1>4, <1>5, <1>8, <2>3, ChangeAnswered
  <2>4. ASSUME n < Len(plan[c][sw]),
               Enter(c, apps[c], "WaitOnChangeConfirmation", To(sw, "Change", n + 1))
        PROVE  ProtocolInv'
      BY <1>1, <1>8, <2>4, NextChangeStep
  <2>5. ASSUME failed = {}, allDone = Switches, AllChanged(c, done) PROVE ProtocolInv'
      BY <1>1, <1>2, <1>5, <1>8, <2>5, AllChangedStep
  <2> QED BY <2>2, <2>3, <2>4, <2>5
<1>9. \/ ~ Receive(c, sw, "WaitOnChangeConfirmation", "Change", "ok")
      \/ ~ Receive(c, sw, "WaitOnChangeConfirmation", "Change", "error")
    BY DEF Receive
<1> QED BY <1>6, <1>7, <1>8, <1>9

LEMMA TimestampStep ==
    ASSUME ProtocolInv, NEW c \in Apps, NEW sw \in Switches,
           handleMessageInWaitOnTimestampConfirmation(c, sw)
    PROVE  ProtocolInv'
<1>a. PICK status \in {"ok", "error"} :
          /\ Receive(c, sw, "WaitOnTimestampConfirmation", "Timestamp", status)
          /\ LET a == WithFlags(c, sw, {IF status = "ok" THEN "CommitTimeStamp" ELSE "Error"}, {})
                 accepted == getSwitchesInState(a, "WithTimestamp")
                 failed   == getSwitchesInState(a, "Error")
             IN CASE accepted = Switches /\ checkCommitrelease(a)
                       -> Enter(c, a, "WaitOnCommitExecution", ToAll("Commit approved"))
                  [] accepted \cup failed = Switches /\ ~ (accepted = Switches /\ checkCommitrelease(a))
                       -> Enter(c, a, "ErrorState", ToNone)
                  [] OTHER -> Enter(c, a, "WaitOnTimestampConfirmation", ToNone)
    BY DEF handleMessageInWaitOnTimestampConfirmation
<1>0. PICK flag, set, reset, a, accepted, failed :
          /\ flag = (IF status = "ok" THEN "CommitTimeStamp" ELSE "Error")
          /\ set = {flag} /\ reset = {} /\ a = WithFlags(c, sw, set, reset)
          /\ accepted = getSwitchesInState(a, "WithTimestamp")
          /\ failed = getSwitchesInState(a, "Error")
    OBVIOUS
<1>b. (CASE accepted = Switches /\ checkCommitrelease(a)
              -> Enter(c, a, "WaitOnCommitExecution", ToAll("Commit approved"))
         [] accepted \cup failed = Switches /\ ~ (accepted = Switches /\ checkCommitrelease(a))
              -> Enter(c, a, "ErrorState", ToNone)
         [] OTHER -> Enter(c, a, "WaitOnTimestampConfirmation", ToNone))
    BY <1>a, <1>0
<1>c. Receive(c, sw, "WaitOnTimestampConfirmation", "Timestamp", status)
    BY <1>a
<1>d. \/ accepted = Switches /\ Enter(c, a, "WaitOnCommitExecution", ToAll("Commit approved"))
      \/ accepted \cup failed = Switches /\ Enter(c, a, "ErrorState", ToNone)
      \/ Enter(c, a, "WaitOnTimestampConfirmation", ToNone)
    BY <1>b
<1>1. /\ apps[c].state = "WaitOnTimestampConfirmation" /\ \A s \in Switches : InTimestamp(c, s)
      /\ ~ Silent(c, sw) /\ Shapes
    BY <1>c, Waiting, ConversationFacts, InStateCases
<1>2. /\ ~ Has(c, sw, "CommitTimeStamp") /\ ~ Has(c, sw, "Error")
      /\ Talks(c, sw, "Timestamp", 0)
    BY <1>1 DEF InTimestamp, AskedUnless, HasNone
<1>3. \A s \in Switches : Has(c, s, "CommitTimeStamp") \/ Has(c, s, "Error") => Silent(c, s)
    BY <1>1 DEF InTimestamp, AskedUnless, HasNone
<1>4. flag = "CommitTimeStamp" \/ flag = "Error"
    BY <1>0
<1>5. Flagged(c, sw, set, reset, a) /\ a = WithFlags(c, sw, set, reset)
    BY <1>0, <1>4, Names DEF Flagged
<1>6. ASSUME NEW next \in States, NEW out, Sending(out), Enter(c, a, next, out),
             \A s \in Switches :
                \/ out[s] = << >>
                \/ (s = sw \/ Silent(c, s)) /\ \E id \in Ids, n \in Nat : out[s] = << Message(id, n) >>
      PROVE  /\ Moves(c, a, next)
             /\ \A s \in Switches :
                   /\ HasAll(c, s, Staged)' /\ ~ Has(c, s, "Commited")'
                   /\ ~ (Has(c, s, "CommitTimeStamp")' /\ Has(c, s, "Error")')
                   /\ (Has(c, s, "CommitTimeStamp")' \/ Has(c, s, "Error")') => Sends(c, s, out)
                   /\ s # sw /\ out[s] = << >> => Untouched(c, s)
             /\ Has(c, sw, "CommitTimeStamp")' \/ Has(c, sw, "Error")'
             /\ Conversation(c)' => ProtocolInv'
  <2>1. /\ Moves(c, a, next) /\ Answered(c, sw, set, reset, out)
        /\ Replied(c, sw, "Timestamp", 0, status)
    <3>1. "Timestamp" \in Ids /\ 0 \in Nat
        BY Names
    <3>2. Shapes /\ Talks(c, sw, "Timestamp", 0) /\ Sending(out) /\ Enter(c, a, next, out)
        BY <1>1, <1>2, <1>6
    <3> QED BY <1>c, <1>5, <3>1, <3>2, Answer
  <2>2. \A s \in Switches \ {sw} : \A f : Has(c, s, f)' <=> Has(c, s, f)
      BY <2>1 DEF Answered, Marks
  <2>3. \A f : Has(c, sw, f)' <=> Has(c, sw, f) \/ f = flag
      BY <1>0, <2>1 DEF Answered, Marks
  <2>4. \A s \in Switches :
            /\ HasAll(c, s, Staged)' /\ ~ Has(c, s, "Commited")'
            /\ ~ (Has(c, s, "CommitTimeStamp")' /\ Has(c, s, "Error")')
      BY <1>1, <1>2, <1>4, <2>2, <2>3 DEF InTimestamp, HasAll
  <2>5. Has(c, sw, "CommitTimeStamp")' \/ Has(c, sw, "Error")'
      BY <1>4, <2>3
  <2>6. Sends(c, sw, out) /\ \A s \in Switches \ {sw} :
                                 /\ Silent(c, s) => Sends(c, s, out)
                                 /\ out[s] = << >> => Untouched(c, s)
      BY <2>1 DEF Answered
  <2>7. ASSUME Conversation(c)' PROVE ProtocolInv'
    <3>1. \A id, n, st : ~ Replied(c, sw, id, n, st)'
        BY <1>6, <2>6, NothingReplied
    <3>2. \A id, n, st : Replied(c, sw, id, n, st) => id = "Timestamp"
        BY <2>1, OnlyReply
    <3>3. Owns(c, sw) /\ Owns(c, sw)'
        BY <1>1, <2>4, <3>1, <3>2 DEF Owns, InTimestamp, HasAll, Staged
    <3>4. OwnsCandidate(c, sw) /\ OwnsCandidate(c, sw)'
        BY <1>1, <2>4, <3>1, <3>2 DEF OwnsCandidate, InTimestamp, HasAll, Staged
    <3> QED BY <1>1, <1>6, <2>1, <2>7, <3>3, <3>4, AnsweredInv
  <2> QED BY <1>3, <2>1, <2>2, <2>4, <2>5, <2>6, <2>7
<1>7. ASSUME NEW s \in Switches, s # sw, s \in accepted \cup failed PROVE Silent(c, s)
  <2>1. a.flags[s] = apps[c].flags[s]
      BY <1>1, <1>5, <1>7, ConversationFacts, WithFlagsFacts
  <2>2. isInState(apps[c].flags[s], "WithTimestamp") \/ isInState(apps[c].flags[s], "Error")
      BY <1>0, <1>7, <2>1 DEF getSwitchesInState
  <2>3. apps[c].flags[s] \in SUBSET Flags
      BY ConversationFacts
  <2>4. Has(c, s, "CommitTimeStamp") \/ Has(c, s, "Error")
      BY <2>2, <2>3, InStateFacts DEF Has
  <2> QED BY <1>3, <2>4
<1>8. CASE accepted = Switches /\ Enter(c, a, "WaitOnCommitExecution", ToAll("Commit approved"))
  <2>1. PICK out : out = ToAll("Commit approved")
      OBVIOUS
  <2>2. "Commit approved" \in Ids /\ 0 \in Nat /\ "WaitOnCommitExecution" \in States
      BY Names
  <2>3. Sending(out) /\ \A s \in Switches : out[s] = << Message("Commit approved", 0) >>
      BY <2>1, <2>2, ToAllFacts
  <2>4. Enter(c, a, "WaitOnCommitExecution", out)
      BY <1>8, <2>1
  <2>5. \A s \in Switches :
            (s = sw \/ Silent(c, s)) /\ \E id \in Ids, n \in Nat : out[s] = << Message(id, n) >>
      BY <1>7, <1>8, <2>2, <2>3
  <2>6. /\ Moves(c, a, "WaitOnCommitExecution")
        /\ \A s \in Switches :
              /\ HasAll(c, s, Staged)' /\ ~ Has(c, s, "Commited")'
              /\ (Has(c, s, "CommitTimeStamp")' \/ Has(c, s, "Error")') => Sends(c, s, out)
        /\ Conversation(c)' => ProtocolInv'
      BY <1>6, <2>2, <2>3, <2>4, <2>5
  <2>7. ASSUME NEW s \in Switches PROVE InState(c, s, "WaitOnCommitExecution")'
    <3>1. Has(c, s, "CommitTimeStamp")' /\ ~ Has(c, s, "Error")'
        BY <1>0, <1>8, <2>6, NextState DEF getSwitchesInState
    <3>2. Talks(c, s, "Commit approved", 0)'
        BY <2>2, <2>3, <2>6, <3>1 DEF Talks, Sends
    <3>3. InCommit(c, s)'
        BY <2>6, <3>1, <3>2 DEF InCommit
    <3> QED BY <3>3 DEF InState
  <2> QED BY <2>6, <2>7, Conversing
<1>9. CASE accepted \cup failed = Switches /\ Enter(c, a, "ErrorState", ToNone)
  <2>1. PICK out : out = ToNone
      OBVIOUS
  <2>2. Sending(out) /\ \A s \in Switches : out[s] = << >>
      BY <2>1, ToNoneFacts
  <2>3. "ErrorState" \in States
      BY Names
  <2>4. Enter(c, a, "ErrorState", out)
      BY <1>9, <2>1
  <2>5. /\ Moves(c, a, "ErrorState")
        /\ \A s \in Switches :
              /\ HasAll(c, s, Staged)' /\ ~ Has(c, s, "Commited")'
              /\ (Has(c, s, "CommitTimeStamp")' \/ Has(c, s, "Error")') => Sends(c, s, out)
        /\ Conversation(c)' => ProtocolInv'
      BY <1>6, <2>2, <2>3, <2>4
  <2>6. ASSUME NEW s \in Switches PROVE InState(c, s, "ErrorState")'
    <3>1. isInState(a.flags[s], "WithTimestamp") \/ isInState(a.flags[s], "Error")
        BY <1>0, <1>9 DEF getSwitchesInState
    <3>2. Has(c, s, "CommitTimeStamp")' \/ Has(c, s, "Error")'
        BY <2>5, <3>1, NextState
    <3>3. Silent(c, s)'
        BY <2>2, <2>5, <3>2 DEF Sends
    <3>4. InError(c, s)'
        BY <2>5, <3>3 DEF InError, HasAll, Staged
    <3> QED BY <3>4 DEF InState
  <2> QED BY <2>5, <2>6, Conversing
<1>10. CASE Enter(c, a, "WaitOnTimestampConfirmation", ToNone)
  <2>1. PICK out : out = ToNone
      OBVIOUS
  <2>2. Sending(out) /\ \A s \in Switches : out[s] = << >>
      BY <2>1, ToNoneFacts
  <2>3. "WaitOnTimestampConfirmation" \in States
      BY Names
  <2>4. Enter(c, a, "WaitOnTimestampConfirmation", out)
      BY <1>10, <2>1
  <2>5. /\ Moves(c, a, "WaitOnTimestampConfirmation")
        /\ \A s \in Switches :
              /\ HasAll(c, s, Staged)' /\ ~ Has(c, s, "Commited")'
              /\ ~ (Has(c, s, "CommitTimeStamp")' /\ Has(c, s, "Error")')
              /\ (Has(c, s, "CommitTimeStamp")' \/ Has(c, s, "Error")') => Sends(c, s, out)
              /\ s # sw => Untouched(c, s)
        /\ Has(c, sw, "CommitTimeStamp")' \/ Has(c, sw, "Error")'
        /\ Conversation(c)' => ProtocolInv'
      BY <1>6, <2>2, <2>3, <2>4
  <2>6. InState(c, sw, "WaitOnTimestampConfirmation")'
    <3>1. Silent(c, sw)'
        BY <2>2, <2>5 DEF Sends
    <3>2. InTimestamp(c, sw)'
        BY <2>5, <3>1 DEF InTimestamp, AskedUnless, HasNone
    <3> QED BY <3>2 DEF InState
  <2>7. \A s \in Switches : InState(c, s, "WaitOnTimestampConfirmation")'
      BY <1>1, <2>3, <2>5, <2>6, Staying
  <2> QED BY <2>5, <2>7, Conversing
<1> QED BY <1>d, <1>8, <1>9, <1>10

LEMMA CommitStep ==
    ASSUME ProtocolInv, NEW c \in Apps, NEW sw \in Switches,
           handleMessageInWaitOnCommitExecution(c, sw)
    PROVE  ProtocolInv'
<1>0. PICK set, reset, a : /\ set = {"Commited"} /\ reset = {} /\ a = WithFlags(c, sw, set, reset)
    OBVIOUS
<1>a. /\ Receive(c, sw, "WaitOnCommitExecution", "Commit approved", "ok")
      /\ IF getSwitchesInState(a, "Commited") = Switches
         THEN Enter(c, a, "WaitOnDeleteOldConfiguration", ToAll("Delete Old Config"))
         ELSE Enter(c, a, "WaitOnCommitExecution", ToNone)
    BY <1>0 DEF handleMessageInWaitOnCommitExecution
<1>1. /\ apps[c].state = "WaitOnCommitExecution" /\ \A s \in Switches : InCommit(c, s)
      /\ ~ Silent(c, sw) /\ Shapes
    BY <1>a, Waiting, ConversationFacts, InStateCases
<1>2. Talks(c, sw, "Commit approved", 0)
    BY <1>1 DEF InCommit
<1>3. \A s \in Switches : Has(c, s, "Commited") => Silent(c, s)
    BY <1>1 DEF InCommit
<1>5. Flagged(c, sw, set, reset, a)
    BY <1>0, Names DEF Flagged
<1>6. ASSUME NEW next \in States, NEW out, Sending(out), Enter(c, a, next, out),
             \/ next = "WaitOnCommitExecution" /\ \A s \in Switches : out[s] = << >>
             \/ \A s \in Switches :
                   /\ s = sw \/ Has(c, s, "Commited")
                   /\ \E id \in Ids, n \in Nat : out[s] = << Message(id, n) >>
      PROVE  /\ Moves(c, a, next)
             /\ \A s \in Switches :
                   /\ HasAll(c, s, Staged)' /\ ~ Has(c, s, "Error")'
                   /\ c \in TimedApps => Has(c, s, "CommitTimeStamp")'
                   /\ Has(c, s, "Commited")' => Sends(c, s, out)
                   /\ s # sw /\ out[s] = << >> => Untouched(c, s)
             /\ Has(c, sw, "Commited")'
             /\ Conversation(c)' => ProtocolInv'
  <2>1. /\ Moves(c, a, next) /\ Answered(c, sw, set, reset, out)
        /\ Replied(c, sw, "Commit approved", 0, "ok")
    <3>1. "Commit approved" \in Ids /\ 0 \in Nat
        BY Names
    <3>2. Shapes /\ Talks(c, sw, "Commit approved", 0) /\ Sending(out) /\ Enter(c, a, next, out)
        BY <1>1, <1>2, <1>6
    <3> QED BY <1>a, <1>5, <3>1, <3>2, Answer
  <2>2. \A s \in Switches \ {sw} : \A f : Has(c, s, f)' <=> Has(c, s, f)
      BY <2>1 DEF Answered, Marks
  <2>3. \A f : Has(c, sw, f)' <=> Has(c, sw, f) \/ f = "Commited"
      BY <1>0, <2>1 DEF Answered, Marks
  <2>4. \A s \in Switches :
            /\ HasAll(c, s, Staged)' /\ ~ Has(c, s, "Error")'
            /\ c \in TimedApps => Has(c, s, "CommitTimeStamp")'
      BY <1>1, <2>2, <2>3 DEF InCommit, HasAll
  <2>5. Sends(c, sw, out) /\ \A s \in Switches \ {sw} :
                                 /\ Silent(c, s) => Sends(c, s, out)
                                 /\ out[s] = << >> => Untouched(c, s)
      BY <2>1 DEF Answered
  <2>6. ASSUME Conversation(c)' PROVE ProtocolInv'
    <3>0. /\ \A s \in Switches :
                \/ out[s] = << >>
                \/ (s = sw \/ Silent(c, s)) /\ \E id \in Ids, n \in Nat : out[s] = << Message(id, n) >>
          /\ \/ next = "WaitOnCommitExecution" /\ \A s \in Switches : out[s] = << >>
             \/ \A s \in Switches \ {sw} : Has(c, s, "Commited")
        BY <1>3, <1>6
    <3>1. \A id, n, st : ~ Replied(c, sw, id, n, st)'
        BY <2>5, <3>0, NothingReplied
    <3>2. \A id, n, st : Replied(c, sw, id, n, st) => id = "Commit approved"
        BY <2>1, OnlyReply
    <3>3. Owns(c, sw) /\ Owns(c, sw)'
        BY <1>1, <2>4, <3>1, <3>2 DEF Owns, InCommit, HasAll, Staged
    <3>4. OwnsCandidate(c, sw) /\ OwnsCandidate(c, sw)'
        BY <1>1, <2>4, <3>1, <3>2 DEF OwnsCandidate, InCommit, HasAll, Staged
    <3>5. Sending(out)
        BY <1>6
    <3> QED BY <1>1, <2>1, <2>6, <3>0, <3>3, <3>4, <3>5, AnsweredInv
  <2> QED BY <1>3, <2>1, <2>2, <2>3, <2>4, <2>5, <2>6
<1>7. CASE getSwitchesInState(a, "Commited") = Switches
  <2>0. PICK out : out = ToAll("Delete Old Config")
      OBVIOUS
  <2>1. "Delete Old Config" \in Ids /\ 0 \in Nat /\ "WaitOnDeleteOldConfiguration" \in States
      BY Names
  <2>2. Sending(out) /\ \A s \in Switches : out[s] = << Message("Delete Old Config", 0) >>
      BY <2>0, <2>1, ToAllFacts
  <2>3. Enter(c, a, "WaitOnDeleteOldConfiguration", out)
      BY <1>a, <1>7, <2>0
  <2>4. \A s \in Switches : isInState(a.flags[s], "Commited")
      BY <1>7 DEF getSwitchesInState
  <2>5. \A s \in Switches : s = sw \/ Has(c, s, "Commited")
    <3>1. ASSUME NEW s \in Switches, s # sw PROVE Has(c, s, "Commited")
      <4>1. a.flags[s] = apps[c].flags[s] /\ apps[c].flags[s] \in SUBSET Flags
          BY <1>1, <1>5, <3>1, ConversationFacts, WithFlagsFacts
      <4> QED BY <2>4, <4>1, InStateFacts DEF Has
    <3> QED BY <3>1
  <2>6. \A s \in Switches : /\ s = sw \/ Has(c, s, "Commited")
                            /\ \E id \in Ids, n \in Nat : out[s] = << Message(id, n) >>
      BY <2>1, <2>2, <2>5
  <2>7. /\ Moves(c, a, "WaitOnDeleteOldConfiguration")
        /\ \A s \in Switches :
              /\ HasAll(c, s, Staged)' /\ ~ Has(c, s, "Error")'
              /\ Has(c, s, "Commited")' => Sends(c, s, out)
        /\ Conversation(c)' => ProtocolInv'
      BY <1>6, <2>1, <2>2, <2>3, <2>6
  <2>8. ASSUME NEW s \in Switches PROVE InState(c, s, "WaitOnDeleteOldConfiguration")'
    <3>1. Has(c, s, "Commited")'
        BY <2>4, <2>7, NextState
    <3>2. Talks(c, s, "Delete Old Config", 0)'
        BY <2>1, <2>2, <2>7, <3>1 DEF Talks, Sends
    <3>3. InDeleteOld(c, s)'
        BY <2>7, <3>1, <3>2 DEF InDeleteOld, HasAll, Staged
    <3> QED BY <3>3 DEF InState
  <2> QED BY <2>7, <2>8, Conversing
<1>8. CASE getSwitchesInState(a, "Commited") # Switches
  <2>0. PICK out : out = ToNone
      OBVIOUS
  <2>1. Sending(out) /\ \A s \in Switches : out[s] = << >>
      BY <2>0, ToNoneFacts
  <2>2. "WaitOnCommitExecution" \in States
      BY Names
  <2>3. Enter(c, a, "WaitOnCommitExecution", out)
      BY <1>a, <1>8, <2>0
  <2>4. /\ Moves(c, a, "WaitOnCommitExecution")
        /\ \A s \in Switches :
              /\ HasAll(c, s, Staged)' /\ ~ Has(c, s, "Error")'
              /\ c \in TimedApps => Has(c, s, "CommitTimeStamp")'
              /\ Has(c, s, "Commited")' => Sends(c, s, out)
              /\ s # sw => Untouched(c, s)
        /\ Has(c, sw, "Commited")'
        /\ Conversation(c)' => ProtocolInv'
      BY <1>6, <2>1, <2>2, <2>3
  <2>5. InState(c, sw, "WaitOnCommitExecution")'
    <3>1. Silent(c, sw)'
        BY <2>1, <2>4 DEF Sends
    <3>2. InCommit(c, sw)'
        BY <2>4, <3>1 DEF InCommit
    <3> QED BY <3>2 DEF InState
  <2>6. \A s \in Switches : InState(c, s, "WaitOnCommitExecution")'
      BY <1>1, <2>2, <2>4, <2>5, Staying
  <2> QED BY <2>4, <2>6, Conversing
<1> QED BY <1>a, <1>7, <1>8

LEMMA DeleteOldStep ==
    ASSUME ProtocolInv, NEW c \in Apps, NEW sw \in Switches,
           handleMessageInWaitOnDeleteOldConfiguration(c, sw)
    PROVE  ProtocolInv'
<1>0. PICK set, reset, a : /\ set = {} /\ reset = {"Candidate", "LockedCandidate"}
                           /\ a = WithFlags(c, sw, set, reset)
    OBVIOUS
<1>a. /\ Receive(c, sw, "WaitOnDeleteOldConfiguration", "Delete Old Config", "ok")
      /\ IF getSwitchesInState(a, "WithoutOldConfig") = Switches
         THEN Enter(c, a, "WaitOnUnlock", ToAll("Unlock"))
         ELSE Enter(c, a, "WaitOnDeleteOldConfiguration", ToNone)
    BY <1>0 DEF handleMessageInWaitOnDeleteOldConfiguration
<1>1. /\ apps[c].state = "WaitOnDeleteOldConfiguration" /\ \A s \in Switches : InDeleteOld(c, s)
      /\ ~ Silent(c, sw) /\ Shapes
    BY <1>a, Waiting, ConversationFacts, InStateCases
<1>2. Talks(c, sw, "Delete Old Config", 0)
    BY <1>1 DEF InDeleteOld
<1>3. \A s \in Switches : ~ Has(c, s, "Candidate") => Silent(c, s)
    BY <1>1 DEF InDeleteOld
<1>5. Flagged(c, sw, set, reset, a)
    BY <1>0, Names DEF Flagged
<1>6. ASSUME NEW next \in States, NEW out, Sending(out), Enter(c, a, next, out),
             \A s \in Switches :
                \/ out[s] = << >>
                \/ (s = sw \/ Silent(c, s)) /\ \E id \in Ids, n \in Nat : out[s] = << Message(id, n) >>
      PROVE  /\ Moves(c, a, next)
             /\ \A s \in Switches :
                   /\ HasAll(c, s, {"LockedRunning", "Commited"})' /\ ~ Has(c, s, "Error")'
                   /\ Has(c, s, "LockedCandidate")' <=> Has(c, s, "Candidate")'
                   /\ ~ Has(c, s, "Candidate")' => Sends(c, s, out)
                   /\ s # sw /\ out[s] = << >> => Untouched(c, s)
             /\ ~ Has(c, sw, "Candidate")'
             /\ Conversation(c)' => ProtocolInv'
  <2>1. /\ Moves(c, a, next) /\ Answered(c, sw, set, reset, out)
        /\ Replied(c, sw, "Delete Old Config", 0, "ok")
    <3>1. "Delete Old Config" \in Ids /\ 0 \in Nat
        BY Names
    <3>2. Shapes /\ Talks(c, sw, "Delete Old Config", 0) /\ Sending(out) /\ Enter(c, a, next, out)
        BY <1>1, <1>2, <1>6
    <3> QED BY <1>a, <1>5, <3>1, <3>2, Answer
  <2>2. \A s \in Switches \ {sw} : \A f : Has(c, s, f)' <=> Has(c, s, f)
      BY <2>1 DEF Answered, Marks
  <2>3. \A f : Has(c, sw, f)' <=> Has(c, sw, f) /\ f \notin {"Candidate", "LockedCandidate"}
      BY <1>0, <2>1 DEF Answered, Marks
  <2>4. \A s \in Switches :
            /\ HasAll(c, s, {"LockedRunning", "Commited"})' /\ ~ Has(c, s, "Error")'
            /\ Has(c, s, "LockedCandidate")' <=> Has(c, s, "Candidate")'
      BY <1>1, <2>2, <2>3 DEF InDeleteOld, HasAll
  <2>5. Sends(c, sw, out) /\ \A s \in Switches \ {sw} :
                                 /\ Silent(c, s) => Sends(c, s, out)
                                 /\ out[s] = << >> => Untouched(c, s)
      BY <2>1 DEF Answered
  <2>6. ASSUME Conversation(c)' PROVE ProtocolInv'
    <3>1. \A id, n, st : ~ Replied(c, sw, id, n, st)'
        BY <1>6, <2>5, NothingReplied
    <3>2. \A id, n, st : Replied(c, sw, id, n, st) => id = "Delete Old Config"
        BY <2>1, OnlyReply
    <3>3. Owns(c, sw) /\ Owns(c, sw)'
        BY <1>1, <2>4, <3>1, <3>2 DEF Owns, InDeleteOld, HasAll
    <3>4. ~ OwnsCandidate(c, sw) /\ ~ OwnsCandidate(c, sw)'
        BY <2>1, <2>3, <3>1, <3>2 DEF OwnsCandidate
    <3>5. Sending(out)
        BY <1>6
    <3> QED BY <1>1, <1>6, <2>1, <2>6, <3>3, <3>4, <3>5, AnsweredInv
  <2> QED BY <1>3, <2>1, <2>2, <2>3, <2>4, <2>5, <2>6
<1>7. CASE getSwitchesInState(a, "WithoutOldConfig") = Switches
  <2>0. PICK out : out = ToAll("Unlock")
      OBVIOUS
  <2>1. "Unlock" \in Ids /\ 0 \in Nat /\ "WaitOnUnlock" \in States
      BY Names
  <2>2. Sending(out) /\ \A s \in Switches : out[s] = << Message("Unlock", 0) >>
      BY <2>0, <2>1, ToAllFacts
  <2>3. Enter(c, a, "WaitOnUnlock", out)
      BY <1>a, <1>7, <2>0
  <2>4. \A s \in Switches : isInState(a.flags[s], "WithoutOldConfig")
      BY <1>7 DEF getSwitchesInState
  <2>5. \A s \in Switches : s = sw \/ Silent(c, s)
    <3>1. ASSUME NEW s \in Switches, s # sw PROVE Silent(c, s)
      <4>1. a.flags[s] = apps[c].flags[s] /\ apps[c].flags[s] \in SUBSET Flags
          BY <1>1, <1>5, <3>1, ConversationFacts, WithFlagsFacts
      <4>2. ~ Has(c, s, "Candidate")
          BY <2>4, <4>1, InStateFacts DEF Has
      <4> QED BY <1>3, <4>2
    <3> QED BY <3>1
  <2>6. \A s \in Switches : /\ s = sw \/ Silent(c, s)
                            /\ \E id \in Ids, n \in Nat : out[s] = << Message(id, n) >>
      BY <2>1, <2>2, <2>5
  <2>7. /\ Moves(c, a, "WaitOnUnlock")
        /\ \A s \in Switches :
              /\ HasAll(c, s, {"LockedRunning", "Commited"})'
              /\ Has(c, s, "LockedCandidate")' <=> Has(c, s, "Candidate")'
              /\ ~ Has(c, s, "Candidate")' => Sends(c, s, out)
        /\ Conversation(c)' => ProtocolInv'
      BY <1>6, <2>1, <2>2, <2>3, <2>6
  <2>8. ASSUME NEW s \in Switches PROVE InState(c, s, "WaitOnUnlock")'
    <3>1. ~ Has(c, s, "Candidate")'
        BY <2>4, <2>7, NextState
    <3>2. Talks(c, s, "Unlock", 0)'
        BY <2>1, <2>2, <2>7, <3>1 DEF Talks, Sends
    <3>3. InUnlock(c, s)'
        BY <2>7, <3>1, <3>2 DEF InUnlock, HasNone
    <3> QED BY <3>3 DEF InState
  <2>9. \A s \in Switches : Has(c, s, "Commited")'
      BY <2>7 DEF HasAll
  <2> QED BY <2>7, <2>8, <2>9, Conversing
<1>8. CASE getSwitchesInState(a, "WithoutOldConfig") # Switches
  <2>0. PICK out : out = ToNone
      OBVIOUS
  <2>1. Sending(out) /\ \A s \in Switches : out[s] = << >>
      BY <2>0, ToNoneFacts
  <2>2. "WaitOnDeleteOldConfiguration" \in States
      BY Names
  <2>3. Enter(c, a, "WaitOnDeleteOldConfiguration", out)
      BY <1>a, <1>8, <2>0
  <2>4. /\ Moves(c, a, "WaitOnDeleteOldConfiguration")
        /\ \A s \in Switches :
              /\ HasAll(c, s, {"LockedRunning", "Commited"})' /\ ~ Has(c, s, "Error")'
              /\ Has(c, s, "LockedCandidate")' <=> Has(c, s, "Candidate")'
              /\ ~ Has(c, s, "Candidate")' => Sends(c, s, out)
              /\ s # sw => Untouched(c, s)
        /\ ~ Has(c, sw, "Candidate")'
        /\ Conversation(c)' => ProtocolInv'
      BY <1>6, <2>1, <2>2, <2>3
  <2>5. InState(c, sw, "WaitOnDeleteOldConfiguration")'
    <3>1. Silent(c, sw)'
        BY <2>1, <2>4 DEF Sends
    <3>2. InDeleteOld(c, sw)'
        BY <2>4, <3>1 DEF InDeleteOld
    <3> QED BY <3>2 DEF InState
  <2>6. \A s \in Switches : InState(c, s, "WaitOnDeleteOldConfiguration")'
      BY <1>1, <2>2, <2>4, <2>5, Staying
  <2> QED BY <2>4, <2>6, Conversing
<1> QED BY <1>a, <1>7, <1>8

LEMMA DeleteStep ==
    ASSUME ProtocolInv, NEW c \in Apps, NEW sw \in Switches,
           handleMessageInWaitOnDeleteCandidate(c, sw)
    PROVE  ProtocolInv'
<1>0. PICK set, reset, a : /\ set = {} /\ reset = {"Candidate", "LockedCandidate"}
                           /\ a = WithFlags(c, sw, set, reset)
    OBVIOUS
<1>a. /\ Receive(c, sw, "WaitOnDeleteCandidate", "Delete Candidate Config", "ok")
      /\ IF getSwitchesInState(a, "WithoutCandidate") = Switches
         THEN Enter(c, a, "WaitOnUnlock", ToAll("Unlock"))
         ELSE Enter(c, a, "WaitOnDeleteCandidate", ToNone)
    BY <1>0 DEF handleMessageInWaitOnDeleteCandidate
<1>1. /\ apps[c].state = "WaitOnDeleteCandidate" /\ \A s \in Switches : InDelete(c, s)
      /\ ~ Silent(c, sw) /\ Shapes
    BY <1>a, Waiting, ConversationFacts, InStateCases
<1>2. Talks(c, sw, "Delete Candidate Config", 0)
    BY <1>1 DEF InDelete
<1>3. \A s \in Switches : ~ Has(c, s, "Candidate") => Silent(c, s)
    BY <1>1 DEF InDelete
<1>5. Flagged(c, sw, set, reset, a)
    BY <1>0, Names DEF Flagged
<1>6. ASSUME NEW next \in States, NEW out, Sending(out), Enter(c, a, next, out),
             \A s \in Switches :
                \/ out[s] = << >>
                \/ (s = sw \/ Silent(c, s)) /\ \E id \in Ids, n \in Nat : out[s] = << Message(id, n) >>
      PROVE  /\ Moves(c, a, next)
             /\ \A s \in Switches :
                   /\ Has(c, s, "LockedRunning")' /\ ~ Has(c, s, "Commited")'
                   /\ Has(c, s, "LockedCandidate")' => Has(c, s, "Candidate")'
                   /\ ~ Has(c, s, "Candidate")' => Sends(c, s, out)
                   /\ s # sw /\ out[s] = << >> => Untouched(c, s)
             /\ ~ Has(c, sw, "Candidate")'
             /\ Conversation(c)' => ProtocolInv'
  <2>1. /\ Moves(c, a, next) /\ Answered(c, sw, set, reset, out)
        /\ Replied(c, sw, "Delete Candidate Config", 0, "ok")
    <3>1. "Delete Candidate Config" \in Ids /\ 0 \in Nat
        BY Names
    <3>2. /\ Shapes /\ Talks(c, sw, "Delete Candidate Config", 0)
          /\ Sending(out) /\ Enter(c, a, next, out)
        BY <1>1, <1>2, <1>6
    <3> QED BY <1>a, <1>5, <3>1, <3>2, Answer
  <2>2. \A s \in Switches \ {sw} : \A f : Has(c, s, f)' <=> Has(c, s, f)
      BY <2>1 DEF Answered, Marks
  <2>3. \A f : Has(c, sw, f)' <=> Has(c, sw, f) /\ f \notin {"Candidate", "LockedCandidate"}
      BY <1>0, <2>1 DEF Answered, Marks
  <2>4. \A s \in Switches :
            /\ Has(c, s, "LockedRunning")' /\ ~ Has(c, s, "Commited")'
            /\ Has(c, s, "LockedCandidate")' => Has(c, s, "Candidate")'
      BY <1>1, <2>2, <2>3 DEF InDelete
  <2>5. Sends(c, sw, out) /\ \A s \in Switches \ {sw} :
                                 /\ Silent(c, s) => Sends(c, s, out)
                                 /\ out[s] = << >> => Untouched(c, s)
      BY <2>1 DEF Answered
  <2>6. ASSUME Conversation(c)' PROVE ProtocolInv'
    <3>1. \A id, n, st : ~ Replied(c, sw, id, n, st)'
        BY <1>6, <2>5, NothingReplied
    <3>2. \A id, n, st : Replied(c, sw, id, n, st) => id = "Delete Candidate Config"
        BY <2>1, OnlyReply
    <3>3. Owns(c, sw) /\ Owns(c, sw)'
        BY <1>1, <2>4, <3>1, <3>2 DEF Owns, InDelete
    <3>4. ~ OwnsCandidate(c, sw) /\ ~ OwnsCandidate(c, sw)'
        BY <2>1, <2>3, <3>1, <3>2 DEF OwnsCandidate
    <3>5. Sending(out)
        BY <1>6
    <3> QED BY <1>1, <1>6, <2>1, <2>6, <3>3, <3>4, <3>5, AnsweredInv
  <2> QED BY <1>3, <2>1, <2>2, <2>3, <2>4, <2>5, <2>6
<1>7. CASE getSwitchesInState(a, "WithoutCandidate") = Switches
  <2>0. PICK out : out = ToAll("Unlock")
      OBVIOUS
  <2>1. "Unlock" \in Ids /\ 0 \in Nat /\ "WaitOnUnlock" \in States
      BY Names
  <2>2. Sending(out) /\ \A s \in Switches : out[s] = << Message("Unlock", 0) >>
      BY <2>0, <2>1, ToAllFacts
  <2>3. Enter(c, a, "WaitOnUnlock", out)
      BY <1>a, <1>7, <2>0
  <2>4. \A s \in Switches : isInState(a.flags[s], "WithoutCandidate")
      BY <1>7 DEF getSwitchesInState
  <2>5. \A s \in Switches : s = sw \/ Silent(c, s)
    <3>1. ASSUME NEW s \in Switches, s # sw PROVE Silent(c, s)
      <4>1. a.flags[s] = apps[c].flags[s] /\ apps[c].flags[s] \in SUBSET Flags
          BY <1>1, <1>5, <3>1, ConversationFacts, WithFlagsFacts
      <4>2. ~ Has(c, s, "Candidate")
          BY <2>4, <4>1, InStateFacts DEF Has
      <4> QED BY <1>3, <4>2
    <3> QED BY <3>1
  <2>6. \A s \in Switches : /\ s = sw \/ Silent(c, s)
                            /\ \E id \in Ids, n \in Nat : out[s] = << Message(id, n) >>
      BY <2>1, <2>2, <2>5
  <2>7. /\ Moves(c, a, "WaitOnUnlock")
        /\ \A s \in Switches :
              /\ Has(c, s, "LockedRunning")' /\ ~ Has(c, s, "Commited")'
              /\ Has(c, s, "LockedCandidate")' => Has(c, s, "Candidate")'
              /\ ~ Has(c, s, "Candidate")' => Sends(c, s, out)
        /\ Conversation(c)' => ProtocolInv'
      BY <1>6, <2>1, <2>2, <2>3, <2>6
  <2>8. ASSUME NEW s \in Switches PROVE InState(c, s, "WaitOnUnlock")'
    <3>1. ~ Has(c, s, "Candidate")'
        BY <2>4, <2>7, NextState
    <3>2. Talks(c, s, "Unlock", 0)'
        BY <2>1, <2>2, <2>7, <3>1 DEF Talks, Sends
    <3>3. InUnlock(c, s)'
        BY <2>7, <3>1, <3>2 DEF InUnlock, HasNone
    <3> QED BY <3>3 DEF InState
  <2> QED BY <2>7, <2>8, Conversing
<1>8. CASE getSwitchesInState(a, "WithoutCandidate") # Switches
  <2>0. PICK out : out = ToNone
      OBVIOUS
  <2>1. Sending(out) /\ \A s \in Switches : out[s] = << >>
      BY <2>0, ToNoneFacts
  <2>2. "WaitOnDeleteCandidate" \in States
      BY Names
  <2>3. Enter(c, a, "WaitOnDeleteCandidate", out)
      BY <1>a, <1>8, <2>0
  <2>4. /\ Moves(c, a, "WaitOnDeleteCandidate")
        /\ \A s \in Switches :
              /\ Has(c, s, "LockedRunning")' /\ ~ Has(c, s, "Commited")'
              /\ Has(c, s, "LockedCandidate")' => Has(c, s, "Candidate")'
              /\ ~ Has(c, s, "Candidate")' => Sends(c, s, out)
              /\ s # sw => Untouched(c, s)
        /\ ~ Has(c, sw, "Candidate")'
        /\ Conversation(c)' => ProtocolInv'
      BY <1>6, <2>1, <2>2, <2>3
  <2>5. InState(c, sw, "WaitOnDeleteCandidate")'
    <3>1. Silent(c, sw)'
        BY <2>1, <2>4 DEF Sends
    <3>2. InDelete(c, sw)'
        BY <2>4, <3>1 DEF InDelete
    <3> QED BY <3>2 DEF InState
  <2>6. \A s \in Switches : InState(c, s, "WaitOnDeleteCandidate")'
      BY <1>1, <2>2, <2>4, <2>5, Staying
  <2> QED BY <2>4, <2>6, Conversing
<1> QED BY <1>a, <1>7, <1>8

LEMMA ErrorStep ==
    ASSUME ProtocolInv, NEW c \in Apps, handleMessageInErrorState(c)
    PROVE  ProtocolInv'
<1>0. PICK out, a : /\ out = [s \in Switches |-> IF "Candidate" \in apps[c].flags[s]
                                                 THEN << Message("Delete Candidate Config", 0) >>
                                                 ELSE << >>]
                    /\ a = [apps[c] EXCEPT !.result = FALSE]
    OBVIOUS
<1>1. /\ apps[c].state = "ErrorState"
      /\ Enter(c, a, "WaitOnDeleteCandidate", out) /\ replies' = replies
    BY <1>0 DEF handleMessageInErrorState
<1>2. \A s \in Switches : InError(c, s) /\ Silent(c, s)
    BY <1>1, ConversationFacts, InStateCases DEF InError
<1>3. /\ Sending(out)
      /\ \A s \in Switches :
            /\ Has(c, s, "Candidate") => out[s] = << Message("Delete Candidate Config", 0) >>
            /\ ~ Has(c, s, "Candidate") => out[s] = << >>
  <2>1. "Delete Candidate Config" \in Ids /\ 0 \in Nat
      BY Names
  <2>2. PICK m : m = << Message("Delete Candidate Config", 0) >> /\ m \in Seq(Requests)
      BY <2>1, MessageSeq
  <2>3. out = [s \in Switches |-> IF Has(c, s, "Candidate") THEN m ELSE << >>]
      BY <1>0, <2>2 DEF Has
  <2>4. << >> \in Seq(Requests)
      BY MessageSeq
  <2>5. Sending(out)
      BY <2>2, <2>3, <2>4 DEF Sending
  <2> QED BY <2>2, <2>3, <2>5
<1>4. /\ Moves(c, a, "WaitOnDeleteCandidate")
      /\ \A s \in Switches : /\ Marks(c, s, {}, {}) /\ Sends(c, s, out)
                             /\ out[s] = << >> => Untouched(c, s)
  <2>1. Started(c, a) /\ Shapes /\ "WaitOnDeleteCandidate" \in States
      BY <1>0, ConversationFacts, Names DEF Started
  <2> QED BY <1>1, <1>2, <1>3, <2>1, Starts
<1>5. "Delete Candidate Config" \in Ids /\ 0 \in Nat /\ "WaitOnDeleteCandidate" \in States
    BY Names
<1>6. ASSUME NEW s \in Switches PROVE InState(c, s, "WaitOnDeleteCandidate")'
  <2>1. \A flag : Has(c, s, flag)' <=> Has(c, s, flag)
      BY <1>4 DEF Marks
  <2>2. CASE Has(c, s, "Candidate")
    <3>1. Talks(c, s, "Delete Candidate Config", 0)'
        BY <1>3, <1>4, <1>5, <2>2 DEF Talks, Sends
    <3>2. InDelete(c, s)'
        BY <1>2, <2>1, <2>2, <3>1 DEF InDelete, InError
    <3> QED BY <3>2 DEF InState
  <2>3. CASE ~ Has(c, s, "Candidate")
    <3>1. Silent(c, s)'
        BY <1>3, <1>4, <2>3 DEF Sends
    <3>2. InDelete(c, s)'
        BY <1>2, <2>1, <2>3, <3>1 DEF InDelete, InError
    <3> QED BY <3>2 DEF InState
  <2> QED BY <2>2, <2>3
<1>7. Conversation(c)'
    BY <1>4, <1>6, Conversing
<1>8. \A s \in Switches :
          \/ out[s] = << >>
          \/ \E id \in Ids, n \in Nat : out[s] = << Message(id, n) >>
    BY <1>3, <1>5
<1> QED BY <1>1, <1>2, <1>3, <1>4, <1>5, <1>7, <1>8, StartsInv

LEMMA UnlockStep ==
    ASSUME ProtocolInv, NEW c \in Apps, NEW sw \in Switches,
           handleMessageInWaitOnUnlock(c, sw)
    PROVE  ProtocolInv'
<1>0. PICK set, reset, a, out : /\ set = {} /\ reset = {"LockedRunning"}
                                /\ a = WithFlags(c, sw, set, reset) /\ out = ToNone
    OBVIOUS
<1>a. /\ Receive(c, sw, "WaitOnUnlock", "Unlock", "ok")
      /\ IF getSwitchesInState(a, "Unlocked") = Switches
         THEN Enter(c, a, "EndOfTransaction", out)
         ELSE Enter(c, a, "WaitOnUnlock", out)
    BY <1>0 DEF handleMessageInWaitOnUnlock
<1>1. /\ apps[c].state = "WaitOnUnlock" /\ \A s \in Switches : InUnlock(c, s)
      /\ ~ Silent(c, sw) /\ Shapes
    BY <1>a, Waiting, ConversationFacts, InStateCases
<1>2. Talks(c, sw, "Unlock", 0)
    BY <1>1 DEF InUnlock
<1>3. \/ \A s \in Switches : Has(c, s, "Commited")
      \/ \A s \in Switches : ~ Has(c, s, "Commited")
    BY <1>1, ConversationFacts DEF Conversation
<1>4. Sending(out) /\ \A s \in Switches : out[s] = << >>
    BY <1>0, ToNoneFacts
<1>5. Flagged(c, sw, set, reset, a)
    BY <1>0, Names DEF Flagged
<1>6. ASSUME NEW next \in States, Enter(c, a, next, out)
      PROVE  /\ Moves(c, a, next)
             /\ \A s \in Switches : InUnlock(c, s)'
             /\ \/ \A s \in Switches : Has(c, s, "Commited")'
                \/ \A s \in Switches : ~ Has(c, s, "Commited")'
             /\ Conversation(c)' => ProtocolInv'
  <2>1. /\ Moves(c, a, next) /\ Answered(c, sw, set, reset, out)
        /\ Replied(c, sw, "Unlock", 0, "ok")
    <3>1. "Unlock" \in Ids /\ 0 \in Nat
        BY Names
    <3> QED BY <1>1, <1>2, <1>4, <1>5, <1>6, <1>a, <3>1, Answer
  <2>2. \A s \in Switches \ {sw} : \A f : Has(c, s, f)' <=> Has(c, s, f)
      BY <2>1 DEF Answered, Marks
  <2>3. \A f : Has(c, sw, f)' <=> Has(c, sw, f) /\ f # "LockedRunning"
      BY <1>0, <2>1 DEF Answered, Marks
  <2>4. \A s \in Switches : Has(c, s, "Commited")' <=> Has(c, s, "Commited")
      BY <2>2, <2>3
  <2>5. Sends(c, sw, out) /\ Silent(c, sw)' /\ \A s \in Switches \ {sw} : Untouched(c, s)
      BY <1>4, <2>1 DEF Answered, Sends
  <2>6. InUnlock(c, sw)'
      BY <1>1, <2>3, <2>5 DEF InUnlock, HasNone
  <2>7. ASSUME NEW s \in Switches \ {sw} PROVE InUnlock(c, s)'
    <3>1. Untouched(c, s) /\ stores' = stores /\ plan' = plan /\ "WaitOnUnlock" \in States
        BY <2>1, <2>5, Names DEF Moves, Elsewhere
    <3>2. InState(c, s, "WaitOnUnlock")' <=> InState(c, s, "WaitOnUnlock")
        BY <3>1, UntouchedFacts
    <3>3. InState(c, s, "WaitOnUnlock")' <=> InUnlock(c, s)'
        BY DEF InState
    <3> QED BY <1>1, <3>2, <3>3, InStateCases
  <2>8. ASSUME Conversation(c)' PROVE ProtocolInv'
    <3>1. \A id, n, st : ~ Replied(c, sw, id, n, st)'
        BY <1>4, <2>5, NothingReplied
    <3>2. \A id, n, st : Replied(c, sw, id, n, st) => id = "Unlock"
        BY <2>1, OnlyReply
    <3>3. ~ Owns(c, sw) /\ ~ Owns(c, sw)'
        BY <2>1, <2>3, <3>1, <3>2 DEF Owns
    <3>4. ~ OwnsCandidate(c, sw) /\ ~ OwnsCandidate(c, sw)'
        BY <1>1, <2>3, <3>1, <3>2 DEF OwnsCandidate, InUnlock, HasNone
    <3> QED BY <1>1, <1>4, <2>1, <2>8, <3>3, <3>4, AnsweredInv
  <2> QED BY <1>3, <2>1, <2>4, <2>6, <2>7, <2>8
<1>7. CASE getSwitchesInState(a, "Unlocked") = Switches
  <2>1. "EndOfTransaction" \in States
      BY Names
  <2>2. Enter(c, a, "EndOfTransaction", out)
      BY <1>a, <1>7
  <2>3. /\ Moves(c, a, "EndOfTransaction")
        /\ \A s \in Switches : InUnlock(c, s)'
        /\ \/ \A s \in Switches : Has(c, s, "Commited")'
           \/ \A s \in Switches : ~ Has(c, s, "Commited")'
        /\ Conversation(c)' => ProtocolInv'
      BY <1>6, <2>1, <2>2
  <2>4. \A s \in Switches : isInState(a.flags[s], "Unlocked")
      BY <1>7 DEF getSwitchesInState
  <2>5. ASSUME NEW s \in Switches PROVE InState(c, s, "EndOfTransaction")'
    <3>1. ~ Has(c, s, "LockedRunning")'
        BY <2>3, <2>4, NextState
    <3>2. InEnd(c, s)'
        BY <2>3, <3>1 DEF InEnd
    <3> QED BY <3>2 DEF InState
  <2> QED BY <2>3, <2>5, Conversing
<1>8. CASE getSwitchesInState(a, "Unlocked") # Switches
  <2>1. "WaitOnUnlock" \in States
      BY Names
  <2>2. Enter(c, a, "WaitOnUnlock", out)
      BY <1>a, <1>8
  <2>3. /\ Moves(c, a, "WaitOnUnlock")
        /\ \A s \in Switches : InUnlock(c, s)'
        /\ \/ \A s \in Switches : Has(c, s, "Commited")'
           \/ \A s \in Switches : ~ Has(c, s, "Commited")'
        /\ Conversation(c)' => ProtocolInv'
      BY <1>6, <2>1, <2>2
  <2>4. \A s \in Switches : InState(c, s, "WaitOnUnlock")'
      BY <2>3 DEF InState
  <2> QED BY <2>3, <2>4, Conversing
<1> QED BY <1>a, <1>7, <1>8

(* A step of an app keeps the protocol, unless it ends the simulation.     *)
LEMMA AppStepInv ==
    ASSUME ProtocolInv, NEW c \in Apps, AppStep(c)
    PROVE  ProtocolInv' \/ \E sw \in Switches : checkEventHandled(c, sw)
<1>1. CASE handleMessageInBeginOfTransaction(c)
    BY <1>1, BeginStep
<1>2. CASE handleMessageInErrorState(c)
    BY <1>2, ErrorStep
<1>3. ASSUME NEW sw \in Switches, handleMessageInWaitOnLockResponse(c, sw) PROVE ProtocolInv'
  <2>1. \/ Receive(c, sw, "WaitOnLockResponse", "Lock", "ok")
        \/ Receive(c, sw, "WaitOnLockResponse", "Lock", "error")
      BY <1>3 DEF handleMessageInWaitOnLockResponse
  <2> QED BY <1>3, <2>1, LockOkStep, LockErrorStep
<1>4. ASSUME NEW sw \in Switches, handleMessageInWaitOnCandidateConfirmation(c, sw)
      PROVE  ProtocolInv'
    BY <1>4, CopyStep
<1>5. ASSUME NEW sw \in Switches, handleMessageInWaitOnCandidateLockResponse(c, sw)
      PROVE  ProtocolInv'
    BY <1>5, CandidateLockStep
<1>6. ASSUME NEW sw \in Switches, handleMessageInWaitOnChangeConfirmation(c, sw)
      PROVE  ProtocolInv'
    BY <1>6, ChangeStep
<1>7. ASSUME NEW sw \in Switches, handleMessageInWaitOnTimestampConfirmation(c, sw)
      PROVE  ProtocolInv'
    BY <1>7, TimestampStep
<1>8. ASSUME NEW sw \in Switches, handleMessageInWaitOnCommitExecution(c, sw)
      PROVE  ProtocolInv'
    BY <1>8, CommitStep
<1>9. ASSUME NEW sw \in Switches, handleMessageInWaitOnDeleteOldConfiguration(c, sw)
      PROVE  ProtocolInv'
    BY <1>9, DeleteOldStep
<1>10. ASSUME NEW sw \in Switches, handleMessageInWaitOnDeleteCandidate(c, sw)
       PROVE  ProtocolInv'
    BY <1>10, DeleteStep
<1>11. ASSUME NEW sw \in Switches, handleMessageInWaitOnUnlock(c, sw) PROVE ProtocolInv'
    BY <1>11, UnlockStep
<1> QED BY <1>1, <1>2, <1>3, <1>4, <1>5, <1>6, <1>7, <1>8, <1>9, <1>10, <1>11 DEF AppStep

-----------------------------------------------------------------------------
(* The operations of the stores: what session c gets of them, and what it  *)
(* cannot touch.                                                           *)
Spares(d, c, e) ==
    /\ e \in Stores
    /\ e.commitOperation = d.commitOperation \/ e.commitOperation = c
    /\ \A b \in Sessions \ {c} :
          /\ e.runningLock = b <=> d.runningLock = b
          /\ e.candidateLock = b <=> d.candidateLock = b
          /\ d.runningLock = b => e.running = d.running /\ e.commitOperation = d.commitOperation
          /\ d.runningLock = b /\ d.candidateLock = b => e.candidate = d.candidate

(* What a request id of session c makes of the stores d.                   *)
Outcome(d, c, id, o) ==
    /\ Spares(d, c, o.stores)
    /\ o.reply \in {"ok", "error", "none"}
    /\ o.reply = "none" => id = "Commit approved" /\ o.stores.commitOperation = c
    /\ o.reply # "none" => o.stores.commitOperation = d.commitOperation
    /\ o.stores.runningLock = c <=>
          \/ d.runningLock = c /\ ~ (id = "Unlock" /\ o.reply = "ok")
          \/ id = "Lock" /\ o.reply = "ok"
    /\ o.stores.candidateLock = c <=>
          \/ /\ d.candidateLock = c
             /\ ~ (id \in {"Delete Old Config", "Delete Candidate Config"} /\ o.reply = "ok")
          \/ id = "Lock Candidate" /\ o.reply = "ok"

LEMMA AppliedType ==
    ASSUME NEW d \in Stores
    PROVE  Applied(d) \in SUBSET Changes
BY DEF Applied, Stores

(* The stores with some of the fields replaced.                            *)
LEMMA FieldFacts ==
    ASSUME NEW d \in Stores
    PROVE  /\ \A e : e = [d EXCEPT !.candidate = << >>] =>
                 /\ e \in Stores /\ e.candidate = << >> /\ e.running = d.running
                 /\ e.runningLock = d.runningLock /\ e.candidateLock = d.candidateLock
                 /\ e.commitTimestamp = d.commitTimestamp
                 /\ e.commitOperation = d.commitOperation /\ e.timedCommits = d.timedCommits
           /\ \A e : e = [d EXCEPT !.candidate = << >>, !.candidateLock = NoSession] =>
                 /\ e \in Stores /\ e.candidate = << >> /\ e.running = d.running
                 /\ e.runningLock = d.runningLock /\ e.candidateLock = NoSession
                 /\ e.commitTimestamp = d.commitTimestamp
                 /\ e.commitOperation = d.commitOperation /\ e.timedCommits = d.timedCommits
<1>1. << >> \in Seq(Changes)
    OBVIOUS
<1>2. PICK none : none = << >>
    OBVIOUS
<1>3. \A e : e = [d EXCEPT !.candidate = none] =>
           /\ e \in Stores /\ e.candidate = none /\ e.running = d.running
           /\ e.runningLock = d.runningLock /\ e.candidateLock = d.candidateLock
           /\ e.commitTimestamp = d.commitTimestamp
           /\ e.commitOperation = d.commitOperation /\ e.timedCommits = d.timedCommits
    BY <1>1, <1>2 DEF Stores
<1>4. \A e : e = [d EXCEPT !.candidate = none, !.candidateLock = NoSession] =>
           /\ e \in Stores /\ e.candidate = none /\ e.running = d.running
           /\ e.runningLock = d.runningLock /\ e.candidateLock = NoSession
           /\ e.commitTimestamp = d.commitTimestamp
           /\ e.commitOperation = d.commitOperation /\ e.timedCommits = d.timedCommits
    BY <1>1, <1>2 DEF Stores
<1> QED BY <1>2, <1>3, <1>4

LEMMA LockOutcome ==
    ASSUME NEW d \in Stores, NEW c \in Sessions
    PROVE  /\ Outcome(d, c, "Lock", handleLock(d, "running", c))
           /\ Outcome(d, c, "Lock Candidate", handleLock(d, "candidate", c))
<1>1. PICK o : o = handleLock(d, "running", c)
    OBVIOUS
<1>2. \/ d.runningLock = NoSession /\ o = Ok([d EXCEPT !.runningLock = c])
      \/ d.runningLock # NoSession /\ o = Error(d)
    BY <1>1 DEF handleLock
<1>3. Outcome(d, c, "Lock", o)
    BY <1>2, NoSessionAssumption DEF Outcome, Spares, Ok, Error, Stores
<1>4. PICK q : q = handleLock(d, "candidate", c)
    OBVIOUS
<1>5. \/ /\ d.candidateLock = NoSession /\ d.candidate = << >>
         /\ q = Ok([d EXCEPT !.candidateLock = c])
      \/ q = Error(d)
    BY <1>4 DEF handleLock
<1>6. Outcome(d, c, "Lock Candidate", q)
    BY <1>5, NoSessionAssumption DEF Outcome, Spares, Ok, Error, Stores
<1> QED BY <1>1, <1>3, <1>4, <1>6

LEMMA UnlockOutcome ==
    ASSUME NEW d \in Stores, NEW c \in Sessions
    PROVE  /\ Outcome(d, c, "Unlock", handleUnlock(d, "running", c))
           /\ Spares(d, c, handleUnlock(d, "candidate", c).stores)
<1>1. PICK o : o = handleUnlock(d, "running", c)
    OBVIOUS
<1>2. \/ d.runningLock = c /\ o = Ok([d EXCEPT !.runningLock = NoSession])
      \/ d.runningLock # c /\ o = Error(d)
    BY <1>1 DEF handleUnlock
<1>3. Outcome(d, c, "Unlock", o)
    BY <1>2, NoSessionAssumption DEF Outcome, Spares, Ok, Error, Stores
<1>4. PICK q : q = handleUnlock(d, "candidate", c)
    OBVIOUS
<1>5. \/ d.candidateLock = c /\ q = Ok([d EXCEPT !.candidateLock = NoSession])
      \/ q = Error(d)
    BY <1>4 DEF handleUnlock
<1>6. Spares(d, c, q.stores)
    BY <1>5, NoSessionAssumption DEF Spares, Ok, Error, Stores
<1> QED BY <1>1, <1>3, <1>4, <1>6

(* Applying the candidate: it is cleared and the running store grows.      *)
LEMMA ApplyFacts ==
    ASSUME NEW d \in Stores
    PROVE  \E done \in Stores :
              /\ applyTo(d) = Ok(done) \/ applyTo(d) = Error(done)
              /\ done.runningLock = d.runningLock /\ done.candidateLock = d.candidateLock
              /\ done.running = d.running \cup Applied(d) /\ done.candidate = << >>
              /\ done.commitTimestamp = d.commitTimestamp
              /\ done.commitOperation = d.commitOperation /\ done.timedCommits = d.timedCommits
<1>1. PICK more \in SUBSET Changes : more = d.running \cup Applied(d)
    BY AppliedType DEF Stores
<1>2. PICK none \in Seq(Changes) : none = << >>
  <2>1. << >> \in Seq(Changes)
      OBVIOUS
  <2> QED BY <2>1, Zenon
<1>3. PICK done : done = [d EXCEPT !.running = more, !.candidate = none]
    OBVIOUS
<1>4. /\ done \in Stores
      /\ done.runningLock = d.runningLock /\ done.candidateLock = d.candidateLock
      /\ done.running = more /\ done.candidate = none
      /\ done.commitTimestamp = d.commitTimestamp
      /\ done.commitOperation = d.commitOperation /\ done.timedCommits = d.timedCommits
    BY <1>3 DEF Stores
<1>5. applyTo(d) = Ok(done) \/ applyTo(d) = Error(done)
    BY <1>1, <1>2, <1>3 DEF applyTo
<1> QED BY <1>1, <1>2, <1>4, <1>5

LEMMA CopyOutcome ==
    ASSUME NEW d \in Stores, NEW c \in Sessions
    PROVE  /\ Outcome(d, c, "Copy Config", handleCopyConfig(d, "running", c))
           /\ Spares(d, c, handleCopyConfig(d, "candidate", c).stores)
<1>1. PICK o, e : o = handleCopyConfig(d, "running", c) /\ e = [d EXCEPT !.candidate = << >>]
    OBVIOUS
<1>2. \/ verifyLock(d.runningLock, c) /\ verifyLock(d.candidateLock, c) /\ o = Ok(e)
      \/ o = Error(d)
    BY <1>1 DEF handleCopyConfig
<1>3. /\ e \in Stores /\ e.runningLock = d.runningLock /\ e.candidateLock = d.candidateLock
      /\ e.running = d.running /\ e.commitOperation = d.commitOperation
    BY <1>1, FieldFacts
<1>4. Outcome(d, c, "Copy Config", o)
    BY <1>2, <1>3, NoSessionAssumption DEF Outcome, Spares, Ok, Error, verifyLock
<1>5. PICK q : q = handleCopyConfig(d, "candidate", c)
    OBVIOUS
<1>6. \/ verifyLock(d.runningLock, c) /\ verifyLock(d.candidateLock, c) /\ q = applyTo(d)
      \/ q = Error(d)
    BY <1>5 DEF handleCopyConfig
<1>7. PICK done \in Stores :
          /\ applyTo(d) = Ok(done) \/ applyTo(d) = Error(done)
          /\ done.runningLock = d.runningLock /\ done.candidateLock = d.candidateLock
          /\ done.commitOperation = d.commitOperation
    BY ApplyFacts
<1>8. \/ verifyLock(d.runningLock, c) /\ verifyLock(d.candidateLock, c) /\ q.stores = done
      \/ q.stores = d
    BY <1>6, <1>7 DEF Ok, Error
<1>9. Spares(d, c, q.stores)
    BY <1>7, <1>8, NoSessionAssumption DEF Spares, verifyLock
<1> QED BY <1>1, <1>4, <1>5, <1>9

LEMMA EditOutcome ==
    ASSUME NEW d \in Stores, NEW c \in Sessions, NEW change \in Changes
    PROVE  /\ Outcome(d, c, "Change", handleEditConfig(d, "candidate", c, change))
           /\ Spares(d, c, handleEditConfig(d, "running", c, change).stores)
<1>1. PICK longer \in Seq(Changes) : longer = Append(d.candidate, change)
  <2>1. d.candidate \in Seq(Changes)
      BY DEF Stores
  <2>2. Append(d.candidate, change) \in Seq(Changes)
      BY <2>1
  <2> QED BY <2>2, Zenon
<1>2. PICK o, e : /\ o = handleEditConfig(d, "candidate", c, change)
                  /\ e = [d EXCEPT !.candidate = longer]
    OBVIOUS
<1>3. (verifyLock(d.candidateLock, c) /\ o = Ok(e)) \/ o = Error(d)
    BY <1>1, <1>2 DEF handleEditConfig
<1>4. /\ e \in Stores /\ e.runningLock = d.runningLock /\ e.candidateLock = d.candidateLock
      /\ e.running = d.running /\ e.commitOperation = d.commitOperation
    BY <1>2 DEF Stores
<1>5. Outcome(d, c, "Change", o)
    BY <1>3, <1>4, NoSessionAssumption DEF Outcome, Spares, Ok, Error, verifyLock
<1>6. PICK more \in SUBSET Changes : more = d.running \cup {change}
    BY DEF Stores
<1>7. PICK q, f : /\ q = handleEditConfig(d, "running", c, change)
                  /\ f = [d EXCEPT !.running = more]
    OBVIOUS
<1>8. (verifyLock(d.runningLock, c) /\ q = Ok(f)) \/ q = Error(d)
    BY <1>6, <1>7 DEF handleEditConfig
<1>9. /\ f \in Stores /\ f.runningLock = d.runningLock /\ f.candidateLock = d.candidateLock
      /\ f.candidate = d.candidate /\ f.commitOperation = d.commitOperation
    BY <1>7 DEF Stores
<1>10. Spares(d, c, q.stores)
    BY <1>8, <1>9, NoSessionAssumption DEF Spares, Ok, Error, verifyLock
<1> QED BY <1>2, <1>5, <1>7, <1>10

LEMMA TimestampOutcome ==
    ASSUME NEW d \in Stores, NEW c \in Sessions, NEW inPast
    PROVE  Outcome(d, c, "Timestamp", handleEditTimestamp(d, "candidate", c, inPast))
<1>1. PICK o, e : /\ o = handleEditTimestamp(d, "candidate", c, inPast)
                  /\ e = [d EXCEPT !.commitTimestamp = c]
    OBVIOUS
<1>2. o = Ok(e) \/ o = Error(d)
    BY <1>1 DEF handleEditTimestamp
<1>3. /\ e \in Stores /\ e.runningLock = d.runningLock /\ e.candidateLock = d.candidateLock
      /\ e.running = d.running /\ e.commitOperation = d.commitOperation
      /\ e.candidate = d.candidate
    BY <1>1 DEF Stores
<1>4. Outcome(d, c, "Timestamp", o)
    BY <1>2, <1>3 DEF Outcome, Spares, Ok, Error
<1> QED BY <1>1, <1>4

LEMMA DeleteOutcome ==
    ASSUME NEW d \in Stores, NEW c \in Sessions
    PROVE  /\ Outcome(d, c, "Delete Old Config", handleDeleteConfig(d, "candidate", c))
           /\ Outcome(d, c, "Delete Candidate Config", handleDeleteConfig(d, "candidate", c))
<1>1. PICK o, e : /\ o = handleDeleteConfig(d, "candidate", c)
                  /\ e = [d EXCEPT !.candidate = << >>, !.candidateLock = NoSession]
    OBVIOUS
<1>2. (verifyLock(d.candidateLock, c) /\ o = Ok(e)) \/ o = Error(d)
    BY <1>1 DEF handleDeleteConfig
<1>3. /\ e \in Stores /\ e.runningLock = d.runningLock /\ e.candidateLock = NoSession
      /\ e.running = d.running /\ e.commitOperation = d.commitOperation
    BY <1>1, FieldFacts
<1>4. /\ Outcome(d, c, "Delete Old Config", o)
      /\ Outcome(d, c, "Delete Candidate Config", o)
    BY <1>2, <1>3, NoSessionAssumption DEF Outcome, Spares, Ok, Error, verifyLock
<1> QED BY <1>1, <1>4

LEMMA CommitOutcome ==
    ASSUME NEW d \in Stores, NEW c \in Sessions
    PROVE  Outcome(d, c, "Commit approved", handleCommit(d, c))
<1>1. PICK timer \in Nat : timer = IF executeAtStartOfPeriod THEN d.timedCommits
                                   ELSE d.timedCommits + 1
    BY DEF Stores
<1>2. PICK o, e : o = handleCommit(d, c)
                  /\ e = [d EXCEPT !.commitOperation = c, !.timedCommits = timer]
    OBVIOUS
<1>3. PICK done \in Stores :
          /\ applyTo(d) = Ok(done) \/ applyTo(d) = Error(done)
          /\ done.runningLock = d.runningLock /\ done.candidateLock = d.candidateLock
          /\ done.commitOperation = d.commitOperation
    BY ApplyFacts
<1>4. \/ o = Error(d)
      \/ verifyLock(d.runningLock, c) /\ o = [stores |-> e, reply |-> "none"]
      \/ verifyLock(d.runningLock, c) /\ (o = Ok(done) \/ o = Error(done))
  <2>1. o = IF ~ verifyLock(d.runningLock, c) THEN Error(d)
            ELSE IF d.commitTimestamp # NoSession THEN [stores |-> e, reply |-> "none"]
            ELSE applyTo(d)
      BY <1>1, <1>2 DEF handleCommit
  <2> QED BY <1>3, <2>1
<1>5. /\ e \in Stores /\ e.runningLock = d.runningLock /\ e.candidateLock = d.candidateLock
      /\ e.running = d.running /\ e.commitOperation = c /\ e.candidate = d.candidate
    BY <1>2 DEF Stores
<1>6. ASSUME o = Error(d) PROVE Outcome(d, c, "Commit approved", o)
    BY <1>6 DEF Outcome, Spares, Error
<1>7. ASSUME verifyLock(d.runningLock, c), o = [stores |-> e, reply |-> "none"]
      PROVE  Outcome(d, c, "Commit approved", o)
  <2>1. Spares(d, c, e)
      BY <1>5, <1>7, NoSessionAssumption DEF Spares, verifyLock
  <2> QED BY <1>5, <1>7, <2>1 DEF Outcome
<1>8. ASSUME verifyLock(d.runningLock, c), o = Ok(done) \/ o = Error(done)
      PROVE  Outcome(d, c, "Commit approved", o)
  <2>1. Spares(d, c, done)
      BY <1>3, <1>8, NoSessionAssumption DEF Spares, verifyLock
  <2> QED BY <1>3, <1>8, <2>1 DEF Outcome, Ok, Error
<1>9. Outcome(d, c, "Commit approved", o)
    BY <1>2, <1>4, <1>6, <1>7, <1>8
<1> QED BY <1>2, <1>9

-----------------------------------------------------------------------------
(* The steps of the switches.                                              *)
(* What an app and a switch talk about.                                    *)
Topic(c, sw, id, n) ==
    /\ id # "Change" => n = 0
    /\ id = "Change" => n \in 1 .. Len(plan[c][sw])
    /\ id = "Lock" => ~ Has(c, sw, "LockedRunning")
    /\ id = "Unlock" => apps[c].state = "WaitOnUnlock" \/ ~ Has(c, sw, "LockedRunning")
    /\ id = "Commit approved" => /\ apps[c].state = "WaitOnCommitExecution"
                                 /\ ~ Has(c, sw, "Commited")

LEMMA TopicFacts ==
    ASSUME ProtocolInv, NEW c \in Apps, NEW sw \in Switches
    PROVE  \/ Silent(c, sw)
           \/ \E id \in Ids, n \in Nat : Talks(c, sw, id, n) /\ Topic(c, sw, id, n)
<1>1. InState(c, sw, apps[c].state) /\ apps[c].state \in States
    BY ConversationFacts
<1>2. ASSUME NEW id \in Ids, NEW n \in Nat, Talks(c, sw, id, n), Topic(c, sw, id, n)
      PROVE  \/ Silent(c, sw)
             \/ \E i \in Ids, m \in Nat : Talks(c, sw, i, m) /\ Topic(c, sw, i, m)
    BY <1>2
<1>3. ASSUME NEW n \in 1 .. Len(plan[c][sw]) PROVE n \in Nat
    BY <1>3
<1>4. CASE apps[c].state = "BeginOfTransaction"
    BY <1>1, <1>4, InStateCases DEF InBegin
<1>5. CASE apps[c].state = "WaitOnLockResponse"
  <2>1. InLock(c, sw)
      BY <1>1, <1>5, InStateCases
  <2>2. CASE Talks(c, sw, "Lock", 0) /\ ~ Has(c, sw, "LockedRunning")
    <3>1. Topic(c, sw, "Lock", 0)
        BY <2>2 DEF Topic
    <3> QED BY <1>2, <2>2, <3>1, Names
  <2> QED BY <2>1, <2>2 DEF InLock
<1>6. CASE apps[c].state = "WaitOnCandidateConfirmation"
  <2>1. Silent(c, sw) \/ Talks(c, sw, "Copy Config", 0)
      BY <1>1, <1>6, InStateCases DEF InCopy, AskedUnless
  <2>2. Topic(c, sw, "Copy Config", 0)
      BY DEF Topic
  <2> QED BY <1>2, <2>1, <2>2, Names
<1>7. CASE apps[c].state = "WaitOnCandidateLockResponse"
  <2>1. Silent(c, sw) \/ Talks(c, sw, "Lock Candidate", 0)
      BY <1>1, <1>7, InStateCases DEF InCandidateLock, AskedUnless
  <2>2. Topic(c, sw, "Lock Candidate", 0)
      BY DEF Topic
  <2> QED BY <1>2, <2>1, <2>2, Names
<1>8. CASE apps[c].state = "WaitOnChangeConfirmation"
  <2>1. Silent(c, sw) \/ \E n \in 1 .. Len(plan[c][sw]) : Talks(c, sw, "Change", n)
      BY <1>1, <1>8, InStateCases DEF InChange
  <2>2. CASE \E n \in 1 .. Len(plan[c][sw]) : Talks(c, sw, "Change", n)
    <3>1. PICK n \in 1 .. Len(plan[c][sw]) : Talks(c, sw, "Change", n)
        BY <2>2
    <3>2. Topic(c, sw, "Change", n)
        BY DEF Topic
    <3> QED BY <1>2, <1>3, <3>1, <3>2, Names
  <2> QED BY <2>1, <2>2
<1>9. CASE apps[c].state = "WaitOnTimestampConfirmation"
  <2>1. Silent(c, sw) \/ Talks(c, sw, "Timestamp", 0)
      BY <1>1, <1>9, InStateCases DEF InTimestamp, AskedUnless
  <2>2. Topic(c, sw, "Timestamp", 0)
      BY DEF Topic
  <2> QED BY <1>2, <2>1, <2>2, Names
<1>10. CASE apps[c].state = "WaitOnCommitExecution"
  <2>1. InCommit(c, sw)
      BY <1>1, <1>10, InStateCases
  <2>2. CASE Talks(c, sw, "Commit approved", 0) /\ ~ Has(c, sw, "Commited")
    <3>1. Topic(c, sw, "Commit approved", 0)
        BY <1>10, <2>2 DEF Topic
    <3> QED BY <1>2, <2>2, <3>1, Names
  <2> QED BY <2>1, <2>2 DEF InCommit
<1>11. CASE apps[c].state = "WaitOnDeleteOldConfiguration"
  <2>1. Silent(c, sw) \/ Talks(c, sw, "Delete Old Config", 0)
      BY <1>1, <1>11, InStateCases DEF InDeleteOld
  <2>2. Topic(c, sw, "Delete Old Config", 0)
      BY DEF Topic
  <2> QED BY <1>2, <2>1, <2>2, Names
<1>12. CASE apps[c].state = "ErrorState"
    BY <1>1, <1>12, InStateCases DEF InError
<1>13. CASE apps[c].state = "WaitOnDeleteCandidate"
  <2>1. Silent(c, sw) \/ Talks(c, sw, "Delete Candidate Config", 0)
      BY <1>1, <1>13, InStateCases DEF InDelete
  <2>2. Topic(c, sw, "Delete Candidate Config", 0)
      BY DEF Topic
  <2> QED BY <1>2, <2>1, <2>2, Names
<1>14. CASE apps[c].state = "WaitOnUnlock"
  <2>1. Silent(c, sw) \/ Talks(c, sw, "Unlock", 0)
      BY <1>1, <1>14, InStateCases DEF InUnlock
  <2>2. Topic(c, sw, "Unlock", 0)
      BY <1>14 DEF Topic
  <2> QED BY <1>2, <2>1, <2>2, Names
<1>15. CASE apps[c].state = "EndOfTransaction"
  <2>1. InEnd(c, sw)
      BY <1>1, <1>15, InStateCases
  <2>2. Silent(c, sw) \/ Talks(c, sw, "Unlock", 0)
      BY <2>1 DEF InEnd, InUnlock
  <2>3. Topic(c, sw, "Unlock", 0)
      BY <2>1 DEF Topic, InEnd
  <2> QED BY <1>2, <2>2, <2>3, Names
<1> QED BY <1>1, <1>4, <1>5, <1>6, <1>7, <1>8, <1>9, <1>10, <1>11, <1>12, <1>13, <1>14, <1>15
    DEF States

(* A reply takes the place of the request.                                 *)
LEMMA RepliedKeepsState ==
    ASSUME NEW c \in Apps, NEW sw \in Switches, NEW state \in States, InState(c, sw, state),
           NEW id, NEW n, NEW status \in {"ok", "error"},
           Asked(c, sw, id, n), Replied(c, sw, id, n, status)',
           \A flag : Has(c, sw, flag)' <=> Has(c, sw, flag), plan' = plan
    PROVE  InState(c, sw, state)'
<1>1. ~ Silent(c, sw) /\ ~ Silent(c, sw)' /\ Talks(c, sw, id, n) /\ Talks(c, sw, id, n)'
    BY Spoken DEF OneThing, Talks
<1>2. \A i, m : Talks(c, sw, i, m) => i = id /\ m = n
    BY Spoken DEF OneThing, Talks, Asked, Message
<1>3. \A i, m : Talks(c, sw, i, m) => Talks(c, sw, i, m)'
    BY <1>1, <1>2
<1>4. /\ \A flags : HasAll(c, sw, flags)' <=> HasAll(c, sw, flags)
      /\ \A flags : HasNone(c, sw, flags)' <=> HasNone(c, sw, flags)
    BY DEF HasAll, HasNone
<1>5. \A flags, i : AskedUnless(c, sw, flags, i) => AskedUnless(c, sw, flags, i)'
    BY <1>1, <1>3, <1>4 DEF AskedUnless
<1>6. /\ InBegin(c, sw) => InBegin(c, sw)'
      /\ InLock(c, sw) => InLock(c, sw)'
      /\ InCopy(c, sw) => InCopy(c, sw)'
      /\ InCandidateLock(c, sw) => InCandidateLock(c, sw)'
      /\ InTimestamp(c, sw) => InTimestamp(c, sw)'
    BY <1>1, <1>3, <1>4, <1>5 DEF InBegin, InLock, InCopy, InCandidateLock, InTimestamp
<1>7. InChange(c, sw) => InChange(c, sw)'
    BY <1>1, <1>3, <1>4 DEF InChange
<1>8. InCommit(c, sw) => InCommit(c, sw)'
    BY <1>1, <1>3, <1>4 DEF InCommit
<1>9. /\ InDeleteOld(c, sw) => InDeleteOld(c, sw)'
      /\ InError(c, sw) => InError(c, sw)'
      /\ InDelete(c, sw) => InDelete(c, sw)'
      /\ InUnlock(c, sw) => InUnlock(c, sw)'
      /\ InEnd(c, sw) => InEnd(c, sw)'
    BY <1>1, <1>3, <1>4 DEF InDeleteOld, InError, InDelete, InUnlock, InEnd
<1>10. state = "BeginOfTransaction" => InState(c, sw, state)'
    BY <1>6 DEF InState
<1>11. state = "WaitOnLockResponse" => InState(c, sw, state)'
    BY <1>6 DEF InState
<1>12. state = "WaitOnCandidateConfirmation" => InState(c, sw, state)'
    BY <1>6 DEF InState
<1>13. state = "WaitOnCandidateLockResponse" => InState(c, sw, state)'
    BY <1>6 DEF InState
<1>14. state = "WaitOnChangeConfirmation" => InState(c, sw, state)'
    BY <1>7 DEF InState
<1>15. state = "WaitOnTimestampConfirmation" => InState(c, sw, state)'
    BY <1>6 DEF InState
<1>16. state = "WaitOnCommitExecution" => InState(c, sw, state)'
    BY <1>8 DEF InState
<1>17. state = "WaitOnDeleteOldConfiguration" => InState(c, sw, state)'
    BY <1>9 DEF InState
<1>18. state = "ErrorState" => InState(c, sw, state)'
    BY <1>9 DEF InState
<1>19. state = "WaitOnDeleteCandidate" => InState(c, sw, state)'
    BY <1>9 DEF InState
<1>20. state = "WaitOnUnlock" => InState(c, sw, state)'
    BY <1>9 DEF InState
<1>21. state = "EndOfTransaction" => InState(c, sw, state)'
    BY <1>9 DEF InState
<1> QED BY <1>10, <1>11, <1>12, <1>13, <1>14, <1>15, <1>16, <1>17, <1>18, <1>19, <1>20, <1>21
    DEF States

(* What a step of a switch has to keep of an app d and a switch s.         *)
Kept(d, s) ==
    /\ apps'[d].state = apps[d].state
    /\ \A flag : Has(d, s, flag)' <=> Has(d, s, flag)
    /\ InState(d, s, apps[d].state)'
    /\ Silent(d, s) => Silent(d, s)' \/ apps[d].state = "WaitOnCommitExecution"
    /\ stores'[s].runningLock = d <=> Owns(d, s)'
    /\ stores'[s].candidateLock = d <=> OwnsCandidate(d, s)'
    /\ stores'[s].commitOperation = d =>
          apps[d].state = "WaitOnCommitExecution" /\ Silent(d, s)' /\ ~ Has(d, s, "Commited")

LEMMA KeptInv ==
    ASSUME ProtocolInv, Shapes', plan' = plan, \A d \in Apps, s \in Switches : Kept(d, s)
    PROVE  ProtocolInv'
<1>1. Apps' = Apps
    BY DEF Apps
<1>2. ASSUME NEW d \in Apps PROVE Conversation(d)'
  <2>1. Conversation(d)
      BY ConversationFacts
  <2>2. /\ apps'[d].state = apps[d].state
        /\ \A s \in Switches : /\ \A flag : Has(d, s, flag)' <=> Has(d, s, flag)
                               /\ InState(d, s, apps[d].state)'
                               /\ Silent(d, s) => \/ Silent(d, s)'
                                                  \/ apps[d].state = "WaitOnCommitExecution"
    <3>1. 1 \in Switches
        BY Constants DEF Switches
    <3> QED BY <3>1 DEF Kept
  <2> QED BY <2>1, <2>2 DEF Conversation
<1>3. Protocol'
    BY <1>1, <1>2 DEF Protocol
<1>4. LocksOwned'
    BY <1>1 DEF LocksOwned, Kept
<1>5. CommitAwaited'
    BY <1>1 DEF CommitAwaited, Kept
<1> QED BY <1>3, <1>4, <1>5 DEF ProtocolInv

(* Where the session and the locks of an app are not concerned.            *)
LEMMA KeptUntouched ==
    ASSUME ProtocolInv, NEW d \in Apps, NEW s \in Switches, Untouched(d, s), plan' = plan,
           apps'[d].state = apps[d].state,
           stores'[s].runningLock = d <=> stores[s].runningLock = d,
           stores'[s].candidateLock = d <=> stores[s].candidateLock = d,
           stores'[s].commitOperation = d <=> stores[s].commitOperation = d
    PROVE  Kept(d, s)
<1>1. PICK st \in States : st = apps[d].state
    BY ConversationFacts
<1>2. /\ InState(d, s, st)' <=> InState(d, s, st)
      /\ Silent(d, s)' <=> Silent(d, s)
      /\ Owns(d, s)' <=> Owns(d, s)
      /\ OwnsCandidate(d, s)' <=> OwnsCandidate(d, s)
    BY <1>1, UntouchedFacts
<1>3. InState(d, s, apps[d].state)' <=> InState(d, s, st)'
    BY <1>1 DEF InState
<1>4. /\ InState(d, s, st)
      /\ stores[s].runningLock = d <=> Owns(d, s)
      /\ stores[s].candidateLock = d <=> OwnsCandidate(d, s)
    BY <1>1, ConversationFacts
<1>5. stores[s].commitOperation = d =>
          apps[d].state = "WaitOnCommitExecution" /\ Silent(d, s) /\ ~ Has(d, s, "Commited")
    BY DEF ProtocolInv, CommitAwaited
<1> QED BY <1>2, <1>3, <1>4, <1>5 DEF Kept, Untouched

(* The stores of a switch after an operation of another session.           *)
LEMMA KeptSpared ==
    ASSUME ProtocolInv, NEW d \in Apps, NEW s \in Switches, Untouched(d, s), plan' = plan,
           apps'[d].state = apps[d].state,
           NEW c \in Sessions, c # d, Spares(stores[s], c, stores'[s])
    PROVE  Kept(d, s)
<1>1. d \in Sessions \ {c}
    BY DEF Apps
<1>2. /\ stores'[s].runningLock = d <=> stores[s].runningLock = d
      /\ stores'[s].candidateLock = d <=> stores[s].candidateLock = d
      /\ stores[s].runningLock = d => stores'[s].commitOperation = stores[s].commitOperation
      /\ stores'[s].commitOperation = stores[s].commitOperation \/ stores'[s].commitOperation = c
    BY <1>1 DEF Spares
<1>3. stores[s].commitOperation = d => stores[s].runningLock = d
  <2>1. SUFFICES ASSUME stores[s].commitOperation = d PROVE Owns(d, s)
      BY DEF ProtocolInv, LocksOwned
  <2>2. apps[d].state = "WaitOnCommitExecution" /\ Silent(d, s)
      BY <2>1 DEF ProtocolInv, CommitAwaited
  <2>3. InCommit(d, s)
      BY <2>2, ConversationFacts, InStateCases
  <2>4. Has(d, s, "LockedRunning")
      BY <2>3 DEF InCommit, HasAll, Staged
  <2>5. ~ Replied(d, s, "Unlock", 0, "ok")
      BY <2>2, Spoken DEF OneThing
  <2> QED BY <2>4, <2>5 DEF Owns
<1>4. stores'[s].commitOperation = d <=> stores[s].commitOperation = d
    BY <1>2, <1>3
<1> QED BY <1>2, <1>4, KeptUntouched

LEMMA HandledOutcome ==
    ASSUME ProtocolInv, NEW c \in Apps, NEW sw \in Switches, NEW id \in Ids, NEW n \in Nat,
           Talks(c, sw, id, n), NEW m, m = Message(id, n)
    PROVE  Outcome(stores[sw], c, id, handleMessage(stores[sw], c, sw, m))
<1>1. stores[sw] \in Stores /\ c \in Sessions /\ m.id = id /\ m.n = n
    BY ConversationFacts, MessageFacts DEF Shapes
<1>2. Topic(c, sw, id, n)
  <2>1. PICK i \in Ids, k \in Nat : Talks(c, sw, i, k) /\ Topic(c, sw, i, k)
      BY TopicFacts, Spoken DEF OneThing
  <2>2. i = id /\ k = n
      BY <2>1, OneTopic
  <2> QED BY <2>1, <2>2
<1>3. PICK d : d = stores[sw] /\ d \in Stores
    BY <1>1
<1>4. PICK o : o = handleMessage(d, c, sw, m)
    OBVIOUS
<1>5. id = "Lock" => Outcome(d, c, id, o)
    BY <1>1, <1>3, <1>4, LockOutcome DEF handleMessage
<1>6. id = "Copy Config" => Outcome(d, c, id, o)
    BY <1>1, <1>3, <1>4, CopyOutcome DEF handleMessage
<1>7. id = "Lock Candidate" => Outcome(d, c, id, o)
    BY <1>1, <1>3, <1>4, LockOutcome DEF handleMessage
<1>8. id = "Change" => Outcome(d, c, id, o)
  <2>1. SUFFICES ASSUME id = "Change" PROVE Outcome(d, c, "Change", o)
      OBVIOUS
  <2>2. plan[c][sw] \in Seq(Changes) /\ n \in 1 .. Len(plan[c][sw])
      BY <1>2, <2>1, ConversationFacts DEF Shapes, Topic
  <2>3. PICK change \in Changes : change = plan[c][sw][n]
      BY <2>2
  <2>4. o = handleEditConfig(d, "candidate", c, change)
      BY <1>1, <1>4, <2>1, <2>3 DEF handleMessage
  <2> QED BY <1>1, <1>3, <2>4, EditOutcome
<1>9. id = "Timestamp" => Outcome(d, c, id, o)
    BY <1>1, <1>3, <1>4, TimestampOutcome DEF handleMessage
<1>10. id = "Commit approved" => Outcome(d, c, id, o)
    BY <1>1, <1>3, <1>4, CommitOutcome DEF handleMessage
<1>11. id = "Delete Old Config" => Outcome(d, c, id, o)
    BY <1>1, <1>3, <1>4, DeleteOutcome DEF handleMessage
<1>12. id = "Delete Candidate Config" => Outcome(d, c, id, o)
    BY <1>1, <1>3, <1>4, DeleteOutcome DEF handleMessage
<1>13. id = "Unlock" => Outcome(d, c, id, o)
    BY <1>1, <1>3, <1>4, UnlockOutcome DEF handleMessage
<1> QED BY <1>3, <1>4, <1>5, <1>6, <1>7, <1>8, <1>9, <1>10, <1>11, <1>12, <1>13 DEF Ids

LEMMA ServeFacts ==
    ASSUME ProtocolInv, NEW c \in Apps, NEW sw \in Switches, Serve(c, sw)
    PROVE  \E id, n, o :
              /\ id \in Ids /\ n \in Nat
              /\ Asked(c, sw, id, n) /\ Topic(c, sw, id, n)
              /\ o = handleMessage(stores[sw], c, sw, Message(id, n))
              /\ Outcome(stores[sw], c, id, o)
              /\ stores' = [stores EXCEPT ![sw] = o.stores]
              /\ o.reply = "none" => Silent(c, sw)'
              /\ o.reply # "none" => Replied(c, sw, id, n, o.reply)'
              /\ \A d \in Apps, s \in Switches : d # c \/ s # sw => Untouched(d, s)
              /\ apps' = apps /\ plan' = plan
              /\ Shapes'
<1>0. Shapes /\ c \in Sessions
    BY ConversationFacts
<1>1. PICK id \in Ids, n \in Nat : Talks(c, sw, id, n) /\ Topic(c, sw, id, n)
    BY TopicFacts DEF Serve, Silent
<1>2. Asked(c, sw, id, n)
    BY <1>1 DEF Serve, Talks, Replied
<1>3. PICK m : m = Message(id, n) /\ m \in Requests /\ m.id = id /\ m.n = n
    BY MessageFacts
<1>4. requests[c][sw] = << m >> /\ replies[c][sw] = << >>
    BY <1>2, <1>3 DEF Asked
<1>5. Head(requests[c][sw]) = m /\ Tail(requests[c][sw]) = << >>
    BY <1>3, <1>4, Short
<1>6. PICK o : o = handleMessage(stores[sw], c, sw, m)
    OBVIOUS
<1>7. Outcome(stores[sw], c, id, o)
    BY <1>1, <1>3, <1>6, HandledOutcome
<1>8. PICK reply : reply = [id |-> m.id, n |-> m.n, status |-> o.reply]
    OBVIOUS
<1>9. /\ stores' = [stores EXCEPT ![sw] = o.stores]
      /\ replies' = [replies EXCEPT ![c] = [replies[c] EXCEPT ![sw] =
                        IF o.reply = "none" THEN replies[c][sw] ELSE Append(replies[c][sw], reply)]]
      /\ requests' = [requests EXCEPT ![c] = [requests[c] EXCEPT ![sw] = Tail(requests[c][sw])]]
      /\ plan' = plan /\ apps' = apps /\ aborted' \in BOOLEAN
    BY <1>5, <1>6, <1>8 DEF Serve
<1>10. PICK answer : /\ answer = (IF o.reply = "none" THEN << >> ELSE << reply >>)
                     /\ answer \in Seq(Replies)
  <2>1. CASE o.reply = "none"
    <3>1. << >> \in Seq(Replies)
        OBVIOUS
    <3> QED BY <2>1, <3>1, Zenon
  <2>2. CASE o.reply # "none"
    <3>1. o.reply \in {"ok", "error"}
        BY <1>7, <2>2 DEF Outcome
    <3>2. reply \in Replies
        BY <1>3, <1>8, <3>1, MessageFacts
    <3>3. << reply >> \in Seq(Replies)
        BY <3>2
    <3> QED BY <2>2, <3>3, Zenon
  <2> QED BY <2>1, <2>2
<1>11. (IF o.reply = "none" THEN replies[c][sw] ELSE Append(replies[c][sw], reply)) = answer
  <2>1. Append(<< >>, reply) = << reply >>
      OBVIOUS
  <2> QED BY <1>4, <1>10, <2>1
<1>12. PICK nothing \in Seq(Requests) : nothing = << >>
    BY MessageSeq, Zenon
<1>13. /\ replies' = [replies EXCEPT ![c] = [replies[c] EXCEPT ![sw] = answer]]
       /\ requests' = [requests EXCEPT ![c] = [requests[c] EXCEPT ![sw] = nothing]]
    BY <1>5, <1>9, <1>11, <1>12
<1>14. /\ requests' \in [Sessions -> [Switches -> Seq(Requests)]]
       /\ replies' \in [Sessions -> [Switches -> Seq(Replies)]]
       /\ requests'[c][sw] = nothing /\ replies'[c][sw] = answer
       /\ \A d \in Sessions, s \in Switches : d # c \/ s # sw =>
              requests'[d][s] = requests[d][s] /\ replies'[d][s] = replies[d][s]
  <2>1. /\ requests \in [Sessions -> [Switches -> Seq(Requests)]]
        /\ replies \in [Sessions -> [Switches -> Seq(Replies)]]
      BY <1>0 DEF Shapes
  <2>2. requests'[c][sw] = nothing /\ replies'[c][sw] = answer
      BY <1>0, <1>13, <2>1
  <2>3. requests' \in [Sessions -> [Switches -> Seq(Requests)]]
      BY <1>0, <1>13, <2>1
  <2>4. replies' \in [Sessions -> [Switches -> Seq(Replies)]]
      BY <1>0, <1>10, <1>13, <2>1
  <2>5. \A d \in Sessions, s \in Switches : d # c \/ s # sw =>
              requests'[d][s] = requests[d][s] /\ replies'[d][s] = replies[d][s]
      BY <1>0, <1>13, <2>1
  <2> QED BY <2>2, <2>3, <2>4, <2>5
<1>15. Shapes'
  <2>1. stores' \in [Switches -> Stores]
      BY <1>0, <1>7, <1>9 DEF Shapes, Outcome, Spares
  <2> QED BY <1>0, <1>9, <1>14, <2>1 DEF Shapes, Apps
<1>16. o.reply = "none" => Silent(c, sw)'
    BY <1>10, <1>12, <1>14 DEF Silent
<1>17. o.reply # "none" => Replied(c, sw, id, n, o.reply)'
    BY <1>3, <1>8, <1>10, <1>12, <1>14 DEF Replied
<1>18. \A d \in Apps, s \in Switches : d # c \/ s # sw => Untouched(d, s)
    BY <1>9, <1>14 DEF Untouched, Has, Apps
<1> QED BY <1>1, <1>2, <1>3, <1>6, <1>7, <1>9, <1>15, <1>16, <1>17, <1>18

LEMMA ServeStep ==
    ASSUME ProtocolInv, NEW c \in Apps, NEW sw \in Switches, Serve(c, sw)
    PROVE  ProtocolInv'
<1>1. PICK id, n, o :
          /\ id \in Ids /\ n \in Nat
          /\ Asked(c, sw, id, n) /\ Topic(c, sw, id, n)
          /\ Outcome(stores[sw], c, id, o)
          /\ stores' = [stores EXCEPT ![sw] = o.stores]
          /\ o.reply = "none" => Silent(c, sw)'
          /\ o.reply # "none" => Replied(c, sw, id, n, o.reply)'
          /\ \A d \in Apps, s \in Switches : d # c \/ s # sw => Untouched(d, s)
          /\ apps' = apps /\ plan' = plan
          /\ Shapes'
    BY ServeFacts
<1>2. /\ Shapes /\ c \in Sessions /\ InState(c, sw, apps[c].state) /\ apps[c].state \in States
      /\ stores[sw].runningLock = c <=> Owns(c, sw)
      /\ stores[sw].candidateLock = c <=> OwnsCandidate(c, sw)
    BY ConversationFacts
<1>3. stores'[sw] = o.stores /\ \A s \in Switches \ {sw} : stores'[s] = stores[s]
    BY <1>1, <1>2 DEF Shapes
<1>4. ASSUME NEW d \in Apps, NEW s \in Switches, s # sw PROVE Kept(d, s)
    BY <1>1, <1>3, <1>4, KeptUntouched
<1>5. ASSUME NEW d \in Apps, d # c PROVE Kept(d, sw)
  <2>1. Spares(stores[sw], c, stores'[sw])
      BY <1>1, <1>3 DEF Outcome
  <2> QED BY <1>1, <1>2, <1>5, <2>1, KeptSpared
<1>6. \A flag : Has(c, sw, flag)' <=> Has(c, sw, flag)
    BY <1>1 DEF Has
<1>7. /\ ~ Silent(c, sw) /\ \A i, k, status : ~ Replied(c, sw, i, k, status)
      /\ stores[sw].commitOperation # c
  <2>1. ~ Silent(c, sw) /\ \A i, k, status : ~ Replied(c, sw, i, k, status)
      BY <1>1, Spoken DEF OneThing, Talks
  <2> QED BY <2>1 DEF ProtocolInv, CommitAwaited
<1>8. /\ stores[sw].runningLock = c <=> Has(c, sw, "LockedRunning")
      /\ stores[sw].candidateLock = c <=> Has(c, sw, "LockedCandidate")
    BY <1>2, <1>7 DEF Owns, OwnsCandidate
<1>9. CASE o.reply = "none"
  <2>1. /\ id = "Commit approved" /\ stores'[sw].commitOperation = c
        /\ stores'[sw].runningLock = c <=> stores[sw].runningLock = c
        /\ stores'[sw].candidateLock = c <=> stores[sw].candidateLock = c
      BY <1>1, <1>3, <1>9 DEF Outcome
  <2>2. apps[c].state = "WaitOnCommitExecution" /\ ~ Has(c, sw, "Commited") /\ Silent(c, sw)'
      BY <1>1, <1>9, <2>1 DEF Topic
  <2>3. InCommit(c, sw)
      BY <1>2, <2>2, InStateCases
  <2>4. InCommit(c, sw)'
      BY <1>6, <2>1, <2>2, <2>3 DEF InCommit, HasAll
  <2>5. InState(c, sw, apps[c].state)'
      BY <1>1, <2>2, <2>4 DEF InState
  <2>6. \A i, k, status : ~ Replied(c, sw, i, k, status)'
      BY <2>2, Spoken DEF OneThing
  <2>7. /\ Owns(c, sw)' <=> Has(c, sw, "LockedRunning")
        /\ OwnsCandidate(c, sw)' <=> Has(c, sw, "LockedCandidate")
      BY <1>6, <2>6 DEF Owns, OwnsCandidate
  <2>8. Kept(c, sw)
      BY <1>1, <1>6, <1>7, <1>8, <2>1, <2>2, <2>5, <2>7 DEF Kept
  <2>9. \A d \in Apps, s \in Switches : Kept(d, s)
      BY <1>4, <1>5, <2>8
  <2> QED BY <1>1, <2>9, KeptInv
<1>10. CASE o.reply # "none"
  <2>1. PICK status \in {"ok", "error"} : status = o.reply /\ Replied(c, sw, id, n, status)'
      BY <1>1, <1>10 DEF Outcome
  <2>2. InState(c, sw, apps[c].state)'
    <3>1. PICK st \in States : st = apps[c].state
        BY <1>2
    <3>2. InState(c, sw, st)'
        BY <1>1, <1>2, <1>6, <2>1, <3>1, RepliedKeepsState
    <3> QED BY <1>1, <3>1, <3>2 DEF InState
  <2>3. \A i, k, st : Replied(c, sw, i, k, st)' <=> i = id /\ k = n /\ st = status
      BY <2>1, Spoken DEF OneThing
  <2>4. /\ stores'[sw].commitOperation = stores[sw].commitOperation
        /\ stores'[sw].runningLock = c <=>
              \/ stores[sw].runningLock = c /\ ~ (id = "Unlock" /\ status = "ok")
              \/ id = "Lock" /\ status = "ok"
        /\ stores'[sw].candidateLock = c <=>
              \/ /\ stores[sw].candidateLock = c
                 /\ ~ (id \in {"Delete Old Config", "Delete Candidate Config"} /\ status = "ok")
              \/ id = "Lock Candidate" /\ status = "ok"
      BY <1>1, <1>3, <1>10, <2>1 DEF Outcome
  <2>5. id = "Change" \/ n = 0
      BY <1>1 DEF Topic
  <2>6. Owns(c, sw)' <=>
            \/ Has(c, sw, "LockedRunning") /\ ~ (id = "Unlock" /\ status = "ok")
            \/ id = "Lock" /\ status = "ok"
      BY <1>6, <2>3, <2>5 DEF Owns
  <2>7. OwnsCandidate(c, sw)' <=>
            \/ /\ Has(c, sw, "LockedCandidate")
               /\ ~ (id \in {"Delete Old Config", "Delete Candidate Config"} /\ status = "ok")
            \/ id = "Lock Candidate" /\ status = "ok"
    <3>1. ASSUME NEW i, i # "Change"
          PROVE  Replied(c, sw, i, 0, "ok")' <=> id = i /\ status = "ok"
        BY <2>3, <2>5, <3>1
    <3>2. /\ Replied(c, sw, "Lock Candidate", 0, "ok")' <=>
                 id = "Lock Candidate" /\ status = "ok"
          /\ Replied(c, sw, "Delete Old Config", 0, "ok")' <=>
                 id = "Delete Old Config" /\ status = "ok"
          /\ Replied(c, sw, "Delete Candidate Config", 0, "ok")' <=>
                 id = "Delete Candidate Config" /\ status = "ok"
        BY <3>1
    <3> QED BY <1>6, <3>2 DEF OwnsCandidate
  <2>8. Kept(c, sw)
      BY <1>1, <1>6, <1>7, <1>8, <2>2, <2>4, <2>6, <2>7 DEF Kept
  <2>9. \A d \in Apps, s \in Switches : Kept(d, s)
      BY <1>4, <1>5, <2>8
  <2> QED BY <1>1, <2>9, KeptInv
<1> QED BY <1>9, <1>10

(* A switch listens to the cycles and executes a commit: only the times    *)
(* and the running stores change.                                          *)
LEMMA CycleStep ==
    ASSUME ProtocolInv, newCycle
    PROVE  ProtocolInv'
<1>1. Shapes
    BY DEF ProtocolInv
<1>2. /\ apps' = [c \in Sessions |-> [apps[c] EXCEPT
                      !.timestamp = IF @ = -1 THEN -1 ELSE @ - 1,
                      !.released = IF c \in TimedApps /\ CommitUnderWay(c) THEN @ + 1 ELSE @]]
      /\ stores' = [sw \in Switches |->
                       IF subscribed(stores[sw]) /\ CyclesToCommit(sw) = 1
                       THEN [stores[sw] EXCEPT !.timedCommits = 1] ELSE stores[sw]]
      /\ \A c \in TimedApps : CommitUnderWay(c) => apps[c].released < CommitDelay
      /\ plan' = plan /\ requests' = requests /\ replies' = replies /\ aborted' \in BOOLEAN
    BY DEF newCycle
<1>3. ASSUME NEW c \in Sessions
      PROVE  /\ apps'[c] \in AppRecords
             /\ apps'[c].state = apps[c].state /\ apps'[c].flags = apps[c].flags
  <2>1. PICK time \in -1 .. Lead : time = IF apps[c].timestamp = -1 THEN -1
                                          ELSE apps[c].timestamp - 1
    <3>1. apps[c].timestamp \in -1 .. Lead /\ Lead \in Nat
        BY <1>1, Constants DEF Shapes, AppRecords
    <3> QED BY <3>1
  <2>2. PICK since \in 0 .. CommitDelay :
            since = IF c \in TimedApps /\ CommitUnderWay(c) THEN apps[c].released + 1
                    ELSE apps[c].released
    <3>1. apps[c].released \in 0 .. CommitDelay /\ CommitDelay \in Nat
        BY <1>1, Constants DEF Shapes, AppRecords
    <3>2. c \in TimedApps /\ CommitUnderWay(c) => apps[c].released < CommitDelay
        BY <1>2
    <3> QED BY <3>1, <3>2
  <2>3. apps'[c] = [apps[c] EXCEPT !.timestamp = time, !.released = since]
      BY <1>2, <2>1, <2>2
  <2>4. apps[c] \in AppRecords
      BY <1>1 DEF Shapes
  <2> QED BY <2>3, <2>4 DEF AppRecords
<1>4. ASSUME NEW sw \in Switches
      PROVE  /\ stores'[sw] \in Stores
             /\ stores'[sw].runningLock = stores[sw].runningLock
             /\ stores'[sw].candidateLock = stores[sw].candidateLock
             /\ stores'[sw].commitOperation = stores[sw].commitOperation
  <2>1. stores[sw] \in Stores
      BY <1>1 DEF Shapes
  <2>2. stores'[sw] = [stores[sw] EXCEPT !.timedCommits = 1] \/ stores'[sw] = stores[sw]
      BY <1>2
  <2> QED BY <2>1, <2>2 DEF Stores
<1>5. Shapes'
  <2>1. apps' \in [Sessions -> AppRecords] /\ stores' \in [Switches -> Stores]
      BY <1>2, <1>3, <1>4
  <2> QED BY <1>1, <1>2, <2>1 DEF Shapes, Apps
<1>6. ASSUME NEW d \in Apps, NEW s \in Switches PROVE Kept(d, s)
  <2>1. Untouched(d, s) /\ apps'[d].state = apps[d].state
      BY <1>2, <1>3 DEF Untouched, Has, Apps
  <2> QED BY <1>2, <1>4, <2>1, KeptUntouched
<1> QED BY <1>2, <1>5, <1>6, KeptInv

LEMMA TimedCommitFacts ==
    ASSUME NEW d \in Stores, d.timedCommits > 0
    PROVE  LET o == executeTimedCommit(d) IN
           /\ o.stores \in Stores /\ o.reply \in {"ok", "error"}
           /\ o.stores.runningLock = d.runningLock /\ o.stores.candidateLock = d.candidateLock
           /\ o.stores.running = d.running \cup Applied(d) /\ o.stores.candidate = << >>
           /\ o.stores.commitTimestamp = NoSession /\ o.stores.commitOperation = NoSession
           /\ o.stores.timedCommits = d.timedCommits - 1
<1>1. PICK done \in Stores :
          /\ applyTo(d) = Ok(done) \/ applyTo(d) = Error(done)
          /\ done.runningLock = d.runningLock /\ done.candidateLock = d.candidateLock
          /\ done.running = d.running \cup Applied(d) /\ done.candidate = << >>
          /\ done.timedCommits = d.timedCommits
    BY ApplyFacts
<1>2. PICK timer \in Nat : timer = done.timedCommits - 1
    BY <1>1 DEF Stores
<1>3. PICK e : e = [done EXCEPT !.commitTimestamp = NoSession, !.commitOperation = NoSession,
                                !.timedCommits = timer]
    OBVIOUS
<1>4. /\ e \in Stores
      /\ e.runningLock = done.runningLock /\ e.candidateLock = done.candidateLock
      /\ e.running = done.running /\ e.candidate = done.candidate
      /\ e.commitTimestamp = NoSession /\ e.commitOperation = NoSession
      /\ e.timedCommits = timer
    BY <1>3 DEF Stores
<1>5. applyTo(d).stores = done /\ applyTo(d).reply \in {"ok", "error"}
    BY <1>1 DEF Ok, Error
<1>6. executeTimedCommit(d) = [stores |-> e, reply |-> applyTo(d).reply]
    BY <1>2, <1>3, <1>5 DEF executeTimedCommit
<1> QED BY <1>1, <1>2, <1>4, <1>5, <1>6

LEMMA TimedCommitStep ==
    ASSUME ProtocolInv, NEW sw \in Switches, TimedCommit(sw)
    PROVE  ProtocolInv'
<1>1. Shapes /\ stores[sw] \in Stores
    BY DEF ProtocolInv, Shapes
<1>2. PICK o, b, d : /\ d = stores[sw] /\ o = executeTimedCommit(d)
                     /\ b = stores[sw].commitOperation
    OBVIOUS
<1>3. PICK reply : reply = [id |-> "Commit approved", n |-> 0, status |-> o.reply]
    OBVIOUS
<1>4. /\ d.timedCommits > 0 /\ stores' = [stores EXCEPT ![sw] = o.stores]
      /\ replies' = [replies EXCEPT ![b][sw] = Append(@, reply)]
      /\ plan' = plan /\ apps' = apps /\ requests' = requests /\ aborted' = aborted
    BY <1>2, <1>3 DEF TimedCommit
<1>5. /\ o.stores \in Stores /\ o.reply \in {"ok", "error"}
      /\ o.stores.runningLock = d.runningLock /\ o.stores.candidateLock = d.candidateLock
      /\ o.stores.commitOperation = NoSession
    BY <1>1, <1>2, <1>4, TimedCommitFacts
<1>6. reply \in Replies /\ "Commit approved" \in Ids
    BY <1>3, <1>5, MessageFacts, Names
<1>7. /\ replies' \in [Sessions -> [Switches -> Seq(Replies)]]
      /\ \A e \in Sessions, s \in Switches : e # b \/ s # sw => replies'[e][s] = replies[e][s]
      /\ b \in Sessions => replies'[b][sw] = Append(replies[b][sw], reply)
  <2>1. replies \in [Sessions -> [Switches -> Seq(Replies)]]
      BY <1>1 DEF Shapes
  <2>2. CASE b \notin Sessions
    <3>1. replies' = replies
        BY <1>4, <2>1, <2>2
    <3> QED BY <2>1, <2>2, <3>1
  <2>3. CASE b \in Sessions
    <3>1. replies[b][sw] \in Seq(Replies)
        BY <2>1, <2>3
    <3>2. PICK longer \in Seq(Replies) : longer = Append(replies[b][sw], reply)
      <4>1. reply \in Replies
          BY <1>6
      <4>2. Append(replies[b][sw], reply) \in Seq(Replies)
          BY <3>1, <4>1
      <4> QED BY <4>2, Zenon
    <3>3. replies' = [replies EXCEPT ![b] = [replies[b] EXCEPT ![sw] = longer]]
        BY <1>4, <3>2
    <3>4. replies' \in [Sessions -> [Switches -> Seq(Replies)]]
        BY <2>1, <2>3, <3>2, <3>3
    <3>5. \A e \in Sessions, s \in Switches : e # b \/ s # sw => replies'[e][s] = replies[e][s]
        BY <2>1, <2>3, <3>3
    <3>6. replies'[b][sw] = longer
        BY <2>1, <2>3, <3>3
    <3> QED BY <3>2, <3>4, <3>5, <3>6
  <2> QED BY <2>2, <2>3
<1>8. stores'[sw] = o.stores /\ \A s \in Switches \ {sw} : stores'[s] = stores[s]
    BY <1>1, <1>4 DEF Shapes
<1>9. Shapes'
  <2>1. stores' \in [Switches -> Stores]
      BY <1>1, <1>4, <1>5 DEF Shapes
  <2> QED BY <1>1, <1>4, <1>7, <2>1 DEF Shapes, Apps
<1>10. ASSUME NEW e \in Apps, NEW s \in Switches, e # b \/ s # sw PROVE Kept(e, s)
  <2>1. Untouched(e, s)
      BY <1>4, <1>7, <1>10 DEF Untouched, Has, Apps
  <2>2. stores'[s].commitOperation = e <=> stores[s].commitOperation = e
    <3>1. e # NoSession
        BY NoSessionAssumption DEF Apps
    <3> QED BY <1>2, <1>5, <1>8, <1>10, <3>1
  <2>3. /\ stores'[s].runningLock = stores[s].runningLock
        /\ stores'[s].candidateLock = stores[s].candidateLock
      BY <1>2, <1>5, <1>8
  <2> QED BY <1>4, <2>1, <2>2, <2>3, KeptUntouched
<1>11. ASSUME b \in Apps PROVE Kept(b, sw)
  <2>1. /\ apps[b].state = "WaitOnCommitExecution"
        /\ Silent(b, sw) /\ ~ Has(b, sw, "Commited")
      BY <1>2, <1>11 DEF ProtocolInv, CommitAwaited
  <2>2. /\ InCommit(b, sw)
        /\ stores[sw].runningLock = b <=> Owns(b, sw)
        /\ stores[sw].candidateLock = b <=> OwnsCandidate(b, sw)
      BY <1>11, <2>1, ConversationFacts, InStateCases
  <2>3. PICK status \in {"ok", "error"} : status = o.reply
      BY <1>5
  <2>4. Replied(b, sw, "Commit approved", 0, status)'
    <3>1. requests'[b][sw] = << >> /\ replies[b][sw] = << >>
        BY <1>4, <2>1 DEF Silent
    <3>2. replies'[b][sw] = << reply >>
      <4>1. Append(<< >>, reply) = << reply >>
          OBVIOUS
      <4> QED BY <1>7, <1>11, <3>1, <4>1 DEF Apps
    <3> QED BY <1>3, <2>3, <3>1, <3>2 DEF Replied
  <2>5. \A flag : Has(b, sw, flag)' <=> Has(b, sw, flag)
      BY <1>4 DEF Has
  <2>6. Talks(b, sw, "Commit approved", 0)'
      BY <2>4 DEF Talks
  <2>7. InCommit(b, sw)'
      BY <2>1, <2>2, <2>5, <2>6 DEF InCommit, HasAll
  <2>8. InState(b, sw, apps[b].state)'
      BY <1>4, <2>1, <2>7 DEF InState
  <2>9. Owns(b, sw) /\ Owns(b, sw)' /\ OwnsCandidate(b, sw) /\ OwnsCandidate(b, sw)'
    <3>1. \A id, n, st : ~ Replied(b, sw, id, n, st)
        BY <2>1, Spoken DEF OneThing
    <3>2. \A id, n, st : Replied(b, sw, id, n, st)' => id = "Commit approved"
        BY <2>4, Spoken DEF OneThing
    <3> QED BY <2>2, <2>5, <3>1, <3>2 DEF Owns, OwnsCandidate, InCommit, HasAll, Staged
  <2>10. stores'[sw].commitOperation # b
      BY <1>5, <1>8, <1>11, NoSessionAssumption DEF Apps
  <2> QED BY <1>2, <1>4, <1>5, <1>8, <2>1, <2>2, <2>5, <2>8, <2>9, <2>10 DEF Kept
<1>12. \A e \in Apps, s \in Switches : Kept(e, s)
    BY <1>10, <1>11
<1> QED BY <1>4, <1>9, <1>12, KeptInv

LEMMA OtherOutcomeSpares ==
    ASSUME NEW d \in Stores, NEW c \in Sessions, NEW o \in OtherOutcomes(d, c)
    PROVE  Spares(d, c, o.stores)
<1>1. \/ \E target \in {"running", "candidate"} : o = handleLock(d, target, c)
      \/ \E target \in {"running", "candidate"} : o = handleUnlock(d, target, c)
      \/ \E source \in {"running", "candidate"} : o = handleCopyConfig(d, source, c)
      \/ o = handleDeleteConfig(d, "candidate", c) \/ o = handleCommit(d, c)
      \/ \E target \in {"running", "candidate"}, change \in ChangesOfOthers :
            o = handleEditConfig(d, target, c, change)
    BY DEF OtherOutcomes
<1>2. ASSUME NEW target \in {"running", "candidate"}, o = handleLock(d, target, c)
      PROVE  Spares(d, c, o.stores)
    BY <1>2, LockOutcome DEF Outcome
<1>3. ASSUME NEW target \in {"running", "candidate"}, o = handleUnlock(d, target, c)
      PROVE  Spares(d, c, o.stores)
    BY <1>3, UnlockOutcome DEF Outcome
<1>4. ASSUME NEW source \in {"running", "candidate"}, o = handleCopyConfig(d, source, c)
      PROVE  Spares(d, c, o.stores)
    BY <1>4, CopyOutcome DEF Outcome
<1>5. ASSUME NEW target \in {"running", "candidate"}, NEW change \in ChangesOfOthers,
             o = handleEditConfig(d, target, c, change)
      PROVE  Spares(d, c, o.stores)
  <2>1. change \in Changes
      BY Constants
  <2> QED BY <1>5, <2>1, EditOutcome DEF Outcome
<1>6. o = handleDeleteConfig(d, "candidate", c) => Spares(d, c, o.stores)
    BY DeleteOutcome DEF Outcome
<1>7. o = handleCommit(d, c) => Spares(d, c, o.stores)
    BY CommitOutcome DEF Outcome
<1> QED BY <1>1, <1>2, <1>3, <1>4, <1>5, <1>6, <1>7

(* Another client cannot disturb what an app has locked.                   *)
LEMMA OtherClientStep ==
    ASSUME ProtocolInv, NEW c \in Sessions \ Apps, NEW sw \in Switches, OtherClient(c, sw)
    PROVE  ProtocolInv'
<1>1. Shapes /\ stores[sw] \in Stores
    BY DEF ProtocolInv, Shapes
<1>2. PICK o \in OtherOutcomes(stores[sw], c) : stores' = [stores EXCEPT ![sw] = o.stores]
    BY DEF OtherClient
<1>3. /\ apps' = apps /\ plan' = plan /\ requests' = requests /\ replies' = replies
      /\ aborted' = aborted
    BY DEF OtherClient
<1>4. Spares(stores[sw], c, o.stores)
    BY <1>1, OtherOutcomeSpares
<1>5. stores'[sw] = o.stores /\ \A s \in Switches \ {sw} : stores'[s] = stores[s]
    BY <1>1, <1>2 DEF Shapes
<1>6. Shapes'
  <2>1. stores' \in [Switches -> Stores]
      BY <1>1, <1>2, <1>4 DEF Shapes, Spares
  <2> QED BY <1>1, <1>3, <2>1 DEF Shapes, Apps
<1>7. ASSUME NEW d \in Apps, NEW s \in Switches PROVE Kept(d, s)
  <2>1. Untouched(d, s)
      BY <1>3 DEF Untouched, Has
  <2>2. CASE s = sw
      BY <1>3, <1>4, <1>5, <2>1, <2>2, KeptSpared
  <2>3. CASE s # sw
      BY <1>3, <1>5, <2>1, <2>3, KeptUntouched
  <2> QED BY <2>2, <2>3
<1> QED BY <1>3, <1>6, <1>7, KeptInv

-----------------------------------------------------------------------------
(* The types and the belief in the locks follow from the protocol.         *)
LEMMA ProtocolTypes ==
    ASSUME ProtocolInv
    PROVE  TransactionTypeOK
<1>1. Shapes
    BY DEF ProtocolInv
<1>2. \A sw \in Switches : stores[sw] \in Stores
    BY <1>1 DEF Shapes
<1>3. ASSUME NEW c \in Apps
      PROVE  /\ apps[c].flags \in [Switches -> SUBSET Flags] /\ apps[c].result \in BOOLEAN
             /\ apps[c].timestamp \in -1 .. Lead /\ apps[c].released \in 0 .. CommitDelay
  <2>1. apps[c] \in AppRecords
      BY <1>1 DEF Shapes, Apps
  <2> QED BY <2>1 DEF AppRecords
<1>4. ASSUME NEW c \in Apps, NEW sw \in Switches
      PROVE  Len(requests[c][sw]) + Len(replies[c][sw]) <= 1
  <2>1. \A x : Len(<< x >>) = 1
      OBVIOUS
  <2>2. Len(<< >>) = 0
      OBVIOUS
  <2>3. PICK id, n : Silent(c, sw) \/ Talks(c, sw, id, n)
      BY TopicFacts
  <2>4. CASE Silent(c, sw)
      BY <2>2, <2>4 DEF Silent
  <2>5. CASE Asked(c, sw, id, n)
      BY <2>1, <2>2, <2>5 DEF Asked
  <2>6. CASE \E status \in {"ok", "error"} : Replied(c, sw, id, n, status)
      BY <2>1, <2>2, <2>6 DEF Replied
  <2> QED BY <2>3, <2>4, <2>5, <2>6 DEF Talks
<1> QED BY <1>2, <1>3, <1>4 DEF TransactionTypeOK

LEMMA ProtocolBelief ==
    ASSUME ProtocolInv
    PROVE  LockBelief
<1> SUFFICES ASSUME NEW c \in Apps, NEW sw \in Switches,
                    "LockedRunning" \in apps[c].flags[sw], apps[c].state # "WaitOnUnlock"
             PROVE  stores[sw].runningLock = c
    BY DEF LockBelief
<1>1. Has(c, sw, "LockedRunning")
    BY DEF Has
<1>2. ASSUME Replied(c, sw, "Unlock", 0, "ok")
      PROVE  FALSE
  <2>1. ~ Silent(c, sw) /\ \A i, m : Talks(c, sw, i, m) => i = "Unlock"
      BY <1>2, OnlyReply
  <2>2. PICK id \in Ids, n \in Nat : Talks(c, sw, id, n) /\ Topic(c, sw, id, n)
      BY <2>1, TopicFacts
  <2>3. id = "Unlock"
      BY <2>1, <2>2
  <2> QED BY <1>1, <2>2, <2>3 DEF Topic
<1>3. Owns(c, sw)
    BY <1>1, <1>2 DEF Owns
<1> QED BY <1>3 DEF ProtocolInv, LocksOwned

-----------------------------------------------------------------------------
(* The error that ends the simulation consumes a reply and nothing else.   *)
LEMMA AbortKeeps ==
    ASSUME ProtocolInv, NEW c \in Apps, NEW sw \in Switches, checkEventHandled(c, sw)
    PROVE  aborted' /\ TransactionTypeOK' /\ LockBelief'
<1>1. TransactionTypeOK /\ LockBelief /\ Shapes
    BY ProtocolTypes, ProtocolBelief DEF ProtocolInv
<1>2. /\ aborted' = TRUE /\ stores' = stores /\ plan' = plan /\ apps' = apps
      /\ requests' = requests
      /\ replies' = [replies EXCEPT ![c] = [replies[c] EXCEPT ![sw] = Tail(replies[c][sw])]]
      /\ replies[c][sw] # << >>
    BY DEF checkEventHandled, Receive
<1>3. Apps' = Apps
    BY <1>2 DEF Apps
<1>4. ASSUME NEW d \in Apps, NEW s \in Switches
      PROVE  Len(requests'[d][s]) + Len(replies'[d][s]) <= 1
  <2>1. Len(requests[d][s]) + Len(replies[d][s]) <= 1
      BY <1>1 DEF TransactionTypeOK
  <2>2. replies[d][s] \in Seq(Replies) /\ requests[d][s] \in Seq(Requests)
      BY <1>1 DEF Shapes, Apps
  <2>3. CASE d = c /\ s = sw
    <3>1. replies'[d][s] = Tail(replies[d][s])
      <4>1. replies[c] \in [Switches -> Seq(Replies)] /\ c \in DOMAIN replies
          BY <1>1 DEF Shapes, Apps
      <4>2. replies'[c] = [replies[c] EXCEPT ![sw] = Tail(replies[c][sw])]
          BY <1>2, <4>1
      <4> QED BY <2>3, <4>1, <4>2
    <3>2. PICK r : r = replies[d][s]
        OBVIOUS
    <3>3. r \in Seq(Replies) /\ r # << >>
        BY <1>2, <2>2, <2>3, <3>2
    <3>4. Len(Tail(r)) = Len(r) - 1 /\ Len(r) \in Nat
        BY <3>3
    <3>5. PICK q : q = requests[d][s]
        OBVIOUS
    <3>6. Len(q) \in Nat /\ Len(q) + Len(r) <= 1
      <4>1. q \in Seq(Requests)
          BY <2>2, <3>5
      <4>2. Len(q) \in Nat
          BY <4>1
      <4> QED BY <2>1, <3>2, <3>5, <4>2
    <3>7. Len(q) + Len(Tail(r)) <= 1
        BY <3>4, <3>6
    <3> QED BY <1>2, <3>1, <3>2, <3>5, <3>7
  <2>4. CASE ~ (d = c /\ s = sw)
    <3>1. replies'[d][s] = replies[d][s]
      <4>1. /\ DOMAIN replies = Sessions /\ c \in Sessions /\ d \in Sessions
            /\ DOMAIN replies[c] = Switches
          BY <1>1 DEF Shapes, Apps
      <4>2. PICK f : f = [replies[c] EXCEPT ![sw] = Tail(replies[c][sw])]
          OBVIOUS
      <4>3. s # sw => f[s] = replies[c][s]
          BY <4>1, <4>2
      <4>4. replies' = [replies EXCEPT ![c] = f]
          BY <1>2, <4>2
      <4> QED BY <2>4, <4>1, <4>3, <4>4
    <3> QED BY <1>2, <2>1, <3>1
  <2> QED BY <2>3, <2>4
<1>5. TransactionTypeOK'
    BY <1>1, <1>2, <1>3, <1>4 DEF TransactionTypeOK
<1>6. LockBelief'
    BY <1>1, <1>2, <1>3 DEF LockBelief
<1> QED BY <1>2, <1>5, <1>6

(* The protocol holds until the simulation ends in an error; what it means *)
(* for types and locks holds even then.                                    *)
TransactionInv ==
    /\ aborted \/ ProtocolInv
    /\ TransactionTypeOK
    /\ LockBelief

LEMMA InitInv ==
    ASSUME Init
    PROVE  TransactionInv
<1>1. PICK uninitialised \in SUBSET Apps :
          apps = [c \in Sessions |-> [state     |-> "BeginOfTransaction",
                                      flags     |-> [sw \in Switches |-> {}],
                                      result    |-> c \in uninitialised,
                                      timestamp |-> -1, released |-> 0]]
    BY DEF Init
<1>2. /\ stores = [sw \in Switches |-> StoresInit]
      /\ plan \in [Sessions -> UNION {Plans[c] : c \in Sessions}]
      /\ \A c \in Sessions : plan[c] \in Plans[c]
      /\ requests = [c \in Sessions |-> ToNone] /\ replies = [c \in Sessions |-> ToNone]
      /\ aborted = FALSE
    BY DEF Init
<1>3. StoresInit \in Stores /\ StoresInit.runningLock = NoSession
      /\ StoresInit.candidateLock = NoSession /\ StoresInit.commitOperation = NoSession
  <2>1. << >> \in Seq(Changes) /\ {} \in SUBSET Changes
      OBVIOUS
  <2> QED BY <2>1 DEF StoresInit, Stores
<1>4. ASSUME NEW c \in Sessions
      PROVE  /\ apps[c] \in AppRecords /\ apps[c].state = "BeginOfTransaction"
             /\ \A sw \in Switches : apps[c].flags[sw] = {}
  <2>1. [sw \in Switches |-> {}] \in [Switches -> SUBSET Flags]
      OBVIOUS
  <2>2. -1 \in -1 .. Lead /\ 0 \in 0 .. CommitDelay
      BY Constants
  <2>3. (c \in uninitialised) \in BOOLEAN
      OBVIOUS
  <2>4. "BeginOfTransaction" \in States
      BY DEF States
  <2> DEFINE none == [sw \in Switches |-> {}]
  <2>5. none \in [Switches -> SUBSET Flags] /\ \A sw \in Switches : none[sw] = {}
      OBVIOUS
  <2>6. apps[c] = [state |-> "BeginOfTransaction", flags |-> none,
                   result |-> c \in uninitialised, timestamp |-> -1, released |-> 0]
      BY <1>1
  <2> HIDE DEF none
  <2> QED BY <2>2, <2>3, <2>4, <2>5, <2>6 DEF AppRecords
<1>5. ASSUME NEW c \in Sessions, NEW sw \in Switches
      PROVE  requests[c][sw] = << >> /\ replies[c][sw] = << >>
    BY <1>2, ToNoneFacts
<1>6. Shapes
  <2>1. stores \in [Switches -> Stores]
      BY <1>2, <1>3
  <2>2. ASSUME NEW c \in Apps
        PROVE  plan[c] \in [Switches -> Seq(Changes) \ {<< >>}]
    <3>1. c \in Sessions /\ plan[c] # PlainClient
        BY DEF Apps
    <3> QED BY <1>2, <3>1, Constants
  <2>3. apps \in [Sessions -> AppRecords]
    <3>1. DOMAIN apps = Sessions /\ apps = [c \in Sessions |-> apps[c]]
        BY <1>1
    <3> QED BY <1>4, <3>1
  <2>4. requests \in [Sessions -> [Switches -> Seq(Requests)]]
      BY <1>2, ToNoneFacts DEF Sending
  <2>5. replies \in [Sessions -> [Switches -> Seq(Replies)]]
    <3>1. << >> \in Seq(Replies)
        OBVIOUS
    <3>2. ToNone \in [Switches -> Seq(Replies)]
        BY <3>1 DEF ToNone
    <3> QED BY <1>2, <3>2
  <2> QED BY <1>2, <2>1, <2>2, <2>3, <2>4, <2>5 DEF Shapes
<1>7. ASSUME NEW c \in Apps, NEW sw \in Switches
      PROVE  /\ Silent(c, sw) /\ \A flag : ~ Has(c, sw, flag)
             /\ apps[c].state = "BeginOfTransaction"
    BY <1>4, <1>5 DEF Apps, Silent, Has
<1>8. Protocol
  <2> SUFFICES ASSUME NEW c \in Apps
               PROVE  Conversation(c)
      BY DEF Protocol
  <2>1. apps[c].state = "BeginOfTransaction"
      BY <1>4 DEF Apps
  <2>2. \A sw \in Switches : InState(c, sw, "BeginOfTransaction")
      BY <1>7 DEF InState, InBegin, HasNone
  <2> QED BY <2>1, <2>2 DEF Conversation
<1>9. LocksOwned /\ CommitAwaited
  <2>1. ASSUME NEW c \in Apps, NEW sw \in Switches
        PROVE  /\ ~ Owns(c, sw) /\ ~ OwnsCandidate(c, sw)
               /\ stores[sw].runningLock # c /\ stores[sw].candidateLock # c
               /\ stores[sw].commitOperation # c
    <3>1. \A id, n, status : ~ Replied(c, sw, id, n, status)
        BY <1>7, Spoken DEF OneThing
    <3>2. ~ Owns(c, sw) /\ ~ OwnsCandidate(c, sw)
        BY <1>7, <3>1 DEF Owns, OwnsCandidate
    <3>3. stores[sw] = StoresInit /\ c # NoSession
        BY <1>2, NoSessionAssumption DEF Apps
    <3> QED BY <1>3, <3>2, <3>3
  <2> QED BY <2>1 DEF LocksOwned, CommitAwaited
<1>10. ProtocolInv
    BY <1>6, <1>8, <1>9 DEF ProtocolInv
<1> QED BY <1>10, ProtocolTypes, ProtocolBelief DEF TransactionInv

(* Nothing happens any more once a cRuntimeError was thrown.               *)
LEMMA GoesOn ==
    ASSUME Next
    PROVE  ~ aborted
<1>1. ASSUME NEW c \in Apps, AppStep(c)
      PROVE  ~ aborted
  <2>1. ASSUME NEW sw \in Switches, NEW state, NEW id, NEW status,
               Receive(c, sw, state, id, status)
        PROVE  ~ aborted
      BY <2>1 DEF Receive
  <2>2. ASSUME NEW sw \in Switches, handleMessageInWaitOnChangeConfirmation(c, sw)
        PROVE  ~ aborted
      BY <2>1, <2>2 DEF handleMessageInWaitOnChangeConfirmation
  <2>3. ASSUME NEW sw \in Switches,
               \/ handleMessageInWaitOnLockResponse(c, sw)
               \/ handleMessageInWaitOnCandidateConfirmation(c, sw)
               \/ handleMessageInWaitOnTimestampConfirmation(c, sw)
        PROVE  ~ aborted
      BY <2>1, <2>3 DEF handleMessageInWaitOnLockResponse,
                        handleMessageInWaitOnCandidateConfirmation,
                        handleMessageInWaitOnTimestampConfirmation
  <2>4. ASSUME NEW sw \in Switches,
               \/ handleMessageInWaitOnCandidateLockResponse(c, sw)
               \/ handleMessageInWaitOnCommitExecution(c, sw)
               \/ handleMessageInWaitOnDeleteOldConfiguration(c, sw)
               \/ handleMessageInWaitOnDeleteCandidate(c, sw)
               \/ handleMessageInWaitOnUnlock(c, sw)
        PROVE  ~ aborted
      BY <2>1, <2>4 DEF handleMessageInWaitOnCandidateLockResponse,
                        handleMessageInWaitOnCommitExecution,
                        handleMessageInWaitOnDeleteOldConfiguration,
                        handleMessageInWaitOnDeleteCandidate, handleMessageInWaitOnUnlock
  <2>5. ASSUME NEW sw \in Switches, checkEventHandled(c, sw)
        PROVE  ~ aborted
      BY <2>1, <2>5 DEF checkEventHandled
  <2>6. ASSUME handleMessageInBeginOfTransaction(c) \/ handleMessageInErrorState(c)
        PROVE  ~ aborted
      BY <2>6 DEF handleMessageInBeginOfTransaction, handleMessageInErrorState
  <2> QED BY <1>1, <2>2, <2>3, <2>4, <2>5, <2>6 DEF AppStep
<1>2. ASSUME NEW c \in Apps, NEW sw \in Switches, Serve(c, sw)
      PROVE  ~ aborted
    BY <1>2 DEF Serve
<1>3. ASSUME newCycle
      PROVE  ~ aborted
    BY <1>3 DEF newCycle
<1>4. ASSUME NEW sw \in Switches, TimedCommit(sw)
      PROVE  ~ aborted
    BY <1>4 DEF TimedCommit
<1>5. ASSUME NEW c \in Sessions \ Apps, NEW sw \in Switches, OtherClient(c, sw)
      PROVE  ~ aborted
    BY <1>5 DEF OtherClient
<1> QED BY <1>1, <1>2, <1>3, <1>4, <1>5 DEF Next

LEMMA ProtocolMeans == ProtocolInv => TransactionTypeOK /\ LockBelief
BY ProtocolTypes, ProtocolBelief

LEMMA NextInv ==
    ASSUME TransactionInv, [Next]_transactionVars
    PROVE  TransactionInv'
<1>1. CASE UNCHANGED transactionVars
  <2>1. Apps' = Apps
      BY <1>1 DEF Apps, transactionVars
  <2>2. ProtocolInv' <=> ProtocolInv
      BY <1>1, <2>1 DEF transactionVars, ProtocolInv, Shapes, Protocol, Conversation, InState,
         InBegin, InLock, InCopy, InCandidateLock, InChange, InTimestamp, InCommit, InDeleteOld,
         InError, InDelete, InUnlock, InEnd, LocksOwned, CommitAwaited, Owns, OwnsCandidate,
         AskedUnless, Silent, Asked, Replied, Talks, Has, HasAll, HasNone
  <2>3. TransactionTypeOK' /\ LockBelief' /\ (aborted' <=> aborted)
      BY <1>1, <2>1 DEF transactionVars, TransactionInv, TransactionTypeOK, LockBelief
  <2> QED BY <2>2, <2>3 DEF TransactionInv
<1>2. CASE Next
  <2>1. ProtocolInv
      BY <1>2, GoesOn DEF TransactionInv
  <2>2. ASSUME NEW c \in Apps, AppStep(c)
        PROVE  ProtocolInv' \/ \E sw \in Switches : checkEventHandled(c, sw)
      BY <2>1, <2>2, AppStepInv
  <2>3. ProtocolInv' \/ \E c \in Apps, sw \in Switches : checkEventHandled(c, sw)
      BY <1>2, <2>1, <2>2, ServeStep, CycleStep, TimedCommitStep, OtherClientStep DEF Next
  <2>4. CASE \E c \in Apps, sw \in Switches : checkEventHandled(c, sw)
      BY <2>1, <2>4, AbortKeeps DEF TransactionInv
  <2>5. CASE ProtocolInv'
    <3>1. ProtocolInv' => TransactionTypeOK' /\ LockBelief'
        BY ProtocolMeans, PTL
    <3> QED BY <2>5, <3>1 DEF TransactionInv
  <2> QED BY <2>3, <2>4, <2>5
<1> QED BY <1>1, <1>2

(* The invariant of the transactions, for every number of switches, every  *)
(* set of controllers and plain clients and every configuration: a         *)
(* controller and a switch exchange one message at a time, of the phase    *)
(* the controller is in, and a controller holds the locks of a switch      *)
(* exactly from the reply that grants them to the reply that takes them    *)
(* back, whatever the other sessions do in between.                        *)
THEOREM TransactionInvHolds == Spec => []TransactionInv
<1>1. Init => TransactionInv
    BY InitInv
<1>2. TransactionInv /\ [Next]_transactionVars => TransactionInv'
    BY NextInv
<1> QED BY <1>1, <1>2, PTL DEF Spec

(* The stores, flags, timestamps and counters keep their types, and        *)
(* between a transaction app and a switch at most one RPC or its reply is  *)
(* under way: the app sends the next request only after the answer.        *)
THEOREM TransactionTypeCorrect == Spec => []TransactionTypeOK
<1>1. TransactionInv => TransactionTypeOK
    BY DEF TransactionInv
<1> QED BY <1>1, TransactionInvHolds, PTL

(* hasLockedRunning of a TransactionApp is the truth about the lock of the *)
(* running store of the switch until the app asks to unlock it.            *)
THEOREM LockBeliefHolds == Spec => []LockBelief
<1>1. TransactionInv => LockBelief
    BY DEF TransactionInv
<1> QED BY <1>1, TransactionInvHolds, PTL
=============================================================================
