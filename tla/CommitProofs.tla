---------------------------- MODULE CommitProofs ----------------------------
(***************************************************************************)
(* What a transaction commits (TransactionModel.tla): proofs that a switch *)
(* applies exactly the changes of the transaction, that a transaction that *)
(* ended changed all switches or none and left nothing behind, and that    *)
(* the changes of a time-synchronous transaction take effect in its cycle. *)
(***************************************************************************)
EXTENDS TransactionProofs

(* A time-synchronous controller that gives up leaves its timestamp in the *)
(* stores.  The commit of a client that is not a TransactionApp is then    *)
(* scheduled, and executes in a later transaction of another controller.   *)
(* The results below are about networks without that encounter: all        *)
(* clients are TransactionApps, or the time-synchronous one is the only    *)
(* TransactionApp, or there is none.                                       *)
Undisturbed == \A c \in Apps \cap TimedApps : Apps = Sessions \/ Apps = {c}

-----------------------------------------------------------------------------
Early == {"BeginOfTransaction", "WaitOnLockResponse", "WaitOnCandidateConfirmation",
          "WaitOnCandidateLockResponse", "WaitOnChangeConfirmation"}
Leaving == {"WaitOnUnlock", "EndOfTransaction"}

Holds(c, sw) == stores[sw].runningLock = c /\ stores[sw].candidateLock = c

(* The timestamp and the scheduled commit of a switch.                     *)
Timer(sw) ==
    LET d == stores[sw] IN
    /\ d.timedCommits \in {0, 1}
    /\ d.timedCommits = 1 => d.commitOperation # NoSession
    /\ d.commitOperation # NoSession => d.commitTimestamp # NoSession
    /\ d.commitTimestamp # NoSession =>
          /\ d.commitTimestamp \in Apps \cap TimedApps
          /\ apps[d.commitTimestamp].state \notin Early
    /\ d.commitOperation \in Sessions \ Apps =>
          \A c \in Apps : apps[c].state \in Leaving /\ d.runningLock # c

(* The first n changes of the plan t.                                      *)
FirstOf(s, t, n) == Len(s) = n /\ \A i \in 1 .. n : s[i] = t[i]

Did(c, sw) == Has(c, sw, "Commited") \/ Replied(c, sw, "Commit approved", 0, "ok")
Failed(c, sw) == Replied(c, sw, "Commit approved", 0, "error")

Stamped(c, sw) == Has(c, sw, "CommitTimeStamp") \/ Replied(c, sw, "Timestamp", 0, "ok")

Unfailed(c) == \A s \in Switches : ~ Has(c, s, "Error")

(* While the app stages its changes: what the candidate store holds when   *)
(* a change is on its way, was accepted, and when all are done.            *)
Staging(c, sw) ==
    /\ \A n \in 1 .. Len(plan[c][sw]) :
          /\ Asked(c, sw, "Change", n) => FirstOf(stores[sw].candidate, plan[c][sw], n - 1)
          /\ Replied(c, sw, "Change", n, "ok") => FirstOf(stores[sw].candidate, plan[c][sw], n)
    /\ Has(c, sw, "Configuration") /\ Unfailed(c) => stores[sw].candidate = plan[c][sw]

(* What the candidate store of a switch contains while the app holds it.   *)
Expected(c, sw) ==
    /\ apps[c].state = "WaitOnCandidateLockResponse" => stores[sw].candidate = << >>
    /\ apps[c].state = "WaitOnChangeConfirmation" => Staging(c, sw)
    /\ apps[c].state = "WaitOnTimestampConfirmation" => stores[sw].candidate = plan[c][sw]
    /\ apps[c].state = "WaitOnCommitExecution" =>
          stores[sw].candidate = plan[c][sw] \/ Did(c, sw) \/ Failed(c, sw)

CandidatesOwned == \A c \in Apps, sw \in Switches : Holds(c, sw) => Expected(c, sw)

TimestampsTimed ==
    \A c \in Apps : apps[c].state = "WaitOnTimestampConfirmation" => c \in TimedApps

CommitInv ==
    /\ Undisturbed /\ TimestampsTimed
    /\ \A sw \in Switches : Timer(sw)
    /\ CandidatesOwned

-----------------------------------------------------------------------------
(* The steps of an app.                                                    *)

(* Where a step of the app leads, a being the app with its flags set.      *)
Turn(c, a, next, out) ==
    /\ apps[c].state \notin Early => next \notin Early
    /\ apps[c].state \in Leaving => next \in Leaving
    /\ next = "WaitOnTimestampConfirmation" =>
          apps[c].state = next \/ (apps[c].state \in Early /\ c \in TimedApps)
    /\ a.released = apps[c].released
    /\ \/ a.timestamp = apps[c].timestamp
       \/ /\ apps[c].state = "WaitOnChangeConfirmation"
          /\ next = "WaitOnTimestampConfirmation"
    /\ next = "WaitOnCommitExecution" =>
          \/ apps[c].state = next /\ out = ToNone
          \/ /\ apps[c].state # next
             /\ c \in TimedApps => /\ apps[c].state = "WaitOnTimestampConfirmation"
                                   /\ a.timestamp > ReleaseLead

(* The app handles the reply i of a switch.                                *)
Reacts(c, sw, i, status, set, reset, a, next, out) ==
    /\ Receive(c, sw, apps[c].state, i, status)
    /\ Flagged(c, sw, set, reset, a) /\ next \in States
    /\ Sending(out) /\ Enter(c, a, next, out)
    /\ "Commited" \notin reset /\ "CommitTimeStamp" \notin reset
    /\ "Commited" \in set <=> i = "Commit approved"
    /\ "CommitTimeStamp" \in set <=> (i = "Timestamp" /\ status = "ok")
    /\ i = "Commit approved" => status = "ok"
    /\ Turn(c, a, next, out)

Onward(c) ==
    /\ Elsewhere(c)
    /\ apps[c].state \notin Early => apps'[c].state \notin Early
    /\ apps[c].state \in Leaving => apps'[c].state \in Leaving
    /\ apps'[c].state = "WaitOnTimestampConfirmation" =>
          \/ apps[c].state = "WaitOnTimestampConfirmation"
          \/ apps[c].state \in Early /\ c \in TimedApps
    /\ apps'[c].released = apps[c].released
    /\ \/ apps'[c].timestamp = apps[c].timestamp
       \/ /\ apps[c].state = "WaitOnChangeConfirmation"
          /\ apps'[c].state = "WaitOnTimestampConfirmation"
    /\ apps'[c].state = "WaitOnCommitExecution" =>
          \/ /\ apps[c].state = "WaitOnCommitExecution"
             /\ \A s \in Switches : requests'[c][s] = requests[c][s]
          \/ /\ apps[c].state # "WaitOnCommitExecution"
             /\ c \in TimedApps => /\ apps[c].state = "WaitOnTimestampConfirmation"
                                   /\ apps'[c].timestamp > ReleaseLead
    /\ \A s \in Switches : /\ Did(c, s)' <=> Did(c, s)
                           /\ Failed(c, s)' <=> Failed(c, s)
                           /\ Stamped(c, s)' <=> Stamped(c, s)

LEMMA Reaction ==
    ASSUME ProtocolInv, TransactionTypeOK', NEW c \in Apps, NEW sw \in Switches,
           NEW state, NEW i, NEW status, Receive(c, sw, state, i, status),
           NEW set, NEW reset, NEW a, Flagged(c, sw, set, reset, a),
           NEW next \in States, NEW out, Sending(out), Enter(c, a, next, out)
    PROVE  /\ Moves(c, a, next) /\ apps[c].state = state
           /\ Answered(c, sw, set, reset, out)
           /\ \E n \in Nat : /\ i \in Ids /\ Replied(c, sw, i, n, status) /\ Topic(c, sw, i, n)
                             /\ Head(replies[c][sw]).n = n
           /\ \A id, n, st : ~ Replied(c, sw, id, n, st)'
           /\ \A s \in Switches \ {sw} :
                 \A id, n, st : Replied(c, s, id, n, st)' <=> Replied(c, s, id, n, st)
<1>1. Shapes /\ c \in Sessions
    BY ConversationFacts
<1>2. ~ Silent(c, sw)
    BY DEF Receive, Silent
<1>3. PICK id \in Ids, n \in Nat : Talks(c, sw, id, n) /\ Topic(c, sw, id, n)
    BY <1>2, TopicFacts
<1>4. /\ i = id /\ Replied(c, sw, id, n, status) /\ Head(replies[c][sw]).n = n
      /\ replies'[c][sw] = << >>
      /\ \A s \in Switches \ {sw} : replies'[c][s] = replies[c][s]
    BY <1>1, <1>3, ReceiveFacts
<1>5. Moves(c, a, next) /\ apps[c].state = state /\ Answered(c, sw, set, reset, out)
    BY <1>1, <1>3, Answer
<1>6. \A x : << x >> # << >>
    OBVIOUS
<1>7. \A k, m, st : ~ Replied(c, sw, k, m, st)'
    BY <1>4, <1>6 DEF Replied
<1>8. ASSUME NEW s \in Switches \ {sw}, NEW k, NEW m, NEW st
      PROVE  Replied(c, s, k, m, st)' <=> Replied(c, s, k, m, st)
  <2>1. PICK r : r = [id |-> k, n |-> m, status |-> st]
      OBVIOUS
  <2>2. ASSUME replies[c][s] = << r >>
        PROVE  requests[c][s] = << >> /\ requests'[c][s] = << >>
    <3>1. ~ Silent(c, s) /\ ~ \E j, l : Asked(c, s, j, l)
        BY <1>6, <2>2 DEF Silent, Asked
    <3>2. requests[c][s] = << >>
      <4>1. PICK j \in Ids, l \in Nat : Talks(c, s, j, l)
          BY <3>1, TopicFacts
      <4> QED BY <3>1, <4>1 DEF Talks, Replied
    <3>3. requests'[c][s] = << >>
      <4>1. /\ requests'[c][s] \in Seq(Requests) /\ plan' = plan
            /\ requests' \in [Sessions -> [Switches -> Seq(Requests)]]
          BY <1>1, <1>5 DEF Moves, Shapes, Elsewhere
      <4>2. Len(requests'[c][s]) + Len(replies'[c][s]) <= 1
          BY <4>1 DEF TransactionTypeOK, Apps
      <4>3. Len(replies'[c][s]) = 1
        <5>1. \A x : Len(<< x >>) = 1
            OBVIOUS
        <5>2. replies'[c][s] = << r >>
            BY <1>4, <2>2
        <5> QED BY <5>1, <5>2
      <4>4. PICK q \in Seq(Requests) : q = requests'[c][s]
          BY <4>1
      <4>5. Len(q) + 1 <= 1 /\ Len(q) \in Nat
          BY <4>2, <4>3, <4>4
      <4>6. Len(q) = 0
          BY <4>5
      <4>7. q = << >>
          BY <4>4, <4>6
      <4> QED BY <4>4, <4>7
    <3> QED BY <3>2, <3>3
  <2> QED BY <1>4, <2>1, <2>2 DEF Replied
<1> QED BY <1>3, <1>4, <1>5, <1>7, <1>8

LEMMA NotRefused ==
    ASSUME NEW c, NEW sw, NEW i, NEW n, NEW status, Replied(c, sw, i, n, status),
           i = "Commit approved" => status = "ok"
    PROVE  \A m : ~ Replied(c, sw, "Commit approved", m, "error")
<1>1. ASSUME NEW m, Replied(c, sw, "Commit approved", m, "error")
      PROVE  FALSE
  <2>1. i = "Commit approved" /\ status = "error"
      BY <1>1, OnlyReply, ZenonT(30)
  <2>2. "ok" # "error"
      OBVIOUS
  <2> QED BY <2>1, <2>2
<1> QED BY <1>1

LEMMA ReactsOnward ==
    ASSUME ProtocolInv, TransactionTypeOK', NEW c \in Apps, NEW sw \in Switches,
           NEW i, NEW status, NEW set, NEW reset, NEW a, NEW next, NEW out,
           Reacts(c, sw, i, status, set, reset, a, next, out)
    PROVE  Onward(c)
<1>1. /\ Receive(c, sw, apps[c].state, i, status)
      /\ Flagged(c, sw, set, reset, a) /\ next \in States
      /\ Sending(out) /\ Enter(c, a, next, out)
      /\ "Commited" \notin reset /\ "CommitTimeStamp" \notin reset
      /\ "Commited" \in set <=> i = "Commit approved"
      /\ "CommitTimeStamp" \in set <=> (i = "Timestamp" /\ status = "ok")
      /\ i = "Commit approved" => status = "ok"
      /\ Turn(c, a, next, out)
    BY DEF Reacts
<1>0. /\ Moves(c, a, next) /\ Answered(c, sw, set, reset, out)
      /\ \E n \in Nat : /\ i \in Ids /\ Replied(c, sw, i, n, status) /\ Topic(c, sw, i, n)
                        /\ Head(replies[c][sw]).n = n
      /\ \A id, m, st : ~ Replied(c, sw, id, m, st)'
      /\ \A s \in Switches \ {sw} :
            \A id, m, st : Replied(c, s, id, m, st)' <=> Replied(c, s, id, m, st)
    BY <1>1, Reaction
<1>2. PICK n \in Nat : i \in Ids /\ Replied(c, sw, i, n, status) /\ Topic(c, sw, i, n)
    BY <1>0
<1>3. /\ Moves(c, a, next) /\ Answered(c, sw, set, reset, out)
      /\ \A id, m, st : ~ Replied(c, sw, id, m, st)'
      /\ \A s \in Switches \ {sw} :
            \A id, m, st : Replied(c, s, id, m, st)' <=> Replied(c, s, id, m, st)
    BY <1>0
<1>4. \A id, m, st : Replied(c, sw, id, m, st) => id = i /\ m = n /\ st = status
    BY <1>2, OnlyReply
<1>5. i # "Change" => n = 0
    BY <1>2 DEF Topic
<1>6. /\ \A f : Has(c, sw, f)' <=> (Has(c, sw, f) \/ f \in set) /\ f \notin reset
      /\ \A s \in Switches \ {sw} : \A f : Has(c, s, f)' <=> Has(c, s, f)
    BY <1>3 DEF Answered, Marks
<1>7. /\ Did(c, sw)' <=> Did(c, sw)
      /\ Failed(c, sw)' <=> Failed(c, sw)
      /\ Stamped(c, sw)' <=> Stamped(c, sw)
  <2>1. Replied(c, sw, "Commit approved", 0, "ok") <=> i = "Commit approved"
      BY <1>1, <1>2, <1>4, <1>5
  <2>2. ~ Replied(c, sw, "Commit approved", 0, "error")
      BY <1>1, <1>2, NotRefused
  <2>3. Replied(c, sw, "Timestamp", 0, "ok") <=> i = "Timestamp" /\ status = "ok"
      BY <1>2, <1>4, <1>5
  <2>4. Has(c, sw, "Commited")' <=> Has(c, sw, "Commited") \/ i = "Commit approved"
      BY <1>1, <1>6
  <2>5. Has(c, sw, "CommitTimeStamp")' <=>
            Has(c, sw, "CommitTimeStamp") \/ (i = "Timestamp" /\ status = "ok")
      BY <1>1, <1>6
  <2> QED BY <1>3, <2>1, <2>2, <2>3, <2>4, <2>5 DEF Did, Failed, Stamped
<1>8. ASSUME NEW s \in Switches, s # sw
      PROVE  /\ Did(c, s)' <=> Did(c, s)
             /\ Failed(c, s)' <=> Failed(c, s)
             /\ Stamped(c, s)' <=> Stamped(c, s)
    BY <1>3, <1>6, <1>8 DEF Did, Failed, Stamped
<1>9. ASSUME out = ToNone
      PROVE  \A s \in Switches : requests'[c][s] = requests[c][s]
  <2>1. \A s \in Switches : out[s] = << >>
      BY <1>9, ToNoneFacts
  <2>2. requests[c][sw] = << >> /\ requests'[c][sw] = << >>
      BY <1>2, <1>3, <2>1 DEF Replied, Answered, Sends, Silent
  <2> QED BY <1>3, <2>1, <2>2 DEF Answered, Untouched
<1>10. /\ Elsewhere(c) /\ apps'[c].state = next
       /\ apps'[c].timestamp = a.timestamp /\ apps'[c].released = a.released
    BY <1>3 DEF Moves
<1> QED BY <1>1, <1>7, <1>8, <1>9, <1>10 DEF Onward, Turn

LEMMA ToSends ==
    ASSUME NEW id \in Ids, NEW n \in Nat, NEW sw
    PROVE  Sending(To(sw, id, n))
<1>1. << Message(id, n) >> \in Seq(Requests)
    BY MessageSeq
<1> QED BY <1>1, ToNoneFacts DEF To, Sending

LEMMA SameTime ==
    ASSUME ProtocolInv, NEW c \in Apps, NEW sw \in Switches, NEW set, NEW reset,
           NEW b, b = WithFlags(c, sw, set, reset)
    PROVE  /\ b.timestamp = apps[c].timestamp /\ b.released = apps[c].released
           /\ \A a : a = [b EXCEPT !.result = FALSE] =>
                 a.timestamp = apps[c].timestamp /\ a.released = apps[c].released
           /\ determineTimestamp(b).released = apps[c].released
           /\ determineTimestamp(b).timestamp = Lead
<1>1. apps[c] \in AppRecords
    BY ConversationFacts DEF Shapes
<1>2. PICK flags : b = [apps[c] EXCEPT !.flags = flags]
    BY DEF WithFlags
<1> QED BY <1>1, <1>2 DEF AppRecords, determineTimestamp

(* The app with its flags set, and maybe its result.                       *)
Plain(c, sw, set, reset, a) ==
    \/ a = WithFlags(c, sw, set, reset)
    \/ a = [WithFlags(c, sw, set, reset) EXCEPT !.result = FALSE]
    \/ a = apps[c] /\ set = {} /\ reset = {}

TimeKept(c, a) == a.timestamp = apps[c].timestamp /\ a.released = apps[c].released

LEMMA PlainTime ==
    ASSUME ProtocolInv, NEW c \in Apps, NEW sw \in Switches, NEW set, NEW reset,
           NEW a, Plain(c, sw, set, reset, a)
    PROVE  TimeKept(c, a)
<1>1. PICK b : b = WithFlags(c, sw, set, reset)
    OBVIOUS
<1>2. /\ b.timestamp = apps[c].timestamp /\ b.released = apps[c].released
      /\ \A e : e = [b EXCEPT !.result = FALSE] =>
            e.timestamp = apps[c].timestamp /\ e.released = apps[c].released
    BY <1>1, SameTime
<1>3. a = b \/ a = [b EXCEPT !.result = FALSE] \/ a = apps[c]
    BY <1>1 DEF Plain
<1> QED BY <1>2, <1>3, Zenon DEF TimeKept

(* What a step of the app makes of the candidates it expects.              *)
Progress(c) ==
    /\ Onward(c)
    /\ \A s \in Switches : Holds(c, s) /\ Expected(c, s) => Expected(c, s)'

Quiet == {"WaitOnChangeConfirmation", "WaitOnCandidateLockResponse",
          "WaitOnTimestampConfirmation", "WaitOnCommitExecution"}

(* The handlers that lead to a state that expects nothing.                 *)
LEMMA QuietProgress ==
    ASSUME NEW c \in Apps, Onward(c), apps'[c].state \notin Quiet
    PROVE  Progress(c)
<1>1. \A s \in Switches : Expected(c, s)'
    BY DEF Expected, Quiet
<1> QED BY <1>1 DEF Progress

(* The handlers that are not about timestamps and commits.                 *)
LEMMA PlainOnward ==
    ASSUME ProtocolInv, TransactionTypeOK', NEW c \in Apps, NEW sw \in Switches,
           NEW state, NEW i, NEW status, Receive(c, sw, state, i, status),
           i # "Commit approved", i # "Timestamp",
           NEW set, NEW reset, set \subseteq Flags, reset \subseteq Flags,
           "Commited" \notin set \cup reset, "CommitTimeStamp" \notin set \cup reset,
           NEW a, Plain(c, sw, set, reset, a),
           NEW next \in States, NEW out, Sending(out), Enter(c, a, next, out),
           next # "WaitOnTimestampConfirmation", next # "WaitOnCommitExecution",
           state \notin Early => next \notin Early, state \in Leaving => next \in Leaving
    PROVE  /\ Onward(c) /\ apps'[c].state = next
           /\ next \notin Quiet => Progress(c)
<1>1. apps[c].state = state
    BY DEF Receive
<1>2. TimeKept(c, a)
    BY PlainTime
<1>3. Turn(c, a, next, out)
    BY <1>1, <1>2 DEF Turn, TimeKept
<1>4. Flagged(c, sw, set, reset, a)
    BY DEF Flagged, Plain
<1>5. Reacts(c, sw, i, status, set, reset, a, next, out)
    BY <1>1, <1>3, <1>4 DEF Reacts
<1>6. Onward(c)
    BY <1>5, ReactsOnward
<1>7. apps'[c].state = next
  <2>1. Moves(c, a, next)
      BY <1>4, Reaction
  <2> QED BY <2>1 DEF Moves
<1> QED BY <1>6, <1>7, QuietProgress

(* The steps of the app that no reply causes.                              *)
LEMMA StartsProgress ==
    ASSUME ProtocolInv, NEW c \in Apps, NEW a, Started(c, a),
           NEW next \in States, NEW out, Sending(out), Enter(c, a, next, out),
           replies' = replies, \A s \in Switches : Silent(c, s),
           \A s \in Switches :
              \/ out[s] = << >>
              \/ \E id \in Ids, n \in Nat : out[s] = << Message(id, n) >>,
           apps[c].state \notin Early => next \notin Early,
           apps[c].state \notin Leaving, next \notin Quiet
    PROVE  Progress(c)
<1>1. /\ Moves(c, a, next)
      /\ \A s \in Switches : Marks(c, s, {}, {}) /\ Sends(c, s, out)
    BY ConversationFacts, Starts
<1>2. /\ Elsewhere(c) /\ apps'[c].state = next
      /\ apps'[c].timestamp = a.timestamp /\ apps'[c].released = a.released
    BY <1>1 DEF Moves
<1>3. a.timestamp = apps[c].timestamp /\ a.released = apps[c].released
  <2>1. apps[c] \in AppRecords
      BY ConversationFacts DEF Shapes
  <2> QED BY <2>1 DEF Started, AppRecords
<1>4. ASSUME NEW s \in Switches
      PROVE  /\ Did(c, s)' <=> Did(c, s)
             /\ Failed(c, s)' <=> Failed(c, s)
             /\ Stamped(c, s)' <=> Stamped(c, s)
  <2>1. \A id, n, st : ~ Replied(c, s, id, n, st)
      BY Spoken DEF OneThing
  <2>2. \A id, n, st : ~ Replied(c, s, id, n, st)'
    <3>1. Sends(c, s, out)
        BY <1>1
    <3> QED BY <3>1, NothingReplied
  <2>3. \A f : Has(c, s, f)' <=> Has(c, s, f)
      BY <1>1 DEF Marks
  <2> QED BY <2>1, <2>2, <2>3 DEF Did, Failed, Stamped
<1>5. next # "WaitOnTimestampConfirmation" /\ next # "WaitOnCommitExecution"
    BY DEF Quiet
<1>6. Onward(c)
    BY <1>2, <1>3, <1>4, <1>5 DEF Onward
<1> QED BY <1>2, <1>6, QuietProgress

LEMMA BeginProgress ==
    ASSUME ProtocolInv, NEW c \in Apps, handleMessageInBeginOfTransaction(c)
    PROVE  Progress(c)
<1>1. PICK t, out : t = connectionToLock(apps[c]) /\ out = To(t, "Lock", 0)
    OBVIOUS
<1>2. /\ apps[c].state = "BeginOfTransaction"
      /\ Enter(c, apps[c], "WaitOnLockResponse", out) /\ replies' = replies
    BY <1>1 DEF handleMessageInBeginOfTransaction
<1>3. \A s \in Switches : Silent(c, s) /\ HasNone(c, s, Flags)
    BY <1>2, ConversationFacts, InStateCases DEF InBegin
<1>4. t \in Switches
  <2>1. 1 \in Switches
      BY Constants DEF Switches
  <2>2. \A s \in Switches : isInState(apps[c].flags[s], "Available")
      BY <1>3, ConversationFacts, InStateFacts DEF HasNone, Has
  <2> QED BY <1>1, <2>1, <2>2, FirstAvailable
<1>5. "Lock" \in Ids /\ 0 \in Nat /\ "WaitOnLockResponse" \in States
    BY Names
<1>6. /\ Sending(out) /\ out[t] = << Message("Lock", 0) >>
      /\ \A s \in Switches \ {t} : out[s] = << >>
    BY <1>1, <1>4, <1>5, ToFacts
<1>7. \A s \in Switches :
          \/ out[s] = << >>
          \/ \E id \in Ids, n \in Nat : out[s] = << Message(id, n) >>
    BY <1>5, <1>6
<1>8. Started(c, apps[c])
    BY DEF Started
<1>9. /\ "BeginOfTransaction" \in Early /\ "BeginOfTransaction" \notin Leaving
      /\ "WaitOnLockResponse" \notin Quiet
    BY DEF Early, Leaving, Quiet
<1> QED BY <1>2, <1>3, <1>5, <1>6, <1>7, <1>8, <1>9, StartsProgress

LEMMA ErrorProgress ==
    ASSUME ProtocolInv, NEW c \in Apps, handleMessageInErrorState(c)
    PROVE  Progress(c)
<1>1. PICK out, a, m : /\ m = << Message("Delete Candidate Config", 0) >>
                       /\ out = [s \in Switches |-> IF "Candidate" \in apps[c].flags[s]
                                                    THEN m ELSE << >>]
                       /\ a = [apps[c] EXCEPT !.result = FALSE]
    OBVIOUS
<1>2. /\ apps[c].state = "ErrorState"
      /\ Enter(c, a, "WaitOnDeleteCandidate", out) /\ replies' = replies
    BY <1>1 DEF handleMessageInErrorState
<1>3. \A s \in Switches : Silent(c, s)
    BY <1>2, ConversationFacts, InStateCases DEF InError
<1>4. "Delete Candidate Config" \in Ids /\ 0 \in Nat /\ "WaitOnDeleteCandidate" \in States
    BY Names
<1>5. m \in Seq(Requests) /\ << >> \in Seq(Requests)
    BY <1>1, <1>4, MessageSeq
<1>6. Sending(out)
    BY <1>1, <1>5 DEF Sending
<1>7. \A s \in Switches : out[s] = m \/ out[s] = << >>
    BY <1>1
<1>8. \A s \in Switches :
          \/ out[s] = << >>
          \/ \E id \in Ids, n \in Nat : out[s] = << Message(id, n) >>
    BY <1>1, <1>4, <1>7
<1>9. Started(c, a)
    BY <1>1 DEF Started
<1>10. /\ "ErrorState" \notin Leaving /\ "WaitOnDeleteCandidate" \notin Early
       /\ "WaitOnDeleteCandidate" \notin Quiet
    BY DEF Early, Leaving, Quiet
<1> QED BY <1>2, <1>3, <1>4, <1>6, <1>8, <1>9, <1>10, StartsProgress

LEMMA LockProgress ==
    ASSUME ProtocolInv, TransactionTypeOK', NEW c \in Apps, NEW sw \in Switches,
           handleMessageInWaitOnLockResponse(c, sw)
    PROVE  Progress(c)
<1>1. PICK locked, none, a, b : /\ locked = {"LockedRunning"} /\ none = {}
                                /\ a = WithFlags(c, sw, locked, none)
                                /\ b = [WithFlags(c, sw, none, locked) EXCEPT !.result = FALSE]
    OBVIOUS
<1>2. /\ locked \subseteq Flags /\ none \subseteq Flags
      /\ "Commited" \notin locked \cup none /\ "CommitTimeStamp" \notin locked \cup none
      /\ "Commited" \notin none \cup locked /\ "CommitTimeStamp" \notin none \cup locked
    BY <1>1, Names
<1>3. "WaitOnLockResponse" \in Early
    BY DEF Early
<1>4. \/ /\ Receive(c, sw, "WaitOnLockResponse", "Lock", "ok")
         /\ \/ Enter(c, a, "WaitOnCandidateConfirmation", ToAll("Copy Config"))
            \/ Enter(c, a, "WaitOnLockResponse", To(connectionToLock(a), "Lock", 0))
      \/ /\ Receive(c, sw, "WaitOnLockResponse", "Lock", "error")
         /\ \/ Enter(c, b, "EndOfTransaction", ToNone)
            \/ Enter(c, b, "WaitOnUnlock", To(sw, "Unlock", 0))
    BY <1>1 DEF handleMessageInWaitOnLockResponse
<1>5. /\ Sending(ToAll("Copy Config")) /\ Sending(ToNone) /\ Sending(To(sw, "Unlock", 0))
      /\ Sending(To(connectionToLock(a), "Lock", 0))
    BY Names, ToAllFacts, ToNoneFacts, ToSends
<1>6. ASSUME NEW status, Receive(c, sw, "WaitOnLockResponse", "Lock", status),
             NEW set, NEW reset, NEW d, set \subseteq Flags, reset \subseteq Flags,
             "Commited" \notin set \cup reset, "CommitTimeStamp" \notin set \cup reset,
             Plain(c, sw, set, reset, d),
             NEW next, next \in {"WaitOnCandidateConfirmation", "WaitOnLockResponse",
                                 "EndOfTransaction", "WaitOnUnlock"},
             NEW out, Sending(out), Enter(c, d, next, out)
      PROVE  Progress(c)
  <2>1. /\ next \in States /\ next # "WaitOnTimestampConfirmation"
        /\ next # "WaitOnCommitExecution" /\ next \notin Quiet
      BY <1>6, Names DEF Quiet
  <2>2. "WaitOnLockResponse" \notin Leaving
      BY DEF Leaving
  <2> QED BY <1>3, <1>6, <2>1, <2>2, PlainOnward
<1>7. Plain(c, sw, locked, none, a) /\ Plain(c, sw, none, locked, b)
    BY <1>1 DEF Plain
<1> QED BY <1>1, <1>2, <1>4, <1>5, <1>6, <1>7

LEMMA CopyProgress ==
    ASSUME ProtocolInv, TransactionTypeOK', NEW c \in Apps, NEW sw \in Switches,
           handleMessageInWaitOnCandidateConfirmation(c, sw)
    PROVE  Progress(c)
<1>1. PICK status \in {"ok", "error"} :
          /\ Receive(c, sw, "WaitOnCandidateConfirmation", "Copy Config", status)
          /\ LET a      == WithFlags(c, sw, {IF status = "ok" THEN "Candidate" ELSE "Error"}, {})
                 with   == getSwitchesInState(a, "WithCandidate")
                 failed == getSwitchesInState(a, "Error")
             IN CASE with = Switches   -> Enter(c, a, "WaitOnCandidateLockResponse", ToAll("Lock Candidate"))
                  [] failed = Switches -> Enter(c, a, "WaitOnUnlock", ToAll("Unlock"))
                  [] with # Switches /\ failed # Switches /\ with \cup failed = Switches
                                       -> Enter(c, a, "ErrorState", ToNone)
                  [] OTHER             -> Enter(c, a, "WaitOnCandidateConfirmation", ToNone)
    BY DEF handleMessageInWaitOnCandidateConfirmation
<1>2. PICK flag, set, reset, a :
          /\ flag = (IF status = "ok" THEN "Candidate" ELSE "Error")
          /\ set = {flag} /\ reset = {} /\ a = WithFlags(c, sw, set, reset)
    OBVIOUS
<1>3. \E next, out :
          /\ \/ next = "WaitOnCandidateLockResponse" \/ next = "WaitOnUnlock"
             \/ next = "ErrorState" \/ next = "WaitOnCandidateConfirmation"
          /\ Sending(out) /\ Enter(c, a, next, out)
  <2>1. \/ Enter(c, a, "WaitOnCandidateLockResponse", ToAll("Lock Candidate"))
        \/ Enter(c, a, "WaitOnUnlock", ToAll("Unlock"))
        \/ Enter(c, a, "ErrorState", ToNone)
        \/ Enter(c, a, "WaitOnCandidateConfirmation", ToNone)
      BY <1>1, <1>2
  <2>2. /\ Sending(ToAll("Lock Candidate")) /\ Sending(ToAll("Unlock")) /\ Sending(ToNone)
      BY Names, ToAllFacts, ToNoneFacts
  <2> QED BY <2>1, <2>2, Zenon
<1>4. PICK next, out :
          /\ \/ next = "WaitOnCandidateLockResponse" \/ next = "WaitOnUnlock"
             \/ next = "ErrorState" \/ next = "WaitOnCandidateConfirmation"
          /\ Sending(out) /\ Enter(c, a, next, out)
    BY <1>3
<1>5. /\ next \in States /\ next # "WaitOnTimestampConfirmation"
      /\ next # "WaitOnCommitExecution"
    BY <1>4, Names
<1>6. "WaitOnCandidateConfirmation" \in Early /\ "WaitOnCandidateConfirmation" \notin Leaving
    BY DEF Early, Leaving
<1>7. set \subseteq Flags /\ reset \subseteq Flags
    BY <1>2, Names
<1>8. "Commited" \notin set \cup reset /\ "CommitTimeStamp" \notin set \cup reset
    BY <1>2
<1>9. Plain(c, sw, set, reset, a)
    BY <1>2 DEF Plain
<1>10. /\ Onward(c) /\ apps'[c].state = next
       /\ next \notin Quiet => Progress(c)
    BY <1>1, <1>2, <1>4, <1>5, <1>6, <1>7, <1>8, <1>9, PlainOnward
<1>11. ASSUME NEW s \in Switches PROVE ~ Holds(c, s)
  <2>1. InCopy(c, s)
      BY <1>1, Waiting, InStateCases
  <2>2. ~ Has(c, s, "LockedCandidate")
      BY <2>1 DEF InCopy, HasNone
  <2>3. ~ Replied(c, s, "Lock Candidate", 0, "ok")
    <3>1. Silent(c, s) \/ Talks(c, s, "Copy Config", 0)
        BY <2>1 DEF InCopy, AskedUnless
    <3>2. "Copy Config" # "Lock Candidate"
        OBVIOUS
    <3> QED BY <3>1, <3>2, OnlyReply
  <2>4. ~ OwnsCandidate(c, s)
      BY <2>2, <2>3 DEF OwnsCandidate
  <2> QED BY <2>4, ConversationFacts DEF Holds
<1> QED BY <1>10, <1>11 DEF Progress

LEMMA DeleteOldProgress ==
    ASSUME ProtocolInv, TransactionTypeOK', NEW c \in Apps, NEW sw \in Switches,
           \/ handleMessageInWaitOnDeleteOldConfiguration(c, sw)
           \/ handleMessageInWaitOnDeleteCandidate(c, sw)
    PROVE  Progress(c)
<1>1. PICK set, reset, a : /\ set = {} /\ reset = {"Candidate", "LockedCandidate"}
                           /\ a = WithFlags(c, sw, set, reset)
    OBVIOUS
<1>2. PICK state, i : /\ \/ state = "WaitOnDeleteOldConfiguration" /\ i = "Delete Old Config"
                         \/ state = "WaitOnDeleteCandidate" /\ i = "Delete Candidate Config"
                      /\ Receive(c, sw, state, i, "ok")
                      /\ \/ Enter(c, a, "WaitOnUnlock", ToAll("Unlock"))
                         \/ Enter(c, a, state, ToNone)
    BY <1>1, Zenon DEF handleMessageInWaitOnDeleteOldConfiguration,
                       handleMessageInWaitOnDeleteCandidate
<1>3. PICK next, out : /\ next = "WaitOnUnlock" \/ next = state
                       /\ Sending(out) /\ Enter(c, a, next, out)
    BY <1>2, Names, ToAllFacts, ToNoneFacts
<1>4. /\ next \in States /\ next # "WaitOnTimestampConfirmation"
      /\ next # "WaitOnCommitExecution" /\ next \notin Quiet
    BY <1>2, <1>3, Names DEF Quiet
<1>5. next \notin Early /\ state \notin Leaving /\ i # "Commit approved" /\ i # "Timestamp"
    BY <1>2, <1>3 DEF Early, Leaving
<1>6. set \subseteq Flags /\ reset \subseteq Flags
    BY <1>1, Names
<1>7. "Commited" \notin set \cup reset /\ "CommitTimeStamp" \notin set \cup reset
    BY <1>1
<1>9. Plain(c, sw, set, reset, a)
    BY <1>1 DEF Plain
<1> QED BY <1>1, <1>2, <1>3, <1>4, <1>5, <1>6, <1>7, <1>9, PlainOnward

LEMMA UnlockProgress ==
    ASSUME ProtocolInv, TransactionTypeOK', NEW c \in Apps, NEW sw \in Switches,
           handleMessageInWaitOnUnlock(c, sw)
    PROVE  Progress(c)
<1>1. PICK set, reset, a : /\ set = {} /\ reset = {"LockedRunning"}
                           /\ a = WithFlags(c, sw, set, reset)
    OBVIOUS
<1>2. /\ Receive(c, sw, "WaitOnUnlock", "Unlock", "ok")
      /\ \/ Enter(c, a, "EndOfTransaction", ToNone)
         \/ Enter(c, a, "WaitOnUnlock", ToNone)
    BY <1>1 DEF handleMessageInWaitOnUnlock
<1>3. PICK next, out : /\ next = "WaitOnUnlock" \/ next = "EndOfTransaction"
                       /\ Sending(out) /\ Enter(c, a, next, out)
    BY <1>2, ToNoneFacts
<1>4. /\ next \in States /\ next # "WaitOnTimestampConfirmation"
      /\ next # "WaitOnCommitExecution" /\ next \notin Quiet
    BY <1>3, Names DEF Quiet
<1>5. next \notin Early /\ next \in Leaving
    BY <1>3 DEF Early, Leaving
<1>6. set \subseteq Flags /\ reset \subseteq Flags
    BY <1>1, Names
<1>7. "Commited" \notin set \cup reset /\ "CommitTimeStamp" \notin set \cup reset
    BY <1>1
<1>9. Plain(c, sw, set, reset, a)
    BY <1>1 DEF Plain
<1> QED BY <1>1, <1>2, <1>3, <1>4, <1>5, <1>6, <1>7, <1>9, PlainOnward

-----------------------------------------------------------------------------
(* The handlers that expect something of the candidates.                  *)
(* What the handler of a reply to a change does.                           *)
LEMMA ChangeCases ==
    ASSUME ProtocolInv, NEW c \in Apps, NEW sw \in Switches,
           handleMessageInWaitOnChangeConfirmation(c, sw)
    PROVE  \E n, done, error :
              /\ n \in Nat /\ 1 <= n /\ n <= Len(plan[c][sw]) /\ Len(plan[c][sw]) \in Nat
              /\ done = WithFlags(c, sw, {"Configuration"}, {})
              /\ error = WithFlags(c, sw, {"Error"}, {})
              /\ \/ /\ Receive(c, sw, "WaitOnChangeConfirmation", "Change", "ok")
                    /\ Replied(c, sw, "Change", n, "ok")
                    /\ \/ /\ getSwitchesInState(apps[c], "Error") # {}
                          /\ \E next : /\ next = "ErrorState" \/ next = "WaitOnChangeConfirmation"
                                       /\ Enter(c, done, next, ToNone)
                       \/ /\ n < Len(plan[c][sw])
                          /\ Enter(c, apps[c], "WaitOnChangeConfirmation", To(sw, "Change", n + 1))
                       \/ /\ n = Len(plan[c][sw])
                          /\ Enter(c, done, "WaitOnChangeConfirmation", ToNone)
                       \/ /\ n = Len(plan[c][sw])
                          /\ getSwitchesInState(apps[c], "Error") = {}
                          /\ getSwitchesInState(done, "Error")
                               \cup getSwitchesInState(done, "WithChangedCandidateConfiguration")
                                   = Switches
                          /\ AllChanged(c, done)
                 \/ /\ Receive(c, sw, "WaitOnChangeConfirmation", "Change", "error")
                    /\ \E next : /\ next = "ErrorState" \/ next = "WaitOnChangeConfirmation"
                                 /\ Enter(c, error, next, ToNone)
<1>1. PICK n, len, more, failed, done, error, allDone, allError :
          /\ n = Head(replies[c][sw]).n
          /\ len = Len(plan[c][sw]) /\ more = To(sw, "Change", n + 1)
          /\ failed = getSwitchesInState(apps[c], "Error")
          /\ done = WithFlags(c, sw, {"Configuration"}, {})
          /\ error = WithFlags(c, sw, {"Error"}, {})
          /\ allDone = getSwitchesInState(done, "Error")
                         \cup getSwitchesInState(done, "WithChangedCandidateConfiguration")
          /\ allError = getSwitchesInState(error, "Error")
                          \cup getSwitchesInState(error, "WithChangedCandidateConfiguration")
    OBVIOUS
<1>2. \/ /\ Receive(c, sw, "WaitOnChangeConfirmation", "Change", "ok")
         /\ CASE failed # {} ->
                    Enter(c, done, IF allDone = Switches THEN "ErrorState"
                                   ELSE "WaitOnChangeConfirmation", ToNone)
              [] failed = {} /\ n < len ->
                    Enter(c, apps[c], "WaitOnChangeConfirmation", more)
              [] failed = {} /\ n >= len ->
                    IF allDone = Switches THEN AllChanged(c, done)
                    ELSE Enter(c, done, "WaitOnChangeConfirmation", ToNone)
      \/ /\ Receive(c, sw, "WaitOnChangeConfirmation", "Change", "error")
         /\ Enter(c, error, IF allError = Switches THEN "ErrorState"
                            ELSE "WaitOnChangeConfirmation", ToNone)
    BY <1>1, Zenon DEF handleMessageInWaitOnChangeConfirmation
<1>3. PICK status : /\ Receive(c, sw, "WaitOnChangeConfirmation", "Change", status)
                    /\ status = "ok" \/ status = "error"
    BY <1>2
<1>4. /\ Shapes /\ c \in Sessions /\ ~ Silent(c, sw) /\ InChange(c, sw)
      /\ Len(plan[c][sw]) \in Nat
  <2>1. /\ Shapes /\ c \in Sessions /\ ~ Silent(c, sw) /\ InChange(c, sw)
      BY <1>3, Waiting, ConversationFacts, InStateCases
  <2>2. plan[c] \in [Switches -> Seq(Changes) \ {<< >>}]
      BY <2>1 DEF Shapes
  <2>3. plan[c][sw] \in Seq(Changes)
      BY <2>2
  <2> QED BY <2>1, <2>3
<1>a. PICK l : l \in Nat /\ l = Len(plan[c][sw])
    BY <1>4
<1>b. \E k \in 1 .. l : Talks(c, sw, "Change", k)
    BY <1>4, <1>a DEF InChange
<1>5. PICK k : k \in Nat /\ 1 <= k /\ k <= l /\ Talks(c, sw, "Change", k)
    BY <1>a, <1>b
<1>6. k \in Nat /\ "Change" \in Ids
    BY <1>5, Names
<1>7. ASSUME NEW st, Receive(c, sw, "WaitOnChangeConfirmation", "Change", st)
      PROVE  n = k /\ Replied(c, sw, "Change", k, st)
    BY <1>1, <1>4, <1>5, <1>6, <1>7, ReceiveFacts
<1>8. n = k
    BY <1>3, <1>7
<1>9. CASE /\ Receive(c, sw, "WaitOnChangeConfirmation", "Change", "error")
           /\ Enter(c, error, IF allError = Switches THEN "ErrorState"
                              ELSE "WaitOnChangeConfirmation", ToNone)
  <2>1. PICK next : /\ next = "ErrorState" \/ next = "WaitOnChangeConfirmation"
                    /\ Enter(c, error, next, ToNone)
      BY <1>9
  <2> QED BY <1>1, <1>4, <1>5, <1>8, <1>a, <1>9, <2>1, Zenon
<1>10. CASE /\ Receive(c, sw, "WaitOnChangeConfirmation", "Change", "ok")
            /\ ~ Receive(c, sw, "WaitOnChangeConfirmation", "Change", "error")
  <2>1. Replied(c, sw, "Change", n, "ok")
      BY <1>7, <1>8, <1>10
  <2>2. CASE failed # {}
    <3>1. Enter(c, done, IF allDone = Switches THEN "ErrorState"
                         ELSE "WaitOnChangeConfirmation", ToNone)
        BY <1>2, <1>10, <2>2
    <3>2. PICK next : /\ next = "ErrorState" \/ next = "WaitOnChangeConfirmation"
                      /\ Enter(c, done, next, ToNone)
        BY <3>1
    <3> QED BY <1>1, <1>4, <1>5, <1>8, <1>a, <1>10, <2>1, <2>2, <3>2, Zenon
  <2>3. CASE failed = {} /\ n < len
    <3>1. Enter(c, apps[c], "WaitOnChangeConfirmation", more)
      <4>1. ~ n >= len
          BY <1>1, <1>5, <1>8, <1>a, <2>3
      <4> QED BY <1>2, <1>10, <2>3, <4>1
    <3> QED BY <1>1, <1>4, <1>5, <1>8, <1>a, <1>10, <2>1, <2>3, <3>1, Zenon
  <2>4. CASE failed = {} /\ ~ n < len
    <3>1. n >= len /\ n = len
        BY <1>1, <1>5, <1>8, <1>a, <2>4
    <3>2. IF allDone = Switches THEN AllChanged(c, done)
          ELSE Enter(c, done, "WaitOnChangeConfirmation", ToNone)
        BY <1>2, <1>10, <2>4, <3>1
    <3>3. CASE allDone = Switches
      <4>1. AllChanged(c, done)
          BY <3>2, <3>3
      <4> QED BY <1>1, <1>4, <1>5, <1>8, <1>a, <1>10, <2>1, <2>4, <3>1, <3>3, <4>1, Zenon
    <3>4. CASE allDone # Switches
      <4>1. Enter(c, done, "WaitOnChangeConfirmation", ToNone)
          BY <3>2, <3>4
      <4> QED BY <1>1, <1>4, <1>5, <1>8, <1>a, <1>10, <2>1, <3>1, <4>1, Zenon
    <3> QED BY <3>3, <3>4
  <2> QED BY <2>2, <2>3, <2>4
<1>11. \/ ~ Receive(c, sw, "WaitOnChangeConfirmation", "Change", "ok")
       \/ ~ Receive(c, sw, "WaitOnChangeConfirmation", "Change", "error")
    BY DEF Receive
<1> QED BY <1>2, <1>9, <1>10, <1>11

LEMMA FirstOfAll ==
    ASSUME NEW s \in Seq(Changes), NEW t \in Seq(Changes), FirstOf(s, t, Len(t))
    PROVE  s = t
BY DEF FirstOf

LEMMA FirstOfNone ==
    ASSUME NEW t \in Seq(Changes)
    PROVE  FirstOf(<< >>, t, 0)
BY DEF FirstOf

LEMMA FirstOfNext ==
    ASSUME NEW s \in Seq(Changes), NEW t \in Seq(Changes), NEW n \in 1 .. Len(t),
           FirstOf(s, t, n - 1)
    PROVE  FirstOf(Append(s, t[n]), t, n)
BY DEF FirstOf

LEMMA Plan ==
    ASSUME ProtocolInv, NEW c \in Apps, NEW sw \in Switches
    PROVE  /\ plan[c][sw] \in Seq(Changes) /\ plan[c][sw] # << >>
           /\ stores[sw] \in Stores /\ stores[sw].candidate \in Seq(Changes)
<1>1. plan[c] \in [Switches -> Seq(Changes) \ {<< >>}] /\ stores[sw] \in Stores
    BY ConversationFacts DEF Shapes
<1>2. \A d \in Stores : d.candidate \in Seq(Changes)
    BY DEF Stores
<1> QED BY <1>1, <1>2

(* A switch the step has nothing to do with.                               *)
LEMMA Aside ==
    ASSUME NEW c \in Apps, NEW s \in Switches, Untouched(c, s)
    PROVE  /\ \A id, n : Asked(c, s, id, n)' <=> Asked(c, s, id, n)
           /\ \A id, n, st : Replied(c, s, id, n, st)' <=> Replied(c, s, id, n, st)
           /\ \A f : Has(c, s, f)' <=> Has(c, s, f)
BY DEF Untouched, Asked, Replied

LEMMA SilentSays ==
    ASSUME NEW c, NEW s, Silent(c, s)'
    PROVE  /\ \A id, n : ~ Asked(c, s, id, n)'
           /\ \A id, n, st : ~ Replied(c, s, id, n, st)'
<1>1. \A x : << x >> # << >>
    OBVIOUS
<1> QED BY <1>1 DEF Silent, Asked, Replied

(* The app notes what became of a change, and asks for nothing.            *)
LEMMA ChangeNoted ==
    ASSUME ProtocolInv, TransactionTypeOK', NEW c \in Apps, NEW sw \in Switches,
           NEW status, Receive(c, sw, "WaitOnChangeConfirmation", "Change", status),
           NEW flag, NEW set, NEW reset, Marking(flag, set, reset), flag \in set,
           NEW a, a = WithFlags(c, sw, set, reset),
           NEW next, next = "ErrorState" \/ next = "WaitOnChangeConfirmation",
           Enter(c, a, next, ToNone),
           \/ flag = "Error"
           \/ \E s \in Switches : Has(c, s, "Error")
           \/ Replied(c, sw, "Change", Len(plan[c][sw]), "ok")
    PROVE  Progress(c)
<1>1. /\ next \in States /\ next # "WaitOnTimestampConfirmation"
      /\ next # "WaitOnCommitExecution" /\ next \notin Leaving
    BY Names DEF Leaving
<1>2. "WaitOnChangeConfirmation" \in Early /\ "WaitOnChangeConfirmation" \notin Leaving
    BY DEF Early, Leaving
<1>a. \A f : f \in set => f = flag /\ f \in Flags /\ f # "Commited" /\ f # "CommitTimeStamp"
  <2>1. "Configuration" # "Commited" /\ "Error" # "Commited"
      OBVIOUS
  <2>2. "Configuration" # "CommitTimeStamp" /\ "Error" # "CommitTimeStamp"
      OBVIOUS
  <2>3. flag \in Flags /\ flag # "Commited" /\ flag # "CommitTimeStamp"
    <3>1. flag = "Configuration" \/ flag = "Error"
        BY DEF Marking
    <3> QED BY <2>1, <2>2, <3>1, Names
  <2>4. \A f : f \in set => f = flag
      BY DEF Marking
  <2> QED BY <2>3, <2>4
<1>3. /\ set \subseteq Flags /\ reset \subseteq Flags
      /\ "Commited" \notin set \cup reset /\ "CommitTimeStamp" \notin set \cup reset
    BY <1>a DEF Marking
<1>4. Plain(c, sw, set, reset, a) /\ Flagged(c, sw, set, reset, a)
    BY <1>3 DEF Plain, Flagged
<1>5. Sending(ToNone) /\ \A s \in Switches : ToNone[s] = << >>
    BY ToNoneFacts
<1>6. Onward(c)
    BY <1>1, <1>2, <1>3, <1>4, <1>5, PlainOnward
<1>7. /\ Moves(c, a, next) /\ apps[c].state = "WaitOnChangeConfirmation"
      /\ Answered(c, sw, set, reset, ToNone)
    BY <1>1, <1>4, <1>5, Reaction
<1>8. /\ Silent(c, sw)' /\ \A f : Has(c, sw, f)' <=> Has(c, sw, f) \/ f = flag
      /\ \A s \in Switches \ {sw} : Untouched(c, s)
    BY <1>5, <1>7 DEF Answered, Marks, Sends, Marking
<1>9. /\ apps'[c].state = next /\ stores' = stores /\ plan' = plan
    BY <1>7 DEF Moves, Elsewhere
<1>10. ASSUME NEW s \in Switches, Holds(c, s), Expected(c, s), next = "WaitOnChangeConfirmation"
       PROVE  Staging(c, s)'
  <2>1. Staging(c, s)
      BY <1>7, <1>10 DEF Expected
  <2>2. \A t \in Switches : Has(c, t, "Error") => Has(c, t, "Error")'
      BY <1>8, Aside
  <2>3. Unfailed(c)' => Unfailed(c)
      BY <2>2 DEF Unfailed
  <2>4. CASE s # sw
      BY <1>8, <1>9, <2>1, <2>3, <2>4, Aside DEF Staging
  <2>5. CASE s = sw
    <3>1. /\ \A id, n : ~ Asked(c, sw, id, n)'
          /\ \A id, n, st : ~ Replied(c, sw, id, n, st)'
        BY <1>8, SilentSays
    <3>2. ASSUME Unfailed(c)' PROVE stores[sw].candidate = plan[c][sw]
      <4>1. /\ ~ Has(c, sw, "Error")' /\ \A t \in Switches : ~ Has(c, t, "Error")
          BY <2>2, <3>2 DEF Unfailed
      <4>2. Replied(c, sw, "Change", Len(plan[c][sw]), "ok")
          BY <1>8, <4>1
      <4>3. PICK t, d : t = plan[c][sw] /\ d = stores[sw].candidate
          OBVIOUS
      <4>4. t \in Seq(Changes) /\ t # << >> /\ d \in Seq(Changes)
          BY <4>3, Plan
      <4>5. Len(t) \in 1 .. Len(t)
          BY <4>4
      <4>6. FirstOf(d, t, Len(t))
          BY <2>1, <2>5, <4>2, <4>3, <4>5 DEF Staging
      <4> QED BY <4>3, <4>4, <4>6, FirstOfAll
    <3> QED BY <1>9, <2>5, <3>1, <3>2 DEF Staging
  <2> QED BY <2>4, <2>5
<1>11. ASSUME NEW s \in Switches, Holds(c, s), Expected(c, s) PROVE Expected(c, s)'
  <2>1. CASE next = "ErrorState"
      BY <1>9, <2>1 DEF Expected
  <2>2. CASE next = "WaitOnChangeConfirmation"
      BY <1>9, <1>10, <1>11, <2>2 DEF Expected
  <2> QED BY <2>1, <2>2
<1> QED BY <1>6, <1>11 DEF Progress

(* The next change is sent to the switch that accepted one.                *)
LEMMA ChangeSent ==
    ASSUME ProtocolInv, TransactionTypeOK', NEW c \in Apps, NEW sw \in Switches,
           Receive(c, sw, "WaitOnChangeConfirmation", "Change", "ok"),
           NEW n \in Nat, 1 <= n, n < Len(plan[c][sw]), Replied(c, sw, "Change", n, "ok"),
           Enter(c, apps[c], "WaitOnChangeConfirmation", To(sw, "Change", n + 1))
    PROVE  Progress(c)
<1>1. PICK none, out, more : /\ none = {} /\ out = To(sw, "Change", more) /\ more = n + 1
    OBVIOUS
<1>a. more \in Nat
    BY <1>1
<1>2. /\ more \in Nat /\ "Change" \in Ids /\ "WaitOnChangeConfirmation" \in States
      /\ "WaitOnChangeConfirmation" # "WaitOnTimestampConfirmation"
      /\ "WaitOnChangeConfirmation" # "WaitOnCommitExecution"
      /\ "WaitOnChangeConfirmation" \in Early /\ "WaitOnChangeConfirmation" \notin Leaving
    BY <1>a, Names DEF Early, Leaving
<1>3. /\ Sending(out) /\ out[sw] = << Message("Change", more) >>
      /\ \A s \in Switches \ {sw} : out[s] = << >>
    BY <1>1, <1>2, ToFacts
<1>4. /\ none \subseteq Flags /\ "Commited" \notin none \cup none
      /\ "CommitTimeStamp" \notin none \cup none
    BY <1>1
<1>5. Plain(c, sw, none, none, apps[c]) /\ Flagged(c, sw, none, none, apps[c])
    BY <1>1 DEF Plain, Flagged
<1>6. Enter(c, apps[c], "WaitOnChangeConfirmation", out)
    BY <1>1
<1>7. Onward(c)
    BY <1>2, <1>3, <1>4, <1>5, <1>6, PlainOnward
<1>8. /\ Moves(c, apps[c], "WaitOnChangeConfirmation") /\ Answered(c, sw, none, none, out)
      /\ apps[c].state = "WaitOnChangeConfirmation"
    BY <1>2, <1>3, <1>5, <1>6, Reaction
<1>9. /\ Asked(c, sw, "Change", more)' /\ \A s \in Switches \ {sw} : Untouched(c, s)
      /\ \A f : Has(c, sw, f)' <=> Has(c, sw, f)
    BY <1>1, <1>2, <1>3, <1>8 DEF Answered, Marks, Sends
<1>10. /\ apps'[c].state = "WaitOnChangeConfirmation" /\ stores' = stores /\ plan' = plan
    BY <1>8 DEF Moves, Elsewhere
<1>11. Unfailed(c)' => Unfailed(c)
  <2>1. \A s \in Switches : \A f : Has(c, s, f)' <=> Has(c, s, f)
      BY <1>9, Aside
  <2> QED BY <2>1 DEF Unfailed
<1>12. ASSUME NEW s \in Switches, Holds(c, s), Expected(c, s)
       PROVE  Staging(c, s)'
  <2>1. Staging(c, s)
      BY <1>8, <1>12 DEF Expected
  <2>2. CASE s # sw
      BY <1>9, <1>10, <1>11, <2>1, <2>2, Aside DEF Staging
  <2>3. CASE s = sw
    <3>1. FirstOf(stores[sw].candidate, plan[c][sw], n)
      <4>1. PICK l : l = Len(plan[c][sw]) /\ l \in Nat
          BY Plan
      <4>2. n \in 1 .. l
          BY <4>1
      <4> QED BY <2>1, <2>3, <4>1, <4>2, SMTT(30) DEF Staging
    <3>2. \A m : Asked(c, sw, "Change", m)' => m = more
      <4>1. \A x, y : << x >> = << y >> => x = y
          OBVIOUS
      <4>2. \A m : Message("Change", m).n = m
          BY DEF Message
      <4> QED BY <1>9, <4>1, <4>2 DEF Asked
    <3>3. \A m, st : ~ Replied(c, sw, "Change", m, st)'
      <4>1. \A x : << x >> # << >>
          OBVIOUS
      <4> QED BY <1>9, <4>1 DEF Asked, Replied
    <3>4. more - 1 = n
        BY <1>1
    <3>5. Has(c, sw, "Configuration")' /\ Unfailed(c)' => stores[sw].candidate = plan[c][sw]
        BY <1>9, <1>11, <2>1, <2>3 DEF Staging
    <3> QED BY <1>10, <2>3, <3>1, <3>2, <3>3, <3>4, <3>5 DEF Staging
  <2> QED BY <2>2, <2>3
<1>13. ASSUME NEW s \in Switches, Holds(c, s), Expected(c, s) PROVE Expected(c, s)'
    BY <1>10, <1>12, <1>13 DEF Expected
<1> QED BY <1>7, <1>13 DEF Progress

(* All switches have accepted all changes.                                 *)
LEMMA ChangesDone ==
    ASSUME ProtocolInv, NEW c \in Apps, NEW sw \in Switches,
           Receive(c, sw, "WaitOnChangeConfirmation", "Change", "ok"),
           Replied(c, sw, "Change", Len(plan[c][sw]), "ok"),
           NEW set, NEW a, set = {"Configuration"}, a = WithFlags(c, sw, set, {}),
           getSwitchesInState(apps[c], "Error") = {},
           getSwitchesInState(a, "Error")
             \cup getSwitchesInState(a, "WithChangedCandidateConfiguration") = Switches
    PROVE  \A s \in Switches :
              Holds(c, s) /\ Expected(c, s) => stores[s].candidate = plan[c][s]
<1>1. /\ apps[c].state = "WaitOnChangeConfirmation" /\ Shapes /\ c \in Sessions
    BY Waiting, ConversationFacts
<1>2. ASSUME NEW s \in Switches PROVE ~ Has(c, s, "Error")
  <2>1. ~ isInState(apps[c].flags[s], "Error") /\ apps[c].flags[s] \in SUBSET Flags
      BY ConversationFacts DEF getSwitchesInState
  <2> QED BY <2>1, InStateFacts DEF Has
<1>3. Unfailed(c)
    BY <1>2 DEF Unfailed
<1>4. ASSUME NEW s \in Switches, s # sw PROVE Has(c, s, "Configuration")
  <2>0. PICK none : none = {}
      OBVIOUS
  <2>1. Flagged(c, sw, set, none, a)
      BY <2>0, Names DEF Flagged
  <2>2. a.flags[s] = apps[c].flags[s] /\ apps[c].flags[s] \in SUBSET Flags
      BY <1>1, <1>4, <2>1, ConversationFacts, WithFlagsFacts
  <2>3. \/ isInState(a.flags[s], "Error")
        \/ isInState(a.flags[s], "WithChangedCandidateConfiguration")
      BY DEF getSwitchesInState
  <2> QED BY <1>2, <2>2, <2>3, InStateFacts DEF Has, Staged
<1>5. ASSUME NEW s \in Switches, Expected(c, s) PROVE stores[s].candidate = plan[c][s]
  <2>1. Staging(c, s)
      BY <1>1, <1>5 DEF Expected
  <2>2. CASE s # sw
      BY <1>3, <1>4, <2>1, <2>2 DEF Staging
  <2>3. CASE s = sw
    <3>1. PICK t, d, l : t = plan[c][sw] /\ d = stores[sw].candidate /\ l = Len(plan[c][sw])
        OBVIOUS
    <3>2. t \in Seq(Changes) /\ t # << >> /\ d \in Seq(Changes)
        BY <3>1, Plan
    <3>3. l \in 1 .. l /\ l = Len(t)
        BY <3>1, <3>2
    <3>4. FirstOf(d, t, l)
        BY <2>1, <2>3, <3>1, <3>3 DEF Staging
    <3> QED BY <2>3, <3>1, <3>2, <3>3, <3>4, FirstOfAll
  <2> QED BY <2>2, <2>3
<1> QED BY <1>5

LEMMA ChangesAll ==
    ASSUME ProtocolInv, TransactionTypeOK', NEW c \in Apps, NEW sw \in Switches,
           Receive(c, sw, "WaitOnChangeConfirmation", "Change", "ok"),
           Replied(c, sw, "Change", Len(plan[c][sw]), "ok"),
           NEW a, a = WithFlags(c, sw, {"Configuration"}, {}),
           getSwitchesInState(apps[c], "Error") = {},
           getSwitchesInState(a, "Error")
             \cup getSwitchesInState(a, "WithChangedCandidateConfiguration") = Switches,
           AllChanged(c, a)
    PROVE  Progress(c)
<1>1. PICK set, none, b, asks, releases :
          /\ set = {"Configuration"} /\ none = {} /\ b = determineTimestamp(a)
          /\ asks = ToAll("Timestamp") /\ releases = ToAll("Commit approved")
    OBVIOUS
<1>2. apps[c].state = "WaitOnChangeConfirmation"
    BY DEF Receive
<1>3. \A s \in Switches : Holds(c, s) /\ Expected(c, s) => stores[s].candidate = plan[c][s]
    BY <1>1, ChangesDone
<1>4. Sending(asks) /\ Sending(releases)
    BY <1>1, Names, ToAllFacts
<1>5. /\ "WaitOnChangeConfirmation" \in Early /\ "WaitOnChangeConfirmation" \notin Leaving
      /\ "WaitOnChangeConfirmation" # "WaitOnCommitExecution"
    BY DEF Early, Leaving
<1>6. a = WithFlags(c, sw, set, none)
    BY <1>1
<1>7. /\ a.timestamp = apps[c].timestamp /\ a.released = apps[c].released
      /\ b.released = apps[c].released
  <2>1. /\ determineTimestamp(a).released = apps[c].released
        /\ a.timestamp = apps[c].timestamp /\ a.released = apps[c].released
      BY <1>6, SameTime
  <2> QED BY <1>1, <2>1, Zenon
<1>8. Flagged(c, sw, set, none, a) /\ Flagged(c, sw, set, none, b)
    BY <1>1, Names DEF Flagged
<1>9. "Change" # "Commit approved" /\ "Change" # "Timestamp"
    OBVIOUS
<1>10. \/ c \in TimedApps /\ Enter(c, b, "WaitOnTimestampConfirmation", asks)
       \/ c \notin TimedApps /\ Enter(c, a, "WaitOnCommitExecution", releases)
    BY <1>1 DEF AllChanged
<1>11. ASSUME NEW d, Flagged(c, sw, set, none, d), NEW next, NEW out, Sending(out),
              Enter(c, d, next, out), Turn(c, d, next, out),
              next = "WaitOnTimestampConfirmation" \/ next = "WaitOnCommitExecution"
       PROVE  Progress(c)
  <2>1. next \in States
      BY <1>11, Names
  <2>2. /\ "Commited" \notin none /\ "CommitTimeStamp" \notin none
        /\ "Commited" \notin set /\ "CommitTimeStamp" \notin set
      BY <1>1
  <2>3. Reacts(c, sw, "Change", "ok", set, none, d, next, out)
      BY <1>2, <1>9, <1>11, <2>1, <2>2 DEF Reacts
  <2>4. Onward(c)
      BY <2>3, ReactsOnward
  <2>5. Moves(c, d, next)
      BY <1>2, <1>11, <2>1, Reaction
  <2>6. apps'[c].state = next /\ stores' = stores /\ plan' = plan
      BY <2>5 DEF Moves, Elsewhere
  <2>7. \A s \in Switches : Holds(c, s) /\ Expected(c, s) => Expected(c, s)'
      BY <1>3, <1>11, <2>6 DEF Expected
  <2> QED BY <2>4, <2>7 DEF Progress
<1>12. CASE c \in TimedApps /\ Enter(c, b, "WaitOnTimestampConfirmation", asks)
  <2>1. Turn(c, b, "WaitOnTimestampConfirmation", asks)
      BY <1>2, <1>5, <1>7, <1>12 DEF Turn
  <2> QED BY <1>4, <1>8, <1>11, <1>12, <2>1
<1>13. CASE c \notin TimedApps /\ Enter(c, a, "WaitOnCommitExecution", releases)
  <2>1. Turn(c, a, "WaitOnCommitExecution", releases)
      BY <1>2, <1>5, <1>7, <1>13 DEF Turn
  <2> QED BY <1>4, <1>8, <1>11, <1>13, <2>1
<1> QED BY <1>10, <1>12, <1>13

LEMMA ChangeProgress ==
    ASSUME ProtocolInv, TransactionTypeOK', NEW c \in Apps, NEW sw \in Switches,
           handleMessageInWaitOnChangeConfirmation(c, sw)
    PROVE  Progress(c)
<1>1. PICK n, done, error :
          /\ n \in Nat /\ 1 <= n /\ n <= Len(plan[c][sw]) /\ Len(plan[c][sw]) \in Nat
          /\ done = WithFlags(c, sw, {"Configuration"}, {})
          /\ error = WithFlags(c, sw, {"Error"}, {})
          /\ \/ /\ Receive(c, sw, "WaitOnChangeConfirmation", "Change", "ok")
                /\ Replied(c, sw, "Change", n, "ok")
                /\ \/ /\ getSwitchesInState(apps[c], "Error") # {}
                      /\ \E next : /\ next = "ErrorState" \/ next = "WaitOnChangeConfirmation"
                                   /\ Enter(c, done, next, ToNone)
                   \/ /\ n < Len(plan[c][sw])
                      /\ Enter(c, apps[c], "WaitOnChangeConfirmation", To(sw, "Change", n + 1))
                   \/ /\ n = Len(plan[c][sw])
                      /\ Enter(c, done, "WaitOnChangeConfirmation", ToNone)
                   \/ /\ n = Len(plan[c][sw])
                      /\ getSwitchesInState(apps[c], "Error") = {}
                      /\ getSwitchesInState(done, "Error")
                           \cup getSwitchesInState(done, "WithChangedCandidateConfiguration")
                               = Switches
                      /\ AllChanged(c, done)
             \/ /\ Receive(c, sw, "WaitOnChangeConfirmation", "Change", "error")
                /\ \E next : /\ next = "ErrorState" \/ next = "WaitOnChangeConfirmation"
                             /\ Enter(c, error, next, ToNone)
    BY ChangeCases, Zenon
<1>2. PICK changed, refused, none : changed = {"Configuration"} /\ refused = {"Error"} /\ none = {}
    OBVIOUS
<1>3. /\ Marking("Configuration", changed, none) /\ "Configuration" \in changed
      /\ Marking("Error", refused, none) /\ "Error" \in refused
    BY <1>2 DEF Marking
<1>4. done = WithFlags(c, sw, changed, none) /\ error = WithFlags(c, sw, refused, none)
    BY <1>1, <1>2
<1>5. ASSUME Receive(c, sw, "WaitOnChangeConfirmation", "Change", "error"),
             NEW next, next = "ErrorState" \/ next = "WaitOnChangeConfirmation",
             Enter(c, error, next, ToNone)
      PROVE  Progress(c)
    BY <1>3, <1>4, <1>5, ChangeNoted
<1>6. ASSUME Receive(c, sw, "WaitOnChangeConfirmation", "Change", "ok"),
             NEW next, next = "ErrorState" \/ next = "WaitOnChangeConfirmation",
             Enter(c, done, next, ToNone),
             \/ getSwitchesInState(apps[c], "Error") # {}
             \/ n = Len(plan[c][sw]) /\ Replied(c, sw, "Change", n, "ok")
      PROVE  Progress(c)
  <2>1. \/ \E s \in Switches : Has(c, s, "Error")
        \/ Replied(c, sw, "Change", Len(plan[c][sw]), "ok")
    <3>1. ASSUME getSwitchesInState(apps[c], "Error") # {}
          PROVE  \E s \in Switches : Has(c, s, "Error")
      <4>1. PICK s \in Switches : isInState(apps[c].flags[s], "Error")
          BY <3>1 DEF getSwitchesInState
      <4>2. apps[c].flags[s] \in SUBSET Flags
          BY ConversationFacts
      <4> QED BY <4>1, <4>2, InStateFacts DEF Has
    <3> QED BY <1>6, <3>1
  <2> QED BY <1>3, <1>4, <1>6, <2>1, ChangeNoted
<1>7. ASSUME Receive(c, sw, "WaitOnChangeConfirmation", "Change", "ok"),
             Replied(c, sw, "Change", n, "ok"), n < Len(plan[c][sw]),
             Enter(c, apps[c], "WaitOnChangeConfirmation", To(sw, "Change", n + 1))
      PROVE  Progress(c)
    BY <1>1, <1>7, ChangeSent
<1>8. ASSUME Receive(c, sw, "WaitOnChangeConfirmation", "Change", "ok"),
             Replied(c, sw, "Change", n, "ok"), n = Len(plan[c][sw]),
             getSwitchesInState(apps[c], "Error") = {},
             getSwitchesInState(done, "Error")
               \cup getSwitchesInState(done, "WithChangedCandidateConfiguration") = Switches,
             AllChanged(c, done)
      PROVE  Progress(c)
    BY <1>1, <1>8, ChangesAll
<1> QED BY <1>1, <1>5, <1>6, <1>7, <1>8, Zenon

(* The first changes are sent once all candidates are locked.              *)
LEMMA CandidateLockProgress ==
    ASSUME ProtocolInv, TransactionTypeOK', NEW c \in Apps, NEW sw \in Switches,
           handleMessageInWaitOnCandidateLockResponse(c, sw)
    PROVE  Progress(c)
<1>1. PICK set, reset, a, accepted, firsts :
          /\ set = {"LockedCandidate"} /\ reset = {} /\ a = WithFlags(c, sw, set, reset)
          /\ accepted = getSwitchesInState(a, "WithLockedCandidate") /\ firsts = FirstChanges
    OBVIOUS
<1>2. /\ Receive(c, sw, "WaitOnCandidateLockResponse", "Lock Candidate", "ok")
      /\ IF accepted = Switches THEN Enter(c, a, "WaitOnChangeConfirmation", firsts)
         ELSE Enter(c, a, "WaitOnCandidateLockResponse", ToNone)
    BY <1>1 DEF handleMessageInWaitOnCandidateLockResponse
<1>3. "WaitOnCandidateLockResponse" \in Early /\ "WaitOnCandidateLockResponse" \notin Leaving
    BY DEF Early, Leaving
<1>4. set \subseteq Flags /\ reset \subseteq Flags
    BY <1>1, Names
<1>5. "Commited" \notin set \cup reset /\ "CommitTimeStamp" \notin set \cup reset
    BY <1>1
<1>6. Plain(c, sw, set, reset, a) /\ Flagged(c, sw, set, reset, a)
    BY <1>1, <1>4 DEF Plain, Flagged
<1>7. /\ apps[c].state = "WaitOnCandidateLockResponse" /\ Shapes
      /\ \A s \in Switches : InCandidateLock(c, s)
    BY <1>2, Waiting, ConversationFacts, InStateCases
<1>8. ASSUME NEW next, next = "WaitOnChangeConfirmation" \/ next = "WaitOnCandidateLockResponse",
             NEW out, Sending(out), Enter(c, a, next, out)
      PROVE  Onward(c) /\ Moves(c, a, next) /\ Answered(c, sw, set, reset, out)
  <2>1. /\ next \in States /\ next # "WaitOnTimestampConfirmation"
        /\ next # "WaitOnCommitExecution"
      BY <1>8, Names
  <2>2. "Lock Candidate" # "Commit approved" /\ "Lock Candidate" # "Timestamp"
      OBVIOUS
  <2>3. Onward(c)
      BY <1>2, <1>3, <1>4, <1>5, <1>6, <1>8, <2>1, <2>2, PlainOnward
  <2>4. Moves(c, a, next) /\ Answered(c, sw, set, reset, out)
      BY <1>2, <1>6, <1>8, <2>1, Reaction
  <2> QED BY <2>3, <2>4
<1>9. CASE accepted = Switches
  <2>1. Sending(firsts) /\ \A s \in Switches : firsts[s] = << Message("Change", 1) >>
      BY <1>1, FirstChangesFacts
  <2>2. Enter(c, a, "WaitOnChangeConfirmation", firsts)
      BY <1>2, <1>9
  <2>3. /\ Onward(c) /\ Moves(c, a, "WaitOnChangeConfirmation")
        /\ Answered(c, sw, set, reset, firsts)
      BY <1>8, <2>1, <2>2
  <2>4. apps'[c].state = "WaitOnChangeConfirmation" /\ stores' = stores /\ plan' = plan
      BY <2>3 DEF Moves, Elsewhere
  <2>5. ASSUME NEW s \in Switches PROVE Asked(c, s, "Change", 1)'
    <3>1. Sends(c, s, firsts)
      <4>1. CASE s = sw
          BY <2>3, <4>1 DEF Answered
      <4>2. CASE s # sw
        <5>1. isInState(a.flags[s], "WithLockedCandidate")
            BY <1>1, <1>9 DEF getSwitchesInState
        <5>2. a.flags[s] = apps[c].flags[s] /\ apps[c].flags[s] \in SUBSET Flags
            BY <1>6, <1>7, <4>2, ConversationFacts, WithFlagsFacts
        <5>3. Has(c, s, "LockedCandidate")
            BY <5>1, <5>2, InStateFacts DEF Has
        <5>4. Silent(c, s)
            BY <1>7, <5>3 DEF InCandidateLock, AskedUnless, HasNone
        <5> QED BY <2>3, <4>2, <5>4 DEF Answered
      <4> QED BY <4>1, <4>2
    <3> QED BY <2>1, <3>1, Names DEF Sends
  <2>6. ASSUME NEW s \in Switches, Holds(c, s), Expected(c, s) PROVE Staging(c, s)'
    <3>1. stores[s].candidate = << >>
        BY <1>7, <2>6 DEF Expected
    <3>2. \A n : Asked(c, s, "Change", n)' => n = 1
      <4>1. \A x, y : << x >> = << y >> => x = y
          OBVIOUS
      <4>2. \A n : Message("Change", n).n = n
          BY DEF Message
      <4> QED BY <2>5, <4>1, <4>2 DEF Asked
    <3>3. \A n, st : ~ Replied(c, s, "Change", n, st)'
      <4>1. \A x : << x >> # << >>
          OBVIOUS
      <4> QED BY <2>5, <4>1 DEF Asked, Replied
    <3>4. ~ Has(c, s, "Configuration")'
      <4>1. ~ Has(c, s, "Configuration")
          BY <1>7 DEF InCandidateLock, HasNone
      <4> QED BY <1>1, <2>3, <4>1 DEF Answered, Marks
    <3>5. FirstOf(stores[s].candidate, plan[c][s], 1 - 1)
      <4>1. plan[c][s] \in Seq(Changes)
          BY Plan
      <4> QED BY <3>1, <4>1, FirstOfNone
    <3> QED BY <2>4, <3>2, <3>3, <3>4, <3>5 DEF Staging
  <2>7. ASSUME NEW s \in Switches, Holds(c, s), Expected(c, s) PROVE Expected(c, s)'
      BY <2>4, <2>6, <2>7 DEF Expected
  <2> QED BY <2>3, <2>7 DEF Progress
<1>10. CASE accepted # Switches
  <2>1. /\ Onward(c) /\ Moves(c, a, "WaitOnCandidateLockResponse")
      BY <1>2, <1>8, <1>10, ToNoneFacts
  <2>2. apps'[c].state = "WaitOnCandidateLockResponse" /\ stores' = stores /\ plan' = plan
      BY <2>1 DEF Moves, Elsewhere
  <2>3. ASSUME NEW s \in Switches, Holds(c, s), Expected(c, s) PROVE Expected(c, s)'
      BY <1>7, <2>2, <2>3 DEF Expected
  <2> QED BY <2>1, <2>3 DEF Progress
<1> QED BY <1>9, <1>10

(* The commit is released once all switches have accepted a timestamp that *)
(* is far enough ahead.                                                    *)
LEMMA TimestampProgress ==
    ASSUME ProtocolInv, TransactionTypeOK', NEW c \in Apps, NEW sw \in Switches,
           handleMessageInWaitOnTimestampConfirmation(c, sw)
    PROVE  Progress(c)
<1>1. PICK status \in {"ok", "error"} :
          /\ Receive(c, sw, "WaitOnTimestampConfirmation", "Timestamp", status)
          /\ LET a == WithFlags(c, sw, {IF status = "ok" THEN "CommitTimeStamp" ELSE "Error"}, {})
                 accepted == getSwitchesInState(a, "WithTimestamp")
                 failed   == getSwitchesInState(a, "Error")
             IN CASE accepted = Switches /\ checkCommitrelease(a)
                       -> Enter(c, a, "WaitOnCommitExecution", ToAll("Commit approved"))
                  [] accepted \cup failed = Switches /\ ~ (accepted = Switches /\ checkCommitrelease(a))
                       -> Enter(c, a, "ErrorState", ToNone)
                  [] OTHER -> Enter(c, a, "WaitOnTimestampConfirmation", ToNone)
    BY DEF handleMessageInWaitOnTimestampConfirmation
<1>2. PICK flag, set, reset, a, releases :
          /\ flag = (IF status = "ok" THEN "CommitTimeStamp" ELSE "Error")
          /\ set = {flag} /\ reset = {} /\ a = WithFlags(c, sw, set, reset)
          /\ releases = ToAll("Commit approved")
    OBVIOUS
<1>3. \/ checkCommitrelease(a) /\ Enter(c, a, "WaitOnCommitExecution", releases)
      \/ Enter(c, a, "ErrorState", ToNone)
      \/ Enter(c, a, "WaitOnTimestampConfirmation", ToNone)
    BY <1>1, <1>2
<1>4. Sending(releases) /\ Sending(ToNone)
    BY <1>2, Names, ToAllFacts, ToNoneFacts
<1>5. \E next, out :
          /\ \/ next = "WaitOnCommitExecution" /\ checkCommitrelease(a)
             \/ next = "ErrorState" \/ next = "WaitOnTimestampConfirmation"
          /\ Sending(out) /\ Enter(c, a, next, out)
    BY <1>3, <1>4, Zenon
<1>6. PICK next, out :
          /\ \/ next = "WaitOnCommitExecution" /\ checkCommitrelease(a)
             \/ next = "ErrorState" \/ next = "WaitOnTimestampConfirmation"
          /\ Sending(out) /\ Enter(c, a, next, out)
    BY <1>5
<1>7. apps[c].state = "WaitOnTimestampConfirmation"
    BY <1>1 DEF Receive
<1>8. TimeKept(c, a) /\ Flagged(c, sw, set, reset, a)
  <2>1. Plain(c, sw, set, reset, a)
      BY <1>2 DEF Plain
  <2>2. set \subseteq Flags /\ reset \subseteq Flags
      BY <1>2, Names
  <2> QED BY <1>2, <2>1, <2>2, PlainTime DEF Flagged
<1>9. Turn(c, a, next, out)
  <2>1. /\ "WaitOnTimestampConfirmation" \notin Leaving /\ next \notin Early
        /\ "WaitOnTimestampConfirmation" # "WaitOnCommitExecution"
      BY <1>6 DEF Early, Leaving
  <2>2. next = "WaitOnCommitExecution" => a.timestamp > ReleaseLead
      BY <1>6 DEF checkCommitrelease
  <2> QED BY <1>7, <1>8, <2>1, <2>2 DEF Turn, TimeKept
<1>10. Reacts(c, sw, "Timestamp", status, set, reset, a, next, out)
  <2>1. next \in States
      BY <1>6, Names
  <2>2. /\ "Commited" \notin reset /\ "CommitTimeStamp" \notin reset /\ "Commited" \notin set
        /\ "CommitTimeStamp" \in set <=> status = "ok"
      BY <1>2
  <2>3. "Timestamp" # "Commit approved"
      OBVIOUS
  <2> QED BY <1>1, <1>6, <1>7, <1>8, <1>9, <2>1, <2>2, <2>3 DEF Reacts
<1>11. Onward(c)
    BY <1>10, ReactsOnward
<1>12. apps'[c].state = next /\ stores' = stores /\ plan' = plan
  <2>1. next \in States
      BY <1>6, Names
  <2>2. Moves(c, a, next)
      BY <1>1, <1>6, <1>8, <2>1, Reaction
  <2> QED BY <2>2 DEF Moves, Elsewhere
<1>13. ASSUME NEW s \in Switches, Expected(c, s) PROVE Expected(c, s)'
  <2>1. stores[s].candidate = plan[c][s]
      BY <1>7, <1>13 DEF Expected
  <2> QED BY <1>6, <1>12, <2>1 DEF Expected
<1> QED BY <1>11, <1>13 DEF Progress

LEMMA CommitProgress ==
    ASSUME ProtocolInv, TransactionTypeOK', NEW c \in Apps, NEW sw \in Switches,
           handleMessageInWaitOnCommitExecution(c, sw)
    PROVE  Progress(c)
<1>1. PICK set, reset, a, deletes : /\ set = {"Commited"} /\ reset = {}
                                    /\ a = WithFlags(c, sw, set, reset)
                                    /\ deletes = ToAll("Delete Old Config")
    OBVIOUS
<1>2. /\ Receive(c, sw, "WaitOnCommitExecution", "Commit approved", "ok")
      /\ \/ Enter(c, a, "WaitOnDeleteOldConfiguration", deletes)
         \/ Enter(c, a, "WaitOnCommitExecution", ToNone)
    BY <1>1 DEF handleMessageInWaitOnCommitExecution
<1>3. Sending(deletes) /\ Sending(ToNone)
    BY <1>1, Names, ToAllFacts, ToNoneFacts
<1>4. PICK next, out :
          /\ \/ next = "WaitOnDeleteOldConfiguration"
             \/ next = "WaitOnCommitExecution" /\ out = ToNone
          /\ Sending(out) /\ Enter(c, a, next, out)
    BY <1>2, <1>3, Zenon
<1>5. apps[c].state = "WaitOnCommitExecution"
    BY <1>2 DEF Receive
<1>6. TimeKept(c, a) /\ Flagged(c, sw, set, reset, a)
  <2>1. Plain(c, sw, set, reset, a)
      BY <1>1 DEF Plain
  <2>2. set \subseteq Flags /\ reset \subseteq Flags
      BY <1>1, Names
  <2> QED BY <1>1, <2>1, <2>2, PlainTime DEF Flagged
<1>7. Turn(c, a, next, out)
  <2>1. /\ "WaitOnCommitExecution" \notin Leaving /\ next \notin Early
        /\ next # "WaitOnTimestampConfirmation"
      BY <1>4 DEF Early, Leaving
  <2> QED BY <1>4, <1>5, <1>6, <2>1 DEF Turn, TimeKept
<1>8. next \in States
    BY <1>4, Names
<1>9. Reacts(c, sw, "Commit approved", "ok", set, reset, a, next, out)
  <2>1. /\ "Commited" \notin reset /\ "CommitTimeStamp" \notin reset /\ "Commited" \in set
        /\ "CommitTimeStamp" \notin set
      BY <1>1
  <2>2. "Timestamp" # "Commit approved"
      OBVIOUS
  <2> QED BY <1>2, <1>4, <1>5, <1>6, <1>7, <1>8, <2>1, <2>2 DEF Reacts
<1>10. Onward(c)
    BY <1>9, ReactsOnward
<1>11. apps'[c].state = next /\ stores' = stores /\ plan' = plan
  <2>1. Moves(c, a, next)
      BY <1>2, <1>4, <1>6, <1>8, Reaction
  <2> QED BY <2>1 DEF Moves, Elsewhere
<1>12. ASSUME NEW s \in Switches, Expected(c, s) PROVE Expected(c, s)'
  <2>1. stores[s].candidate = plan[c][s] \/ Did(c, s) \/ Failed(c, s)
      BY <1>5, <1>12 DEF Expected
  <2>2. (Did(c, s)' <=> Did(c, s)) /\ (Failed(c, s)' <=> Failed(c, s))
      BY <1>10 DEF Onward
  <2> QED BY <1>4, <1>11, <2>1, <2>2 DEF Expected
<1> QED BY <1>10, <1>12 DEF Progress

(* Every step of an app but the end of the simulation.                     *)
LEMMA AppProgress ==
    ASSUME ProtocolInv, TransactionTypeOK', NEW c \in Apps, AppStep(c)
    PROVE  Progress(c) \/ \E sw \in Switches : checkEventHandled(c, sw)
<1>1. CASE handleMessageInBeginOfTransaction(c)
    BY <1>1, BeginProgress
<1>2. CASE handleMessageInErrorState(c)
    BY <1>2, ErrorProgress
<1>3. ASSUME NEW sw \in Switches,
             \/ handleMessageInWaitOnLockResponse(c, sw)
             \/ handleMessageInWaitOnCandidateConfirmation(c, sw)
             \/ handleMessageInWaitOnCandidateLockResponse(c, sw)
             \/ handleMessageInWaitOnChangeConfirmation(c, sw)
      PROVE  Progress(c)
    BY <1>3, LockProgress, CopyProgress, CandidateLockProgress, ChangeProgress
<1>4. ASSUME NEW sw \in Switches,
             \/ handleMessageInWaitOnTimestampConfirmation(c, sw)
             \/ handleMessageInWaitOnCommitExecution(c, sw)
      PROVE  Progress(c)
    BY <1>4, TimestampProgress, CommitProgress
<1>5. ASSUME NEW sw \in Switches,
             \/ handleMessageInWaitOnDeleteOldConfiguration(c, sw)
             \/ handleMessageInWaitOnDeleteCandidate(c, sw)
             \/ handleMessageInWaitOnUnlock(c, sw)
      PROVE  Progress(c)
    BY <1>5, DeleteOldProgress, UnlockProgress
<1> QED BY <1>1, <1>2, <1>3, <1>4, <1>5 DEF AppStep

(* What a step that is not about an app and a switch leaves of what is     *)
(* expected of the candidate.                                              *)
LEMMA ExpectedKept ==
    ASSUME NEW d \in Apps, NEW s \in Switches, \A t \in Switches : Untouched(d, t),
           apps'[d].state = apps[d].state, plan' = plan,
           stores'[s].candidate = stores[s].candidate, Expected(d, s)
    PROVE  Expected(d, s)'
<1>1. /\ \A id, n : Asked(d, s, id, n)' <=> Asked(d, s, id, n)
      /\ \A id, n, st : Replied(d, s, id, n, st)' <=> Replied(d, s, id, n, st)
      /\ \A t \in Switches : \A f : Has(d, t, f)' <=> Has(d, t, f)
    BY Aside
<1>2. Unfailed(d)' <=> Unfailed(d)
    BY <1>1 DEF Unfailed
<1>3. (Did(d, s)' <=> Did(d, s)) /\ (Failed(d, s)' <=> Failed(d, s))
    BY <1>1 DEF Did, Failed
<1>4. Staging(d, s) => Staging(d, s)'
    BY <1>1, <1>2 DEF Staging
<1> QED BY <1>3, <1>4 DEF Expected

LEMMA AppCommitInv ==
    ASSUME ProtocolInv, CommitInv, NEW c \in Apps, Progress(c)
    PROVE  CommitInv'
<1>1. /\ Elsewhere(c) /\ Shapes
      /\ apps[c].state \notin Early => apps'[c].state \notin Early
      /\ apps[c].state \in Leaving => apps'[c].state \in Leaving
      /\ apps'[c].state = "WaitOnTimestampConfirmation" =>
            apps[c].state = "WaitOnTimestampConfirmation" \/ c \in TimedApps
      /\ \A s \in Switches : Holds(c, s) /\ Expected(c, s) => Expected(c, s)'
    BY ConversationFacts DEF Progress, Onward
<1>2. stores' = stores /\ plan' = plan /\ Apps' = Apps
    BY <1>1 DEF Elsewhere, Apps
<1>3. ASSUME NEW d \in Apps, d # c
      PROVE  apps'[d] = apps[d] /\ \A s \in Switches : Untouched(d, s)
    BY <1>1, <1>3 DEF Elsewhere, Apps, Untouched, Has
<1>4. Undisturbed'
    BY <1>2 DEF CommitInv, Undisturbed
<1>5. TimestampsTimed'
    BY <1>1, <1>2, <1>3 DEF CommitInv, TimestampsTimed
<1>6. ASSUME NEW s \in Switches PROVE Timer(s)'
  <2>1. PICK d : d = stores[s]
      OBVIOUS
  <2>2. Timer(s)
      BY DEF CommitInv
  <2>3. d.commitTimestamp # NoSession =>
            /\ d.commitTimestamp \in Apps \cap TimedApps
            /\ apps'[d.commitTimestamp].state \notin Early
      BY <1>1, <1>3, <2>1, <2>2 DEF Timer
  <2>4. d.commitOperation \in Sessions \ Apps =>
            \A e \in Apps : apps'[e].state \in Leaving /\ d.runningLock # e
      BY <1>1, <1>3, <2>1, <2>2 DEF Timer
  <2> QED BY <1>2, <2>1, <2>2, <2>3, <2>4 DEF Timer
<1>7. ASSUME NEW d \in Apps, NEW s \in Switches, Holds(d, s)' PROVE Expected(d, s)'
  <2>1. Holds(d, s)
      BY <1>2, <1>7 DEF Holds
  <2>2. Expected(d, s)
      BY <2>1 DEF CommitInv, CandidatesOwned
  <2>3. CASE d = c
      BY <1>1, <2>1, <2>2, <2>3
  <2>4. CASE d # c
      BY <1>2, <1>3, <2>2, <2>4, ExpectedKept
  <2> QED BY <2>3, <2>4
<1>8. CandidatesOwned'
    BY <1>2, <1>7 DEF CandidatesOwned
<1> QED BY <1>4, <1>5, <1>6, <1>8 DEF CommitInv

LEMMA CycleCommitInv ==
    ASSUME ProtocolInv, CommitInv, newCycle
    PROVE  CommitInv'
<1>1. Shapes
    BY DEF ProtocolInv
<1>2. /\ apps' = [c \in Sessions |-> [apps[c] EXCEPT
                      !.timestamp = IF @ = -1 THEN -1 ELSE @ - 1,
                      !.released = IF c \in TimedApps /\ CommitUnderWay(c) THEN @ + 1 ELSE @]]
      /\ stores' = [sw \in Switches |->
                       IF subscribed(stores[sw]) /\ CyclesToCommit(sw) = 1
                       THEN [stores[sw] EXCEPT !.timedCommits = 1] ELSE stores[sw]]
      /\ plan' = plan /\ requests' = requests /\ replies' = replies
    BY DEF newCycle
<1>3. ASSUME NEW c \in Apps
      PROVE  apps'[c].state = apps[c].state /\ \A s \in Switches : Untouched(c, s)
  <2>1. apps[c] \in AppRecords /\ c \in Sessions
      BY <1>1 DEF Shapes, Apps
  <2>2. PICK time, since : apps'[c] = [apps[c] EXCEPT !.timestamp = time, !.released = since]
      BY <1>2, <2>1
  <2>3. apps'[c].state = apps[c].state /\ apps'[c].flags = apps[c].flags
      BY <2>1, <2>2 DEF AppRecords
  <2> QED BY <1>2, <2>3 DEF Untouched, Has
<1>4. ASSUME NEW sw \in Switches
      PROVE  /\ stores'[sw].runningLock = stores[sw].runningLock
             /\ stores'[sw].candidateLock = stores[sw].candidateLock
             /\ stores'[sw].commitTimestamp = stores[sw].commitTimestamp
             /\ stores'[sw].commitOperation = stores[sw].commitOperation
             /\ stores'[sw].candidate = stores[sw].candidate
             /\ \/ stores'[sw].timedCommits = stores[sw].timedCommits
                \/ stores'[sw].timedCommits = 1 /\ stores[sw].commitOperation # NoSession
  <2>1. stores[sw] \in Stores
      BY <1>1 DEF Shapes
  <2>2. \/ /\ stores'[sw] = [stores[sw] EXCEPT !.timedCommits = 1]
           /\ stores[sw].commitOperation # NoSession
        \/ stores'[sw] = stores[sw]
      BY <1>2 DEF subscribed
  <2> QED BY <2>1, <2>2 DEF Stores
<1>5. Apps' = Apps
    BY <1>2 DEF Apps
<1>6. Undisturbed' /\ TimestampsTimed'
    BY <1>3, <1>5 DEF CommitInv, Undisturbed, TimestampsTimed
<1>7. ASSUME NEW sw \in Switches PROVE Timer(sw)'
  <2>1. Timer(sw)
      BY DEF CommitInv
  <2> QED BY <1>3, <1>4, <1>5, <2>1 DEF Timer
<1>8. ASSUME NEW d \in Apps, NEW s \in Switches, Holds(d, s)' PROVE Expected(d, s)'
  <2>1. Holds(d, s)
      BY <1>4, <1>8 DEF Holds
  <2>2. Expected(d, s)
      BY <2>1 DEF CommitInv, CandidatesOwned
  <2> QED BY <1>2, <1>3, <1>4, <2>2, ExpectedKept
<1>9. CandidatesOwned'
    BY <1>5, <1>8 DEF CandidatesOwned
<1> QED BY <1>6, <1>7, <1>9 DEF CommitInv

(* A scheduled commit is executed for the app that waits for it, or when   *)
(* no app holds the switch.                                                *)
LEMMA ScheduledHolds ==
    ASSUME ProtocolInv, NEW b \in Apps, NEW sw \in Switches, stores[sw].commitOperation = b
    PROVE  /\ Holds(b, sw) /\ apps[b].state = "WaitOnCommitExecution"
           /\ Silent(b, sw) /\ ~ Has(b, sw, "Commited")
<1>1. apps[b].state = "WaitOnCommitExecution" /\ Silent(b, sw) /\ ~ Has(b, sw, "Commited")
    BY DEF ProtocolInv, CommitAwaited
<1>2. InCommit(b, sw)
    BY <1>1, ConversationFacts, InStateCases
<1>3. \A id, n, st : ~ Replied(b, sw, id, n, st)
    BY <1>1, Spoken DEF OneThing
<1>4. Owns(b, sw) /\ OwnsCandidate(b, sw)
    BY <1>2, <1>3 DEF InCommit, HasAll, Staged, Owns, OwnsCandidate
<1>5. Holds(b, sw)
    BY <1>4, ConversationFacts DEF Holds
<1> QED BY <1>1, <1>5

LEMMA ScheduledAlone ==
    ASSUME ProtocolInv, CommitInv, NEW sw \in Switches, stores[sw].timedCommits > 0,
           NEW e \in Apps, e # stores[sw].commitOperation
    PROVE  ~ Holds(e, sw)
<1>1. PICK d, b : d = stores[sw] /\ b = stores[sw].commitOperation
    OBVIOUS
<1>2. Timer(sw) /\ d.timedCommits = 1
    BY <1>1 DEF CommitInv, Timer
<1>3. ASSUME Holds(e, sw) PROVE FALSE
  <2>1. CASE b \in Apps
    <3>1. Holds(b, sw)
        BY <1>1, <2>1, ScheduledHolds
    <3> QED BY <1>1, <1>3, <3>1 DEF Holds
  <2>2. CASE b \notin Apps
    <3>1. stores[sw] \in Stores
        BY DEF ProtocolInv, Shapes
    <3>2. b \in Sessions \ Apps
        BY <1>1, <1>2, <2>2, <3>1 DEF Timer, Stores
    <3> QED BY <1>1, <1>2, <1>3, <3>2 DEF Timer, Holds
  <2> QED BY <2>1, <2>2
<1> QED BY <1>3

LEMMA TimedCommitEffects ==
    ASSUME ProtocolInv, NEW sw \in Switches, TimedCommit(sw)
    PROVE  \E o, b :
              /\ o = executeTimedCommit(stores[sw]) /\ b = stores[sw].commitOperation
              /\ stores[sw] \in Stores /\ stores[sw].timedCommits > 0
              /\ o.reply = "ok" \/ o.reply = "error"
              /\ o.stores.runningLock = stores[sw].runningLock
              /\ o.stores.candidateLock = stores[sw].candidateLock
              /\ o.stores.commitOperation = NoSession /\ o.stores.commitTimestamp = NoSession
              /\ o.stores.timedCommits = stores[sw].timedCommits - 1
              /\ stores'[sw] = o.stores /\ \A s \in Switches \ {sw} : stores'[s] = stores[s]
              /\ plan' = plan /\ apps' = apps
              /\ \A e \in Apps, s \in Switches : e # b \/ s # sw => Untouched(e, s)
              /\ b \in Apps => Replied(b, sw, "Commit approved", 0, o.reply)'
<1>1. Shapes /\ stores[sw] \in Stores
    BY DEF ProtocolInv, Shapes
<1>2. PICK o, b, d : /\ d = stores[sw] /\ o = executeTimedCommit(d)
                     /\ b = stores[sw].commitOperation
    OBVIOUS
<1>3. PICK reply : reply = [id |-> "Commit approved", n |-> 0, status |-> o.reply]
    OBVIOUS
<1>4. /\ d.timedCommits > 0 /\ stores' = [stores EXCEPT ![sw] = o.stores]
      /\ replies' = [replies EXCEPT ![b] = [replies[b] EXCEPT ![sw] = Append(replies[b][sw], reply)]]
      /\ plan' = plan /\ apps' = apps /\ requests' = requests
    BY <1>2, <1>3 DEF TimedCommit
<1>5. /\ o.reply = "ok" \/ o.reply = "error"
      /\ o.stores.runningLock = d.runningLock /\ o.stores.candidateLock = d.candidateLock
      /\ o.stores.commitOperation = NoSession /\ o.stores.commitTimestamp = NoSession
      /\ o.stores.timedCommits = d.timedCommits - 1
    BY <1>1, <1>2, <1>4, TimedCommitFacts
<1>6. stores'[sw] = o.stores /\ \A s \in Switches \ {sw} : stores'[s] = stores[s]
    BY <1>1, <1>4 DEF Shapes
<1>7. ASSUME NEW e \in Apps, NEW s \in Switches, e # b \/ s # sw PROVE Untouched(e, s)
  <2>1. replies'[e][s] = replies[e][s]
    <3>1. replies \in [Sessions -> [Switches -> Seq(Replies)]] /\ e \in Sessions
        BY <1>1 DEF Shapes, Apps
    <3>2. PICK f : f = [replies[b] EXCEPT ![sw] = Append(replies[b][sw], reply)]
        OBVIOUS
    <3>3. e = b => f[s] = replies[e][s]
        BY <1>7, <3>1, <3>2
    <3> QED BY <1>4, <3>1, <3>2, <3>3
  <2> QED BY <1>4, <2>1 DEF Untouched, Has
<1>8. ASSUME b \in Apps PROVE Replied(b, sw, "Commit approved", 0, o.reply)'
  <2>1. Silent(b, sw)
      BY <1>2, <1>8 DEF ProtocolInv, CommitAwaited
  <2>2. requests'[b][sw] = << >> /\ replies[b][sw] = << >>
      BY <1>4, <2>1 DEF Silent
  <2>3. replies'[b][sw] = << reply >>
    <3>1. replies \in [Sessions -> [Switches -> Seq(Replies)]] /\ b \in Sessions
        BY <1>1, <1>8 DEF Shapes, Apps
    <3>2. PICK f : f = [replies[b] EXCEPT ![sw] = Append(replies[b][sw], reply)]
        OBVIOUS
    <3>3. f[sw] = Append(replies[b][sw], reply)
        BY <3>1, <3>2
    <3>4. Append(<< >>, reply) = << reply >>
        OBVIOUS
    <3> QED BY <1>4, <2>2, <3>1, <3>2, <3>3, <3>4
  <2> QED BY <1>3, <2>2, <2>3 DEF Replied
<1>9. /\ stores[sw].timedCommits > 0
      /\ o.stores.runningLock = stores[sw].runningLock
      /\ o.stores.candidateLock = stores[sw].candidateLock
      /\ o.stores.timedCommits = stores[sw].timedCommits - 1
      /\ o = executeTimedCommit(stores[sw]) /\ b = stores[sw].commitOperation
    BY <1>2, <1>4, <1>5
<1>10. \A e \in Apps, s \in Switches : e # b \/ s # sw => Untouched(e, s)
    BY <1>7
<1> QED BY <1>1, <1>4, <1>5, <1>6, <1>8, <1>9, <1>10

LEMMA TimedCommitCommitInv ==
    ASSUME ProtocolInv, CommitInv, NEW sw \in Switches, TimedCommit(sw)
    PROVE  CommitInv'
<1>1. PICK o, b :
          /\ b = stores[sw].commitOperation
          /\ stores[sw] \in Stores /\ stores[sw].timedCommits > 0
          /\ o.reply = "ok" \/ o.reply = "error"
          /\ o.stores.runningLock = stores[sw].runningLock
          /\ o.stores.candidateLock = stores[sw].candidateLock
          /\ o.stores.commitOperation = NoSession /\ o.stores.commitTimestamp = NoSession
          /\ o.stores.timedCommits = stores[sw].timedCommits - 1
          /\ stores'[sw] = o.stores /\ \A s \in Switches \ {sw} : stores'[s] = stores[s]
          /\ plan' = plan /\ apps' = apps
          /\ \A e \in Apps, s \in Switches : e # b \/ s # sw => Untouched(e, s)
          /\ b \in Apps => Replied(b, sw, "Commit approved", 0, o.reply)'
    BY TimedCommitEffects
<1>2. Apps' = Apps /\ Undisturbed' /\ TimestampsTimed'
    BY <1>1 DEF CommitInv, Undisturbed, TimestampsTimed, Apps
<1>3. ASSUME NEW s \in Switches PROVE Timer(s)'
  <2>1. Timer(s)
      BY DEF CommitInv
  <2>2. CASE s # sw
    <3>1. stores'[s] = stores[s] /\ apps' = apps
        BY <1>1, <2>2
    <3> QED BY <1>2, <2>1, <3>1 DEF Timer
  <2>3. CASE s = sw
    <3>1. PICK d : d = stores[sw]
        OBVIOUS
    <3>2. d.timedCommits > 0 /\ (d.timedCommits = 0 \/ d.timedCommits = 1)
        BY <1>1, <2>1, <2>3, <3>1 DEF Timer
    <3>3. PICK e : /\ e = stores'[sw] /\ e.timedCommits = d.timedCommits - 1
                   /\ e.commitOperation = NoSession /\ e.commitTimestamp = NoSession
        BY <1>1, <3>1
    <3>4. e.timedCommits = 0 /\ NoSession \notin Sessions \ Apps
        BY <3>2, <3>3, NoSessionAssumption
    <3>5. /\ stores'[s].timedCommits = 0 /\ stores'[s].commitOperation = NoSession
          /\ stores'[s].commitTimestamp = NoSession
        BY <2>3, <3>3, <3>4
    <3> QED BY <1>2, <3>4, <3>5 DEF Timer
  <2> QED BY <2>2, <2>3
<1>4. ASSUME NEW e \in Apps, NEW s \in Switches, Holds(e, s)' PROVE Expected(e, s)'
  <2>1. Holds(e, s)
      BY <1>1, <1>4 DEF Holds
  <2>2. Expected(e, s)
      BY <2>1 DEF CommitInv, CandidatesOwned
  <2>3. CASE s # sw
    <3>1. \A id, n, st : Replied(e, s, id, n, st)' <=> Replied(e, s, id, n, st)
        BY <1>1, <2>3, Aside
    <3>2. \A id, n : Asked(e, s, id, n)' <=> Asked(e, s, id, n)
        BY <1>1, <2>3, Aside
    <3>3. \A t \in Switches : \A f : Has(e, t, f)' <=> Has(e, t, f)
        BY <1>1 DEF Has
    <3>4. Unfailed(e)' <=> Unfailed(e)
        BY <3>3 DEF Unfailed
    <3>5. (Did(e, s)' <=> Did(e, s)) /\ (Failed(e, s)' <=> Failed(e, s))
        BY <3>1, <3>3 DEF Did, Failed
    <3>6. Staging(e, s) => Staging(e, s)'
        BY <1>1, <2>3, <3>1, <3>2, <3>3, <3>4 DEF Staging
    <3> QED BY <1>1, <2>2, <2>3, <3>5, <3>6 DEF Expected
  <2>4. CASE s = sw
    <3>1. e = b
        BY <1>1, <2>1, <2>4, ScheduledAlone
    <3>2. apps[e].state = "WaitOnCommitExecution"
        BY <1>1, <3>1, ScheduledHolds
    <3>3. Did(e, s)' \/ Failed(e, s)'
        BY <1>1, <2>4, <3>1 DEF Did, Failed
    <3> QED BY <1>1, <3>2, <3>3 DEF Expected
  <2> QED BY <2>3, <2>4
<1>5. CandidatesOwned'
    BY <1>2, <1>4 DEF CandidatesOwned
<1> QED BY <1>2, <1>3, <1>5 DEF CommitInv

-----------------------------------------------------------------------------
(* The operations on the stores: timestamp, scheduled commit, candidate.   *)
TimerKept(d, e) ==
    /\ e.commitTimestamp = d.commitTimestamp /\ e.commitOperation = d.commitOperation
    /\ e.timedCommits = d.timedCommits

Scheduled(d, c, e) ==
    /\ verifyLock(d.runningLock, c) /\ d.commitTimestamp # NoSession
    /\ e.commitTimestamp = d.commitTimestamp /\ e.commitOperation = c
    /\ executeAtStartOfPeriod => e.timedCommits = d.timedCommits
    /\ e.candidate = d.candidate /\ e.running = d.running
    /\ e.runningLock = d.runningLock /\ e.candidateLock = d.candidateLock

LEMMA LockKeeps ==
    ASSUME NEW d \in Stores, NEW c \in Sessions, NEW target \in {"running", "candidate"},
           NEW o, o = handleLock(d, target, c) \/ o = handleUnlock(d, target, c)
    PROVE  TimerKept(d, o.stores) /\ o.stores.candidate = d.candidate
<1>1. \/ o = Ok([d EXCEPT !.runningLock = c]) \/ o = Ok([d EXCEPT !.candidateLock = c])
      \/ o = Ok([d EXCEPT !.runningLock = NoSession])
      \/ o = Ok([d EXCEPT !.candidateLock = NoSession]) \/ o = Error(d)
    BY DEF handleLock, handleUnlock
<1> QED BY <1>1 DEF Ok, Error, TimerKept, Stores

LEMMA CandidateLockEmpty ==
    ASSUME NEW d \in Stores, NEW c \in Sessions,
           NEW o, o = handleLock(d, "candidate", c), o.stores.candidateLock = c
    PROVE  d.candidateLock = c \/ d.candidate = << >>
<1>1. o = Error(d) \/ d.candidate = << >>
    BY DEF handleLock
<1> QED BY <1>1 DEF Error

LEMMA EditKeeps ==
    ASSUME NEW d \in Stores, NEW c \in Sessions, NEW target \in {"running", "candidate"},
           NEW change \in Changes, NEW o, o = handleEditConfig(d, target, c, change)
    PROVE  /\ TimerKept(d, o.stores)
           /\ target = "candidate" => \/ o.reply = "error" /\ o.stores.candidate = d.candidate
                                      \/ o.stores.candidate = Append(d.candidate, change)
<1>1. PICK longer, wider : /\ longer = Append(d.candidate, change)
                           /\ wider = d.running \cup {change}
    OBVIOUS
<1>2. \/ target = "running" /\ o = Ok([d EXCEPT !.running = wider])
      \/ o = Ok([d EXCEPT !.candidate = longer]) \/ o = Error(d)
    BY <1>1 DEF handleEditConfig
<1>3. \A e : e = [d EXCEPT !.candidate = longer] => TimerKept(d, e) /\ e.candidate = longer
    BY DEF TimerKept, Stores
<1>4. \A e : e = [d EXCEPT !.running = wider] => TimerKept(d, e)
    BY DEF TimerKept, Stores
<1>5. TimerKept(d, d)
    BY DEF TimerKept
<1> QED BY <1>1, <1>2, <1>3, <1>4, <1>5 DEF Ok, Error

LEMMA ApplyKeeps ==
    ASSUME NEW d \in Stores
    PROVE  TimerKept(d, applyTo(d).stores)
<1>1. PICK done \in Stores :
          /\ applyTo(d) = Ok(done) \/ applyTo(d) = Error(done)
          /\ done.commitTimestamp = d.commitTimestamp
          /\ done.commitOperation = d.commitOperation /\ done.timedCommits = d.timedCommits
    BY ApplyFacts
<1> QED BY <1>1 DEF TimerKept, Ok, Error

LEMMA CopyKeeps ==
    ASSUME NEW d \in Stores, NEW c \in Sessions, NEW source \in {"running", "candidate"},
           NEW o, o = handleCopyConfig(d, source, c)
    PROVE  TimerKept(d, o.stores)
<1>1. PICK e : e = [d EXCEPT !.candidate = << >>]
    OBVIOUS
<1>2. o = Error(d) \/ o = applyTo(d) \/ o = Ok(e)
    BY <1>1 DEF handleCopyConfig
<1>3. TimerKept(d, d) /\ TimerKept(d, e)
    BY <1>1, FieldFacts DEF TimerKept
<1> QED BY <1>2, <1>3, ApplyKeeps DEF Ok, Error

LEMMA DeleteKeeps ==
    ASSUME NEW d \in Stores, NEW c \in Sessions, NEW o, o = handleDeleteConfig(d, "candidate", c)
    PROVE  TimerKept(d, o.stores)
<1>1. PICK e : e = [d EXCEPT !.candidate = << >>, !.candidateLock = NoSession]
    OBVIOUS
<1>2. o = Error(d) \/ o = Ok(e)
    BY <1>1 DEF handleDeleteConfig
<1>3. TimerKept(d, d) /\ TimerKept(d, e)
    BY <1>1, FieldFacts DEF TimerKept
<1> QED BY <1>2, <1>3 DEF Ok, Error

LEMMA TimestampKeeps ==
    ASSUME NEW d \in Stores, NEW c \in Sessions, NEW inPast,
           NEW o, o = handleEditTimestamp(d, "candidate", c, inPast)
    PROVE  /\ o.stores.commitTimestamp = c \/ o.stores.commitTimestamp = d.commitTimestamp
           /\ o.stores.commitOperation = d.commitOperation
           /\ o.stores.timedCommits = d.timedCommits /\ o.stores.candidate = d.candidate
<1>1. o = Ok([d EXCEPT !.commitTimestamp = c]) \/ o = Error(d)
    BY DEF handleEditTimestamp
<1> QED BY <1>1 DEF Ok, Error, Stores

(* A commit is refused, applied or scheduled.                              *)
LEMMA CommitKeeps ==
    ASSUME NEW d \in Stores, NEW c \in Sessions, NEW o, o = handleCommit(d, c)
    PROVE  \/ TimerKept(d, o.stores) /\ (o.reply = "ok" \/ o.reply = "error")
           \/ Scheduled(d, c, o.stores) /\ o.reply = "none"
<1>1. PICK e, timer : /\ timer = IF executeAtStartOfPeriod THEN d.timedCommits
                                 ELSE d.timedCommits + 1
                      /\ e = [d EXCEPT !.commitOperation = c, !.timedCommits = timer]
    OBVIOUS
<1>2. \/ o = Error(d)
      \/ /\ verifyLock(d.runningLock, c) /\ d.commitTimestamp # NoSession
         /\ o = [stores |-> e, reply |-> "none"]
      \/ o = applyTo(d)
    BY <1>1 DEF handleCommit
<1>3. applyTo(d).reply = "ok" \/ applyTo(d).reply = "error"
    BY DEF applyTo, Ok, Error
<1>4. TimerKept(d, d)
    BY DEF TimerKept
<1>5. ASSUME verifyLock(d.runningLock, c), d.commitTimestamp # NoSession
      PROVE  Scheduled(d, c, e)
  <2>1. /\ e.commitTimestamp = d.commitTimestamp /\ e.commitOperation = c
        /\ e.timedCommits = timer
        /\ e.candidate = d.candidate /\ e.running = d.running
        /\ e.runningLock = d.runningLock /\ e.candidateLock = d.candidateLock
      BY <1>1 DEF Stores
  <2> QED BY <1>1, <1>5, <2>1 DEF Scheduled
<1> QED BY <1>2, <1>3, <1>4, <1>5, ApplyKeeps DEF Error

LEMMA OtherKeeps ==
    ASSUME NEW d \in Stores, NEW c \in Sessions, NEW o \in OtherOutcomes(d, c)
    PROVE  TimerKept(d, o.stores) \/ Scheduled(d, c, o.stores)
<1>1. \/ \E target \in {"running", "candidate"} :
            o = handleLock(d, target, c) \/ o = handleUnlock(d, target, c)
      \/ \E source \in {"running", "candidate"} : o = handleCopyConfig(d, source, c)
      \/ o = handleDeleteConfig(d, "candidate", c) \/ o = handleCommit(d, c)
      \/ \E target \in {"running", "candidate"}, change \in ChangesOfOthers :
            o = handleEditConfig(d, target, c, change)
    BY DEF OtherOutcomes
<1>2. ASSUME NEW target \in {"running", "candidate"},
             o = handleLock(d, target, c) \/ o = handleUnlock(d, target, c)
      PROVE  TimerKept(d, o.stores)
    BY <1>2, LockKeeps
<1>3. ASSUME NEW source \in {"running", "candidate"}, o = handleCopyConfig(d, source, c)
      PROVE  TimerKept(d, o.stores)
    BY <1>3, CopyKeeps
<1>4. ASSUME NEW target \in {"running", "candidate"}, NEW change \in ChangesOfOthers,
             o = handleEditConfig(d, target, c, change)
      PROVE  TimerKept(d, o.stores)
  <2>1. change \in Changes
      BY Constants
  <2> QED BY <1>4, <2>1, EditKeeps
<1>5. o = handleDeleteConfig(d, "candidate", c) => TimerKept(d, o.stores)
    BY DeleteKeeps
<1>6. o = handleCommit(d, c) => TimerKept(d, o.stores) \/ Scheduled(d, c, o.stores)
    BY CommitKeeps
<1> QED BY <1>1, <1>2, <1>3, <1>4, <1>5, <1>6

-----------------------------------------------------------------------------
(* In the last two states an app asks for nothing but to unlock.           *)
LEMMA LeavingAsks ==
    ASSUME ProtocolInv, NEW c \in Apps, apps[c].state \in Leaving, NEW sw \in Switches,
           NEW id, NEW n, Asked(c, sw, id, n)
    PROVE  id = "Unlock"
<1>1. InUnlock(c, sw)
  <2>1. InState(c, sw, apps[c].state)
      BY ConversationFacts
  <2>2. apps[c].state = "WaitOnUnlock" \/ apps[c].state = "EndOfTransaction"
      BY DEF Leaving
  <2> QED BY <2>1, <2>2, InStateCases DEF InEnd
<1>2. Talks(c, sw, id, n) /\ ~ Silent(c, sw)
    BY Spoken DEF OneThing
<1>3. Talks(c, sw, "Unlock", 0)
    BY <1>1, <1>2 DEF InUnlock
<1> QED BY <1>2, <1>3, OneTopic

(* An app that is not leaving holds the lock of a switch it has locked.    *)
LEMMA LateOwns ==
    ASSUME ProtocolInv, NEW c \in Apps, apps[c].state \notin Early, apps[c].state \notin Leaving,
           NEW sw \in Switches
    PROVE  stores[sw].runningLock = c
<1>1. InState(c, sw, apps[c].state) /\ apps[c].state \in States
    BY ConversationFacts
<1>2. \/ apps[c].state = "WaitOnTimestampConfirmation" \/ apps[c].state = "WaitOnCommitExecution"
      \/ apps[c].state = "WaitOnDeleteOldConfiguration" \/ apps[c].state = "ErrorState"
      \/ apps[c].state = "WaitOnDeleteCandidate"
    BY <1>1 DEF Early, Leaving, States
<1>3. \/ InTimestamp(c, sw) \/ InCommit(c, sw) \/ InDeleteOld(c, sw) \/ InError(c, sw)
      \/ InDelete(c, sw)
    BY <1>1, <1>2, InStateCases
<1>4. Has(c, sw, "LockedRunning")
    BY <1>3 DEF InTimestamp, InCommit, InDeleteOld, InError, InDelete, HasAll, Staged
<1>5. ~ Replied(c, sw, "Unlock", 0, "ok")
  <2>1. ASSUME Replied(c, sw, "Unlock", 0, "ok") PROVE FALSE
    <3>1. ~ Silent(c, sw) /\ \A i, m : Talks(c, sw, i, m) => i = "Unlock"
        BY <2>1, OnlyReply
    <3>2. /\ ~ Talks(c, sw, "Timestamp", 0) /\ ~ Talks(c, sw, "Commit approved", 0)
          /\ ~ Talks(c, sw, "Delete Old Config", 0)
          /\ ~ Talks(c, sw, "Delete Candidate Config", 0)
        BY <3>1
    <3> QED BY <1>3, <3>1, <3>2 DEF InTimestamp, InCommit, InDeleteOld, InError, InDelete,
                                    AskedUnless
  <2> QED BY <2>1
<1>6. Owns(c, sw)
    BY <1>4, <1>5 DEF Owns
<1> QED BY <1>6, ConversationFacts

LEMMA OtherClientCommitInv ==
    ASSUME ProtocolInv, CommitInv, NEW c \in Sessions \ Apps, NEW sw \in Switches,
           OtherClient(c, sw)
    PROVE  CommitInv'
<1>1. Shapes /\ stores[sw] \in Stores
    BY DEF ProtocolInv, Shapes
<1>2. PICK d, o : /\ d = stores[sw] /\ o \in OtherOutcomes(d, c)
                  /\ stores' = [stores EXCEPT ![sw] = o.stores]
    BY DEF OtherClient
<1>3. /\ apps' = apps /\ plan' = plan /\ requests' = requests /\ replies' = replies
      /\ Apps' = Apps
    BY DEF OtherClient, Apps
<1>4. PICK e : e = o.stores
    OBVIOUS
<1>5. Spares(d, c, e) /\ (TimerKept(d, e) \/ Scheduled(d, c, e))
    BY <1>1, <1>2, <1>4, OtherOutcomeSpares, OtherKeeps
<1>6. stores'[sw] = e /\ \A s \in Switches \ {sw} : stores'[s] = stores[s]
    BY <1>1, <1>2, <1>4 DEF Shapes
<1>7. \A a \in Apps : \A s \in Switches : Untouched(a, s)
    BY <1>3 DEF Untouched, Has
<1>8. Undisturbed' /\ TimestampsTimed'
    BY <1>3 DEF CommitInv, Undisturbed, TimestampsTimed
<1>9. \A a \in Apps : a \in Sessions \ {c}
    BY DEF Apps
<1>10. ASSUME NEW s \in Switches PROVE Timer(s)'
  <2>1. Timer(s)
      BY DEF CommitInv
  <2>2. CASE s # sw
      BY <1>3, <1>6, <2>1, <2>2 DEF Timer
  <2>3. CASE s = sw /\ TimerKept(d, e)
    <3>1. \A a \in Apps : e.runningLock = a <=> d.runningLock = a
        BY <1>5, <1>9 DEF Spares
    <3> QED BY <1>2, <1>3, <1>6, <2>1, <2>3, <3>1 DEF Timer, TimerKept
  <2>4. CASE s = sw /\ Scheduled(d, c, e)
    <3>1. PICK t \in Apps \cap TimedApps : t = d.commitTimestamp /\ apps[t].state \notin Early
        BY <1>2, <2>1, <2>4 DEF Timer, Scheduled
    <3>2. Apps = {t}
        BY <3>1 DEF CommitInv, Undisturbed
    <3>3. d.runningLock # t
        BY <2>4, <3>1, NoSessionAssumption DEF Scheduled, verifyLock, Apps
    <3>4. apps[t].state \in Leaving
        BY <1>2, <3>1, <3>3, LateOwns
    <3>5. e.runningLock # t
        BY <2>4, <3>3 DEF Scheduled
    <3>6. executeAtStartOfPeriod
        BY <3>1, Constants
    <3>7. /\ e.commitTimestamp = d.commitTimestamp /\ e.commitOperation = c
          /\ e.timedCommits = d.timedCommits /\ d.commitTimestamp # NoSession
        BY <2>4, <3>6 DEF Scheduled
    <3>8. c # NoSession
        BY NoSessionAssumption
    <3> QED BY <1>2, <1>3, <1>6, <2>1, <2>4, <3>1, <3>2, <3>4, <3>5, <3>7, <3>8 DEF Timer
  <2> QED BY <1>5, <2>2, <2>3, <2>4
<1>11. ASSUME NEW a \in Apps, NEW s \in Switches, Holds(a, s)' PROVE Expected(a, s)'
  <2>1. Holds(a, s) /\ stores'[s].candidate = stores[s].candidate
    <3>1. CASE s # sw
        BY <1>6, <1>11, <3>1 DEF Holds
    <3>2. CASE s = sw
        BY <1>2, <1>5, <1>6, <1>9, <1>11, <3>2 DEF Holds, Spares
    <3> QED BY <3>1, <3>2
  <2>2. Expected(a, s)
      BY <2>1 DEF CommitInv, CandidatesOwned
  <2> QED BY <1>3, <1>7, <2>1, <2>2, ExpectedKept
<1>12. CandidatesOwned'
    BY <1>3, <1>11 DEF CandidatesOwned
<1> QED BY <1>8, <1>10, <1>12 DEF CommitInv

(* What becomes of a request of an app.                                    *)
Handled(d, c, sw, id, n, o) ==
    /\ \/ TimerKept(d, o.stores)
       \/ /\ id = "Timestamp"
          /\ o.stores.commitTimestamp = c \/ o.stores.commitTimestamp = d.commitTimestamp
          /\ o.stores.commitOperation = d.commitOperation
          /\ o.stores.timedCommits = d.timedCommits
       \/ id = "Commit approved" /\ Scheduled(d, c, o.stores)
    /\ id = "Lock Candidate" =>
          /\ o.stores.candidate = d.candidate
          /\ o.stores.candidateLock = c => d.candidateLock = c \/ d.candidate = << >>
    /\ id = "Change" /\ o.reply = "ok" =>
          o.stores.candidate = Append(d.candidate, plan[c][sw][n])
    /\ id = "Timestamp" => o.stores.candidate = d.candidate
    /\ id = "Commit approved" =>
          \/ o.reply = "none" /\ o.stores.candidate = d.candidate
          \/ o.reply = "ok" \/ o.reply = "error"

LEMMA HandledKeeps ==
    ASSUME ProtocolInv, NEW c \in Apps, NEW sw \in Switches, NEW id \in Ids, NEW n \in Nat,
           Topic(c, sw, id, n), NEW o, o = handleMessage(stores[sw], c, sw, Message(id, n))
    PROVE  Handled(stores[sw], c, sw, id, n, o)
<1>1. PICK d, m : /\ d = stores[sw] /\ d \in Stores /\ c \in Sessions
                  /\ m = Message(id, n) /\ m.id = id /\ m.n = n
  <2>1. stores[sw] \in Stores /\ c \in Sessions
      BY ConversationFacts DEF Shapes
  <2>2. Message(id, n).id = id /\ Message(id, n).n = n
      BY DEF Message
  <2> QED BY <2>1, <2>2
<1>2. o = handleMessage(d, c, sw, m)
    BY <1>1
<1>3. CASE id = "Lock" \/ id = "Unlock"
  <2>1. o = handleLock(d, "running", c) \/ o = handleUnlock(d, "running", c)
      BY <1>1, <1>2, <1>3 DEF handleMessage
  <2> QED BY <1>1, <1>3, <2>1, LockKeeps DEF Handled
<1>4. CASE id = "Copy Config"
  <2>1. o = handleCopyConfig(d, "running", c)
      BY <1>1, <1>2, <1>4 DEF handleMessage
  <2> QED BY <1>1, <1>4, <2>1, CopyKeeps DEF Handled
<1>5. CASE id = "Lock Candidate"
  <2>1. o = handleLock(d, "candidate", c)
      BY <1>1, <1>2, <1>5 DEF handleMessage
  <2>2. TimerKept(d, o.stores) /\ o.stores.candidate = d.candidate
      BY <1>1, <2>1, LockKeeps
  <2>3. o.stores.candidateLock = c => d.candidateLock = c \/ d.candidate = << >>
      BY <1>1, <2>1, CandidateLockEmpty
  <2> QED BY <1>1, <1>5, <2>2, <2>3 DEF Handled
<1>6. CASE id = "Change"
  <2>1. plan[c][sw] \in Seq(Changes) /\ n \in 1 .. Len(plan[c][sw])
      BY <1>6, Plan DEF Topic
  <2>2. PICK change \in Changes : change = plan[c][sw][n]
      BY <2>1
  <2>3. o = handleEditConfig(d, "candidate", c, change)
      BY <1>1, <1>2, <1>6, <2>2 DEF handleMessage
  <2>4. /\ TimerKept(d, o.stores)
        /\ o.reply = "error" \/ o.stores.candidate = Append(d.candidate, change)
      BY <1>1, <2>3, EditKeeps
  <2>5. o.reply = "ok" => o.stores.candidate = Append(d.candidate, plan[c][sw][n])
      BY <2>2, <2>4
  <2> QED BY <1>1, <1>6, <2>4, <2>5 DEF Handled
<1>7. CASE id = "Timestamp"
  <2>1. PICK past : o = handleEditTimestamp(d, "candidate", c, past)
      BY <1>1, <1>2, <1>7 DEF handleMessage
  <2> QED BY <1>1, <1>7, <2>1, TimestampKeeps DEF Handled
<1>8. CASE id = "Commit approved"
  <2>1. o = handleCommit(d, c)
      BY <1>1, <1>2, <1>8 DEF handleMessage
  <2>2. \/ TimerKept(d, o.stores) /\ (o.reply = "ok" \/ o.reply = "error")
        \/ Scheduled(d, c, o.stores) /\ o.reply = "none"
      BY <1>1, <2>1, CommitKeeps
  <2>3. Scheduled(d, c, o.stores) => o.stores.candidate = d.candidate
      BY DEF Scheduled
  <2> QED BY <1>1, <1>8, <2>2, <2>3 DEF Handled
<1>9. CASE id = "Delete Old Config" \/ id = "Delete Candidate Config"
  <2>1. o = handleDeleteConfig(d, "candidate", c)
      BY <1>1, <1>2, <1>9 DEF handleMessage
  <2> QED BY <1>1, <1>9, <2>1, DeleteKeeps DEF Handled
<1> QED BY <1>3, <1>4, <1>5, <1>6, <1>7, <1>8, <1>9 DEF Ids

LEMMA HandledTimer ==
    ASSUME CommitInv, NEW c, NEW sw \in Switches, NEW id, NEW n, NEW o,
           NEW d, d = stores[sw], NEW e, e = o.stores, Handled(d, c, sw, id, n, o)
    PROVE  /\ e.timedCommits = d.timedCommits
           /\ \/ e.commitOperation = d.commitOperation
              \/ e.commitOperation = c /\ d.commitTimestamp # NoSession
           /\ \/ e.commitTimestamp = d.commitTimestamp
              \/ e.commitTimestamp = c /\ id = "Timestamp"
<1>1. CASE id = "Commit approved" /\ Scheduled(d, c, e)
  <2>1. Timer(sw)
      BY DEF CommitInv
  <2>2. executeAtStartOfPeriod
      BY <1>1, <2>1, Constants DEF Timer, Scheduled
  <2> QED BY <1>1, <2>2 DEF Scheduled
<1>2. CASE ~ (id = "Commit approved" /\ Scheduled(d, c, e))
    BY <1>2 DEF Handled, TimerKept
<1> QED BY <1>1, <1>2

(* The request an app has under way is that of its state.                  *)
LEMMA AsksInState ==
    ASSUME ProtocolInv, NEW c \in Apps, NEW sw \in Switches, NEW id, NEW n, Asked(c, sw, id, n)
    PROVE  /\ apps[c].state = "WaitOnCandidateLockResponse" => id = "Lock Candidate"
           /\ apps[c].state = "WaitOnChangeConfirmation" =>
                 id = "Change" /\ ~ Has(c, sw, "Configuration")
           /\ apps[c].state = "WaitOnTimestampConfirmation" <=> id = "Timestamp"
           /\ apps[c].state = "WaitOnCommitExecution" =>
                 id = "Commit approved" /\ ~ Has(c, sw, "Commited")
<1>1. /\ InState(c, sw, apps[c].state) /\ Talks(c, sw, id, n) /\ ~ Silent(c, sw)
      /\ apps[c].state \in States
    BY ConversationFacts, Spoken DEF OneThing
<1>2. \A i, m : Talks(c, sw, i, m) => i = id
    BY <1>1, OneTopic
<1>3. apps[c].state = "WaitOnCandidateLockResponse" => id = "Lock Candidate"
    BY <1>1, <1>2, InStateCases DEF InCandidateLock, AskedUnless
<1>4. ASSUME apps[c].state = "WaitOnChangeConfirmation"
      PROVE  id = "Change" /\ ~ Has(c, sw, "Configuration")
  <2>1. InChange(c, sw)
      BY <1>1, <1>4, InStateCases
  <2>2. HasNone(c, sw, {"Configuration", "Error"})
      BY <1>1, <2>1 DEF InChange
  <2>3. \E k \in 1 .. Len(plan[c][sw]) : Talks(c, sw, "Change", k)
      BY <2>1, <2>2 DEF InChange
  <2> QED BY <1>2, <2>2, <2>3 DEF HasNone
<1>5. ASSUME apps[c].state = "WaitOnCommitExecution"
      PROVE  id = "Commit approved" /\ ~ Has(c, sw, "Commited")
    BY <1>1, <1>2, <1>5, InStateCases DEF InCommit
<1>6. apps[c].state = "WaitOnTimestampConfirmation" => id = "Timestamp"
    BY <1>1, <1>2, InStateCases DEF InTimestamp, AskedUnless
<1>7. ASSUME id = "Timestamp" PROVE apps[c].state = "WaitOnTimestampConfirmation"
  <2>1. /\ ~ Talks(c, sw, "Lock", 0) /\ ~ Talks(c, sw, "Copy Config", 0)
        /\ ~ Talks(c, sw, "Lock Candidate", 0) /\ \A k : ~ Talks(c, sw, "Change", k)
        /\ ~ Talks(c, sw, "Commit approved", 0) /\ ~ Talks(c, sw, "Delete Old Config", 0)
        /\ ~ Talks(c, sw, "Delete Candidate Config", 0) /\ ~ Talks(c, sw, "Unlock", 0)
      BY <1>2, <1>7
  <2>2. /\ ~ InBegin(c, sw) /\ ~ InLock(c, sw) /\ ~ InCopy(c, sw) /\ ~ InCandidateLock(c, sw)
        /\ ~ InChange(c, sw)
      BY <1>1, <2>1 DEF InBegin, InLock, InCopy, InCandidateLock, InChange, AskedUnless
  <2>3. /\ ~ InCommit(c, sw) /\ ~ InDeleteOld(c, sw) /\ ~ InError(c, sw) /\ ~ InDelete(c, sw)
        /\ ~ InUnlock(c, sw) /\ ~ InEnd(c, sw)
      BY <1>1, <2>1 DEF InCommit, InDeleteOld, InError, InDelete, InUnlock, InEnd
  <2> QED BY <1>1, <2>2, <2>3, InStateCases DEF States
<1> QED BY <1>3, <1>4, <1>5, <1>6, <1>7

LEMMA ServeCommitInv ==
    ASSUME ProtocolInv, CommitInv, NEW c \in Apps, NEW sw \in Switches, Serve(c, sw)
    PROVE  CommitInv'
<1>1. PICK id, n, o :
          /\ id \in Ids /\ n \in Nat
          /\ Asked(c, sw, id, n) /\ Topic(c, sw, id, n)
          /\ o = handleMessage(stores[sw], c, sw, Message(id, n))
          /\ Outcome(stores[sw], c, id, o)
          /\ stores' = [stores EXCEPT ![sw] = o.stores]
          /\ o.reply = "none" => Silent(c, sw)'
          /\ o.reply # "none" => Replied(c, sw, id, n, o.reply)'
          /\ \A d \in Apps, s \in Switches : d # c \/ s # sw => Untouched(d, s)
          /\ apps' = apps /\ plan' = plan
    BY ServeFacts
<1>2. Shapes /\ c \in Sessions /\ stores[sw] \in Stores /\ apps[c].state \in States
    BY ConversationFacts DEF Shapes
<1>3. PICK d, e : d = stores[sw] /\ e = o.stores
    OBVIOUS
<1>4. stores'[sw] = e /\ \A s \in Switches \ {sw} : stores'[s] = stores[s]
    BY <1>1, <1>2, <1>3 DEF Shapes
<1>5. Handled(d, c, sw, id, n, o) /\ Spares(d, c, e)
    BY <1>1, <1>3, HandledKeeps DEF Outcome
<1>6. Apps' = Apps /\ Undisturbed' /\ TimestampsTimed'
    BY <1>1 DEF CommitInv, Undisturbed, TimestampsTimed, Apps
<1>7. ASSUME NEW s \in Switches PROVE Timer(s)'
  <2>1. Timer(s)
      BY DEF CommitInv
  <2>2. CASE s # sw
      BY <1>1, <1>4, <1>6, <2>1, <2>2 DEF Timer
  <2>3. CASE s = sw
    <3>1. /\ e.timedCommits = d.timedCommits
          /\ \/ e.commitOperation = d.commitOperation
             \/ e.commitOperation = c /\ d.commitTimestamp # NoSession
          /\ \/ e.commitTimestamp = d.commitTimestamp
             \/ e.commitTimestamp = c /\ id = "Timestamp"
        BY <1>3, <1>5, HandledTimer, SMTT(30)
    <3>2. id = "Timestamp" => /\ c \in Apps \cap TimedApps
                              /\ apps[c].state \notin Early /\ apps[c].state \notin Leaving
      <4>1. ASSUME id = "Timestamp" PROVE apps[c].state = "WaitOnTimestampConfirmation"
          BY <1>1, <4>1, AsksInState
      <4> QED BY <4>1 DEF CommitInv, TimestampsTimed, Early, Leaving
    <3>3. ASSUME NEW a \in Apps, apps[a].state \in Leaving, d.runningLock # a
          PROVE  e.runningLock # a
      <4>1. CASE a # c
          BY <1>5, <3>3, <4>1 DEF Spares, Apps
      <4>2. CASE a = c
        <5>1. id # "Lock"
            BY <1>1, <3>3, <4>2, LeavingAsks
        <5> QED BY <1>1, <1>3, <3>3, <4>2, <5>1 DEF Outcome
      <4> QED BY <4>1, <4>2
    <3>4. /\ e.timedCommits \in {0, 1}
          /\ e.timedCommits = 1 => e.commitOperation # NoSession
          /\ e.commitOperation # NoSession => e.commitTimestamp # NoSession
      <4>1. c # NoSession
          BY <1>2, NoSessionAssumption
      <4> QED BY <1>3, <2>1, <2>3, <3>1, <4>1 DEF Timer
    <3>5. e.commitTimestamp # NoSession =>
              /\ e.commitTimestamp \in Apps \cap TimedApps
              /\ apps[e.commitTimestamp].state \notin Early
        BY <1>3, <2>1, <2>3, <3>1, <3>2 DEF Timer
    <3>6. e.commitOperation \in Sessions \ Apps =>
              \A a \in Apps : apps[a].state \in Leaving /\ e.runningLock # a
        BY <1>3, <2>1, <2>3, <3>1, <3>3 DEF Timer
    <3> QED BY <1>1, <1>4, <1>6, <2>3, <3>4, <3>5, <3>6 DEF Timer
  <2> QED BY <2>2, <2>3
<1>8. \A a \in Apps, s \in Switches : \A f : Has(a, s, f)' <=> Has(a, s, f)
    BY <1>1 DEF Has
<1>9. ASSUME NEW a \in Apps, NEW s \in Switches, a # c \/ s # sw, Holds(a, s)'
      PROVE  Expected(a, s)'
  <2>1. Holds(a, s) /\ stores'[s].candidate = stores[s].candidate
    <3>1. CASE s # sw
        BY <1>4, <1>9, <3>1 DEF Holds
    <3>2. CASE s = sw
      <4>1. a \in Sessions \ {c}
          BY <1>9, <3>2 DEF Apps
      <4> QED BY <1>3, <1>4, <1>5, <1>9, <3>2, <4>1 DEF Holds, Spares
    <3> QED BY <3>1, <3>2
  <2>2. Expected(a, s)
      BY <2>1 DEF CommitInv, CandidatesOwned
  <2>3. /\ \A i, k : Asked(a, s, i, k)' <=> Asked(a, s, i, k)
        /\ \A i, k, st : Replied(a, s, i, k, st)' <=> Replied(a, s, i, k, st)
      BY <1>1, <1>9, Aside
  <2>4. Unfailed(a)' <=> Unfailed(a)
      BY <1>8 DEF Unfailed
  <2>5. (Did(a, s)' <=> Did(a, s)) /\ (Failed(a, s)' <=> Failed(a, s))
      BY <1>8, <2>3 DEF Did, Failed
  <2>6. Staging(a, s) => Staging(a, s)'
      BY <1>1, <1>8, <2>1, <2>3, <2>4 DEF Staging
  <2> QED BY <1>1, <2>1, <2>2, <2>5, <2>6 DEF Expected
<1>10. ASSUME Holds(c, sw)' PROVE Expected(c, sw)'
  <2>1. e.runningLock = c /\ e.candidateLock = c
      BY <1>4, <1>10 DEF Holds
  <2>2. id # "Lock" /\ id # "Lock Candidate" => Expected(c, sw)
    <3>1. ASSUME id # "Lock", id # "Lock Candidate" PROVE Holds(c, sw)
        BY <1>1, <1>3, <2>1, <3>1 DEF Outcome, Holds
    <3> QED BY <3>1 DEF CommitInv, CandidatesOwned
  <2>3. CASE apps[c].state = "WaitOnCandidateLockResponse"
    <3>1. id = "Lock Candidate"
        BY <1>1, <2>3, AsksInState
    <3>2. d.runningLock = c
        BY <1>1, <1>3, <2>1, <3>1 DEF Outcome
    <3>3. d.candidateLock = c \/ d.candidate = << >>
        BY <1>3, <1>5, <2>1, <3>1 DEF Handled
    <3>4. d.candidateLock = c => d.candidate = << >>
        BY <1>3, <2>3, <3>2 DEF Holds, CommitInv, CandidatesOwned, Expected
    <3>5. e.candidate = << >>
        BY <1>3, <1>5, <3>1, <3>3, <3>4 DEF Handled
    <3> QED BY <1>1, <1>4, <2>3, <3>5 DEF Expected
  <2>4. CASE apps[c].state = "WaitOnChangeConfirmation"
    <3>1. id = "Change" /\ ~ Has(c, sw, "Configuration")
        BY <1>1, <2>4, AsksInState
    <3>2. Staging(c, sw)
        BY <2>2, <2>4, <3>1 DEF Expected
    <3>3. PICK t, l : t = plan[c][sw] /\ t \in Seq(Changes) /\ l = Len(plan[c][sw])
        BY Plan
    <3>4. n \in 1 .. l
        BY <1>1, <3>1, <3>3 DEF Topic
    <3>5. FirstOf(d.candidate, t, n - 1)
        BY <1>1, <1>3, <3>1, <3>2, <3>3, <3>4 DEF Staging
    <3>6. \A i, k : ~ Asked(c, sw, i, k)'
      <4>1. o.reply = "ok" \/ o.reply = "error"
          BY <1>1, <3>1 DEF Outcome
      <4> QED BY <1>1, <4>1, Spoken DEF OneThing
    <3>7. ASSUME NEW k, Replied(c, sw, "Change", k, "ok")'
          PROVE  FirstOf(e.candidate, t, k)
      <4>1. k = n /\ o.reply = "ok"
        <5>1. Replied(c, sw, id, n, o.reply)'
            BY <1>1, <3>1 DEF Outcome
        <5> QED BY <3>7, <5>1, Spoken DEF OneThing
      <4>2. e.candidate = Append(d.candidate, t[n])
          BY <1>3, <1>5, <3>1, <3>3, <4>1 DEF Handled
      <4>3. d.candidate \in Seq(Changes) /\ n \in 1 .. Len(t)
          BY <1>3, <3>3, <3>4, Plan
      <4> QED BY <3>3, <3>5, <4>1, <4>2, <4>3, FirstOfNext
    <3>8. Staging(c, sw)'
        BY <1>1, <1>4, <1>8, <3>1, <3>3, <3>6, <3>7 DEF Staging
    <3> QED BY <1>1, <2>4, <3>8 DEF Expected
  <2>5. CASE apps[c].state = "WaitOnTimestampConfirmation"
    <3>1. id = "Timestamp"
        BY <1>1, <2>5, AsksInState
    <3>2. d.candidate = plan[c][sw]
        BY <1>3, <2>2, <2>5, <3>1 DEF Expected
    <3>3. e.candidate = d.candidate
        BY <1>3, <1>5, <3>1 DEF Handled
    <3> QED BY <1>1, <1>4, <2>5, <3>2, <3>3 DEF Expected
  <2>6. CASE apps[c].state = "WaitOnCommitExecution"
    <3>1. id = "Commit approved" /\ ~ Has(c, sw, "Commited") /\ n = 0
        BY <1>1, <2>6, AsksInState DEF Topic
    <3>2. \/ o.reply = "none" /\ e.candidate = d.candidate
          \/ o.reply = "ok" \/ o.reply = "error"
        BY <1>3, <1>5, <3>1 DEF Handled
    <3>3. CASE o.reply = "none" /\ e.candidate = d.candidate
      <4>1. \A k, st : ~ Replied(c, sw, "Commit approved", k, st)
          BY <1>1, Spoken DEF OneThing
      <4>2. d.candidate = plan[c][sw]
          BY <1>3, <2>2, <2>6, <3>1, <4>1 DEF Expected, Did, Failed
      <4> QED BY <1>1, <1>4, <2>6, <3>3, <4>2 DEF Expected
    <3>4. CASE o.reply = "ok" \/ o.reply = "error"
      <4>1. Did(c, sw)' \/ Failed(c, sw)'
          BY <1>1, <3>1, <3>4 DEF Did, Failed
      <4> QED BY <1>1, <2>6, <4>1 DEF Expected
    <3> QED BY <3>2, <3>3, <3>4
  <2>7. CASE apps[c].state \notin Quiet
      BY <1>1, <2>7 DEF Expected, Quiet
  <2> QED BY <2>3, <2>4, <2>5, <2>6, <2>7 DEF Quiet
<1>11. CandidatesOwned'
    BY <1>6, <1>9, <1>10 DEF CandidatesOwned
<1> QED BY <1>6, <1>7, <1>11 DEF CommitInv

-----------------------------------------------------------------------------
(* What is committed.                                                      *)
LEMMA CommitInitInv ==
    ASSUME Init, Undisturbed
    PROVE  CommitInv
<1>1. ProtocolInv
    BY InitInv DEF TransactionInv, Init
<1>2. \A c \in Apps : apps[c].state = "BeginOfTransaction"
  <2>1. PICK uninitialised \in SUBSET Apps :
          apps = [c \in Sessions |-> [state     |-> "BeginOfTransaction",
                                      flags     |-> [sw \in Switches |-> {}],
                                      result    |-> c \in uninitialised,
                                      timestamp |-> -1, released |-> 0]]
      BY DEF Init
  <2> QED BY <2>1 DEF Apps
<1>3. \A sw \in Switches : /\ stores[sw].runningLock = NoSession
                           /\ stores[sw].commitTimestamp = NoSession
                           /\ stores[sw].commitOperation = NoSession
                           /\ stores[sw].timedCommits = 0
    BY DEF Init, StoresInit
<1>4. \A sw \in Switches : Timer(sw)
    BY <1>3, NoSessionAssumption DEF Timer
<1>5. CandidatesOwned
    BY <1>2 DEF CandidatesOwned, Expected
<1>6. TimestampsTimed
    BY <1>2 DEF TimestampsTimed
<1> QED BY <1>4, <1>5, <1>6 DEF CommitInv

(* A commit under way finds what the app has put into the candidate.       *)
LEMMA CommitMeans == ProtocolInv /\ CandidatesOwned => CommitsOwnChangesOnly
<1> SUFFICES ASSUME ProtocolInv, CandidatesOwned, NEW c \in Apps, NEW sw \in Switches,
                    apps[c].state = "WaitOnCommitExecution", requests[c][sw] # << >>
             PROVE  stores[sw].candidate = plan[c][sw]
    BY DEF CommitsOwnChangesOnly
<1>1. InCommit(c, sw)
    BY ConversationFacts, InStateCases
<1>2. ~ Silent(c, sw) /\ \A id, n, st : ~ Replied(c, sw, id, n, st)
    BY DEF Silent, Replied
<1>3. ~ Has(c, sw, "Commited") /\ Has(c, sw, "LockedRunning") /\ Has(c, sw, "LockedCandidate")
    BY <1>1, <1>2 DEF InCommit, HasAll, Staged
<1>4. Holds(c, sw)
    BY <1>2, <1>3, ConversationFacts DEF Owns, OwnsCandidate, Holds
<1>5. ~ Did(c, sw) /\ ~ Failed(c, sw)
    BY <1>2, <1>3 DEF Did, Failed
<1> QED BY <1>4, <1>5 DEF CandidatesOwned, Expected

(* A cRuntimeError stops the app before it takes note of anything.         *)
LEMMA AbortChangesNothing ==
    ASSUME NEW c \in Apps, NEW sw \in Switches, checkEventHandled(c, sw)
    PROVE  /\ aborted' /\ stores' = stores /\ plan' = plan /\ apps' = apps
           /\ requests' = requests
BY DEF checkEventHandled

OwnChangesInv ==
    /\ aborted \/ (ProtocolInv /\ CommitInv)
    /\ CommitsOwnChangesOnly

LEMMA CommitNextInv ==
    ASSUME ProtocolInv, CommitInv, Next
    PROVE  \/ ProtocolInv' /\ CommitInv'
           \/ \E c \in Apps, sw \in Switches : checkEventHandled(c, sw)
<1>1. ASSUME NEW c \in Apps, AppStep(c), ~ \E sw \in Switches : checkEventHandled(c, sw)
      PROVE  ProtocolInv' /\ CommitInv'
  <2>1. ProtocolInv'
      BY <1>1, AppStepInv
  <2>2. TransactionTypeOK'
    <3>1. ProtocolInv' => TransactionTypeOK'
        BY ProtocolMeans, PTL
    <3> QED BY <2>1, <3>1
  <2>3. Progress(c)
      BY <1>1, <2>2, AppProgress
  <2> QED BY <2>1, <2>3, AppCommitInv
<1>2. ASSUME NEW c \in Apps, NEW sw \in Switches, Serve(c, sw)
      PROVE  ProtocolInv' /\ CommitInv'
    BY <1>2, ServeStep, ServeCommitInv
<1>3. ASSUME newCycle
      PROVE  ProtocolInv' /\ CommitInv'
    BY <1>3, CycleStep, CycleCommitInv
<1>4. ASSUME NEW sw \in Switches, TimedCommit(sw)
      PROVE  ProtocolInv' /\ CommitInv'
    BY <1>4, TimedCommitStep, TimedCommitCommitInv
<1>5. ASSUME NEW c \in Sessions \ Apps, NEW sw \in Switches, OtherClient(c, sw)
      PROVE  ProtocolInv' /\ CommitInv'
    BY <1>5, OtherClientStep, OtherClientCommitInv
<1> QED BY <1>1, <1>2, <1>3, <1>4, <1>5 DEF Next

LEMMA OwnChangesNext ==
    ASSUME OwnChangesInv, [Next]_transactionVars
    PROVE  OwnChangesInv'
<1>1. CASE UNCHANGED transactionVars
  <2>1. Apps' = Apps
      BY <1>1 DEF Apps, transactionVars
  <2>2. ProtocolInv' <=> ProtocolInv
      BY <1>1, <2>1 DEF transactionVars, ProtocolInv, Shapes, Protocol, Conversation, InState,
         InBegin, InLock, InCopy, InCandidateLock, InChange, InTimestamp, InCommit, InDeleteOld,
         InError, InDelete, InUnlock, InEnd, LocksOwned, CommitAwaited, Owns, OwnsCandidate,
         AskedUnless, Silent, Asked, Replied, Talks, Has, HasAll, HasNone
  <2>3. CommitInv' <=> CommitInv
      BY <1>1, <2>1 DEF transactionVars, CommitInv, Undisturbed, TimestampsTimed, Timer,
         CandidatesOwned, Expected, Holds, Staging, Did, Failed, Unfailed, Asked, Replied, Has
  <2>4. CommitsOwnChangesOnly' /\ (aborted' <=> aborted)
      BY <1>1, <2>1 DEF transactionVars, OwnChangesInv, CommitsOwnChangesOnly
  <2> QED BY <2>2, <2>3, <2>4 DEF OwnChangesInv
<1>2. CASE Next
  <2>1. ProtocolInv /\ CommitInv
      BY <1>2, GoesOn DEF OwnChangesInv
  <2>2. CASE \E c \in Apps, sw \in Switches : checkEventHandled(c, sw)
    <3>1. /\ aborted' /\ stores' = stores /\ plan' = plan /\ apps' = apps
          /\ requests' = requests
        BY <2>2, AbortChangesNothing
    <3>2. Apps' = Apps
        BY <3>1 DEF Apps
    <3> QED BY <3>1, <3>2 DEF OwnChangesInv, CommitsOwnChangesOnly
  <2>3. CASE ProtocolInv' /\ CommitInv'
    <3>1. ProtocolInv' /\ CandidatesOwned' => CommitsOwnChangesOnly'
        BY CommitMeans, PTL
    <3> QED BY <2>3, <3>1 DEF OwnChangesInv, CommitInv
  <2> QED BY <1>2, <2>1, <2>2, <2>3, CommitNextInv
<1> QED BY <1>1, <1>2

(* What a switch commits for a transaction are exactly the changes of the  *)
(* transaction, in the order of its plan: no other session gets a change   *)
(* between the reset of the candidate, its lock and the commit, refused    *)
(* changes never reach the commit, and a timed commit that executes is     *)
(* that of the app that waits for it.                                      *)
THEOREM CommitsOwnChangesOnlyHolds == Spec /\ Undisturbed => []CommitsOwnChangesOnly
<1>1. Init /\ Undisturbed => OwnChangesInv
  <2> SUFFICES ASSUME Init, Undisturbed PROVE OwnChangesInv
      OBVIOUS
  <2>1. ProtocolInv /\ CommitInv
      BY InitInv, CommitInitInv DEF TransactionInv, Init
  <2> QED BY <2>1, CommitMeans DEF OwnChangesInv, CommitInv
<1>2. OwnChangesInv /\ [Next]_transactionVars => OwnChangesInv'
    BY OwnChangesNext
<1>3. OwnChangesInv => CommitsOwnChangesOnly
    BY DEF OwnChangesInv
<1> QED BY <1>1, <1>2, <1>3, PTL DEF Spec

-----------------------------------------------------------------------------
(* What becomes of the running stores.                                     *)

(* Changes are told apart by who asks for them: no other session asks for  *)
(* a change of a transaction.                                              *)
Distinct ==
    \A c \in Apps, sw \in Switches :
        /\ Planned(c, sw) \cap ChangesOfOthers = {}
        /\ \A d \in Apps \ {c} : Planned(c, sw) \cap Planned(d, sw) = {}

Contents(d) == {d.candidate[i] : i \in DOMAIN d.candidate}

(* An app's changes are in the running store once its commit has been      *)
(* executed, all of them if that went well; and in a candidate only as     *)
(* long as the app holds the switch.                                       *)
RunningOf(c, sw) ==
    /\ Planned(c, sw) \cap stores[sw].running # {} => Did(c, sw) \/ Failed(c, sw)
    /\ Did(c, sw) => Planned(c, sw) \subseteq stores[sw].running
    /\ Planned(c, sw) \cap Contents(stores[sw]) # {} => Holds(c, sw)

RunningInv == Distinct /\ \A c \in Apps, sw \in Switches : RunningOf(c, sw)

(* What an operation of session c with the changes some may write.         *)
Writes(d, c, some, e) ==
    /\ d.running \subseteq e.running
    /\ Contents(e) \subseteq Contents(d) \cup some
    /\ \A x \in e.running :
          \/ x \in d.running \/ x \in some
          \/ x \in Contents(d) /\ verifyLock(d.runningLock, c)

LEMMA NoContents ==
    ASSUME NEW e, e.candidate = << >>
    PROVE  Contents(e) = {}
<1>1. \A i : i \notin DOMAIN << >>
    OBVIOUS
<1> QED BY <1>1 DEF Contents

LEMMA WritesNothing ==
    ASSUME NEW d, NEW c, NEW some, NEW e, e.running = d.running,
           e.candidate = d.candidate \/ e.candidate = << >>
    PROVE  Writes(d, c, some, e) /\ Contents(e) \subseteq Contents(d)
<1>1. Contents(e) \subseteq Contents(d)
  <2>1. CASE e.candidate = d.candidate
      BY <2>1 DEF Contents
  <2>2. CASE e.candidate = << >>
      BY <2>2, NoContents
  <2> QED BY <2>1, <2>2
<1> QED BY <1>1 DEF Writes

LEMMA WritesChange ==
    ASSUME NEW d \in Stores, NEW c, NEW some, NEW x \in some, NEW e, e.running = d.running,
           e.candidate = Append(d.candidate, x)
    PROVE  Writes(d, c, some, e)
<1>1. PICK s \in Seq(Changes) : s = d.candidate
    BY DEF Stores
<1>2. DOMAIN Append(s, x) = 1 .. Len(s) + 1 /\ DOMAIN s = 1 .. Len(s) /\ Len(s) \in Nat
    BY <1>1
<1>3. \A i \in 1 .. Len(s) : Append(s, x)[i] = s[i]
    BY <1>1
<1>4. Append(s, x)[Len(s) + 1] = x
    BY <1>1
<1>5. ASSUME NEW i \in DOMAIN Append(s, x) PROVE Append(s, x)[i] \in Contents(d) \cup some
  <2>1. i \in 1 .. Len(s) \/ i = Len(s) + 1
      BY <1>2, <1>5
  <2> QED BY <1>1, <1>2, <1>3, <1>4, <2>1 DEF Contents
<1>6. Contents(e) \subseteq Contents(d) \cup some
    BY <1>1, <1>5 DEF Contents
<1> QED BY <1>6 DEF Writes

LEMMA AppliedWrites ==
    ASSUME NEW d \in Stores, NEW c, NEW some, NEW e, verifyLock(d.runningLock, c),
           e.running = d.running \cup Applied(d), e.candidate = << >>
    PROVE  Writes(d, c, some, e)
<1>1. Applied(d) \subseteq Contents(d)
    BY DEF Applied, Contents
<1>2. Contents(e) = {}
    BY NoContents
<1> QED BY <1>1, <1>2 DEF Writes

LEMMA AppliedAll ==
    ASSUME NEW d \in Stores, \A i \in DOMAIN d.candidate : d.candidate[i] \in Applicable
    PROVE  Applied(d) = Contents(d)
<1>1. PICK s \in Seq(Changes) : s = d.candidate
    BY DEF Stores
<1>2. DOMAIN s = 1 .. Len(s) /\ Len(s) \in Nat
    BY <1>1
<1>3. ASSUME NEW j \in DOMAIN s PROVE \A k \in 1 .. j : s[k] \in Applicable
  <2>1. \A k \in 1 .. j : k \in DOMAIN s
      BY <1>2, <1>3
  <2> QED BY <1>1, <2>1
<1>4. {j \in DOMAIN s : \A k \in 1 .. j : s[k] \in Applicable} = DOMAIN s
    BY <1>3
<1> QED BY <1>1, <1>4 DEF Applied, Contents

LEMMA ApplyWrites ==
    ASSUME NEW d \in Stores, NEW c, NEW some, verifyLock(d.runningLock, c),
           NEW o, o = applyTo(d)
    PROVE  /\ Writes(d, c, some, o.stores) /\ Contents(o.stores) = {}
           /\ o.reply = "ok" => Contents(d) \subseteq o.stores.running
<1>1. PICK done \in Stores :
          /\ applyTo(d) = Ok(done) \/ applyTo(d) = Error(done)
          /\ done.running = d.running \cup Applied(d) /\ done.candidate = << >>
    BY ApplyFacts
<1>2. o.stores = done
    BY <1>1 DEF Ok, Error
<1>3. Writes(d, c, some, done) /\ Contents(done) = {}
    BY <1>1, AppliedWrites, NoContents
<1>4. ASSUME o.reply = "ok" PROVE Contents(d) \subseteq done.running
  <2>1. "ok" # "error"
      OBVIOUS
  <2>2. \A i \in DOMAIN d.candidate : d.candidate[i] \in Applicable
      BY <1>4, <2>1 DEF applyTo, Ok, Error
  <2>3. Applied(d) = Contents(d)
      BY <2>2, AppliedAll
  <2> QED BY <1>1, <2>3
<1> QED BY <1>2, <1>3, <1>4

LEMMA LockWrites ==
    ASSUME NEW d \in Stores, NEW c \in Sessions, NEW some,
           NEW target \in {"running", "candidate"},
           NEW o, o = handleLock(d, target, c) \/ o = handleUnlock(d, target, c)
    PROVE  /\ Writes(d, c, some, o.stores) /\ Contents(o.stores) \subseteq Contents(d)
           /\ o.stores.running = d.running
<1>1. \/ o = Ok([d EXCEPT !.runningLock = c]) \/ o = Ok([d EXCEPT !.candidateLock = c])
      \/ o = Ok([d EXCEPT !.runningLock = NoSession])
      \/ o = Ok([d EXCEPT !.candidateLock = NoSession]) \/ o = Error(d)
    BY DEF handleLock, handleUnlock
<1>2. o.stores.running = d.running /\ o.stores.candidate = d.candidate
    BY <1>1 DEF Ok, Error, Stores
<1> QED BY <1>2, WritesNothing

LEMMA CopyWrites ==
    ASSUME NEW d \in Stores, NEW c \in Sessions, NEW some,
           NEW source \in {"running", "candidate"}, NEW o, o = handleCopyConfig(d, source, c)
    PROVE  /\ Writes(d, c, some, o.stores) /\ Contents(o.stores) \subseteq Contents(d)
           /\ source = "running" => o.stores.running = d.running
<1>1. PICK e : e = [d EXCEPT !.candidate = << >>]
    OBVIOUS
<1>2. \/ o = Error(d) \/ o = Ok(e)
      \/ source # "running" /\ verifyLock(d.runningLock, c) /\ o = applyTo(d)
    BY <1>1 DEF handleCopyConfig
<1>3. e.running = d.running /\ e.candidate = << >>
    BY <1>1, FieldFacts
<1>4. CASE o = Error(d) \/ o = Ok(e)
  <2>1. o.stores = d \/ o.stores = e
      BY <1>4 DEF Ok, Error
  <2> QED BY <1>3, <2>1, WritesNothing
<1>5. CASE source # "running" /\ verifyLock(d.runningLock, c) /\ o = applyTo(d)
    BY <1>5, ApplyWrites
<1> QED BY <1>2, <1>4, <1>5

LEMMA DeleteWrites ==
    ASSUME NEW d \in Stores, NEW c \in Sessions, NEW some,
           NEW o, o = handleDeleteConfig(d, "candidate", c)
    PROVE  /\ Writes(d, c, some, o.stores) /\ Contents(o.stores) \subseteq Contents(d)
           /\ o.stores.running = d.running
           /\ o.reply = "ok" => Contents(o.stores) = {}
<1>1. PICK e : e = [d EXCEPT !.candidate = << >>, !.candidateLock = NoSession]
    OBVIOUS
<1>2. o = Error(d) \/ o = Ok(e)
    BY <1>1 DEF handleDeleteConfig
<1>3. e.running = d.running /\ e.candidate = << >>
    BY <1>1, FieldFacts
<1>4. (o.stores = d /\ o.reply # "ok") \/ o.stores = e
    BY <1>2 DEF Ok, Error
<1> QED BY <1>3, <1>4, WritesNothing, NoContents

LEMMA EditWrites ==
    ASSUME NEW d \in Stores, NEW c \in Sessions, NEW some, NEW change \in some,
           change \in Changes, NEW target \in {"running", "candidate"},
           NEW o, o = handleEditConfig(d, target, c, change)
    PROVE  /\ Writes(d, c, some, o.stores)
           /\ target = "candidate" => o.stores.running = d.running
<1>1. PICK longer, wider, e, f :
          /\ longer = Append(d.candidate, change) /\ wider = d.running \cup {change}
          /\ e = [d EXCEPT !.running = wider] /\ f = [d EXCEPT !.candidate = longer]
    OBVIOUS
<1>2. \/ target # "candidate" /\ o = Ok(e)
      \/ o = Ok(f) \/ o = Error(d)
    BY <1>1 DEF handleEditConfig
<1>3. /\ e.running = wider /\ e.candidate = d.candidate
      /\ f.running = d.running /\ f.candidate = longer
    BY <1>1 DEF Stores
<1>4. Writes(d, c, some, f)
    BY <1>1, <1>3, WritesChange
<1>5. Writes(d, c, some, d)
    BY WritesNothing
<1>6. Writes(d, c, some, e)
  <2>1. Contents(e) = Contents(d)
      BY <1>3 DEF Contents
  <2> QED BY <1>1, <1>3, <2>1 DEF Writes
<1>7. (o.stores = e /\ target # "candidate") \/ o.stores = f \/ o.stores = d
    BY <1>2 DEF Ok, Error
<1> QED BY <1>3, <1>4, <1>5, <1>6, <1>7

LEMMA TimestampWrites ==
    ASSUME NEW d \in Stores, NEW c \in Sessions, NEW some,
           NEW e, e = [d EXCEPT !.commitTimestamp = c], NEW o, o = Ok(e) \/ o = Error(d)
    PROVE  /\ Writes(d, c, some, o.stores) /\ Contents(o.stores) \subseteq Contents(d)
           /\ o.stores.running = d.running
<1>1. o.stores.running = d.running /\ o.stores.candidate = d.candidate
    BY DEF Ok, Error, Stores
<1> QED BY <1>1, WritesNothing

LEMMA CommitWrites ==
    ASSUME NEW d \in Stores, NEW c \in Sessions, NEW some, NEW o, o = handleCommit(d, c)
    PROVE  /\ Writes(d, c, some, o.stores) /\ Contents(o.stores) \subseteq Contents(d)
           /\ o.reply = "ok" => Contents(d) \subseteq o.stores.running
           /\ o.reply = "none" => o.stores.running = d.running
<1>1. PICK e, timer : /\ timer = IF executeAtStartOfPeriod THEN d.timedCommits
                                 ELSE d.timedCommits + 1
                      /\ e = [d EXCEPT !.commitOperation = c, !.timedCommits = timer]
    OBVIOUS
<1>2. \/ o = Error(d) \/ o = [stores |-> e, reply |-> "none"]
      \/ verifyLock(d.runningLock, c) /\ o = applyTo(d)
    BY <1>1 DEF handleCommit
<1>3. e.running = d.running /\ e.candidate = d.candidate
    BY <1>1 DEF Stores
<1>4. CASE o = Error(d) \/ o = [stores |-> e, reply |-> "none"]
  <2>1. (o.stores = d \/ o.stores = e) /\ o.reply # "ok"
      BY <1>4 DEF Error
  <2> QED BY <1>3, <2>1, WritesNothing
<1>5. CASE verifyLock(d.runningLock, c) /\ o = applyTo(d)
  <2>1. o.reply # "none"
      BY <1>5 DEF applyTo, Ok, Error
  <2> QED BY <1>5, <2>1, ApplyWrites
<1> QED BY <1>2, <1>4, <1>5

LEMMA OtherWrites ==
    ASSUME NEW d \in Stores, NEW c \in Sessions, NEW o \in OtherOutcomes(d, c)
    PROVE  Writes(d, c, ChangesOfOthers, o.stores)
<1>1. \/ \E target \in {"running", "candidate"} :
            o = handleLock(d, target, c) \/ o = handleUnlock(d, target, c)
      \/ \E source \in {"running", "candidate"} : o = handleCopyConfig(d, source, c)
      \/ o = handleDeleteConfig(d, "candidate", c) \/ o = handleCommit(d, c)
      \/ \E target \in {"running", "candidate"}, change \in ChangesOfOthers :
            o = handleEditConfig(d, target, c, change)
    BY DEF OtherOutcomes
<1>2. ASSUME NEW target \in {"running", "candidate"},
             o = handleLock(d, target, c) \/ o = handleUnlock(d, target, c)
      PROVE  Writes(d, c, ChangesOfOthers, o.stores)
    BY <1>2, LockWrites
<1>3. ASSUME NEW source \in {"running", "candidate"}, o = handleCopyConfig(d, source, c)
      PROVE  Writes(d, c, ChangesOfOthers, o.stores)
    BY <1>3, CopyWrites
<1>4. ASSUME NEW target \in {"running", "candidate"}, NEW change \in ChangesOfOthers,
             o = handleEditConfig(d, target, c, change)
      PROVE  Writes(d, c, ChangesOfOthers, o.stores)
  <2>1. change \in Changes
      BY Constants
  <2> QED BY <1>4, <2>1, EditWrites
<1>5. o = handleDeleteConfig(d, "candidate", c) => Writes(d, c, ChangesOfOthers, o.stores)
    BY DeleteWrites
<1>6. o = handleCommit(d, c) => Writes(d, c, ChangesOfOthers, o.stores)
    BY CommitWrites
<1> QED BY <1>1, <1>2, <1>3, <1>4, <1>5, <1>6

-----------------------------------------------------------------------------
(* A step that leaves the contents and the locks of a switch alone.        *)
LEMMA RunningKept ==
    ASSUME NEW a \in Apps, NEW s \in Switches, plan' = plan, RunningOf(a, s),
           stores'[s].running = stores[s].running, stores'[s].candidate = stores[s].candidate,
           Holds(a, s) => Holds(a, s)',
           Did(a, s)' <=> Did(a, s), Failed(a, s)' <=> Failed(a, s)
    PROVE  RunningOf(a, s)'
<1>1. Contents(stores'[s]) = Contents(stores[s]) /\ Planned(a, s)' = Planned(a, s)
    BY DEF Contents, Planned
<1> QED BY <1>1 DEF RunningOf

LEMMA SameCommits ==
    ASSUME NEW a \in Apps, NEW s \in Switches, Untouched(a, s)
    PROVE  (Did(a, s)' <=> Did(a, s)) /\ (Failed(a, s)' <=> Failed(a, s))
BY Aside DEF Did, Failed

(* What an app is spared by the operation of another session.              *)
LEMMA NotRun ==
    ASSUME NEW a \in Apps, NEW s \in Switches, RunningOf(a, s), NEW d, d = stores[s],
           NEW c \in Sessions \ {a}, NEW some, Planned(a, s) \cap some = {},
           NEW e, Writes(d, c, some, e)
    PROVE  Planned(a, s) \cap e.running \subseteq d.running
<1>1. a \in Sessions \ {c} /\ a # NoSession
    BY NoSessionAssumption DEF Apps
<1>2. Planned(a, s) \cap Contents(d) # {} => Holds(a, s)
    BY DEF RunningOf
<1>3. Holds(a, s) => ~ verifyLock(d.runningLock, c)
    BY <1>1 DEF Holds, verifyLock
<1> QED BY <1>2, <1>3 DEF Writes

LEMMA RunningSpared ==
    ASSUME NEW a \in Apps, NEW s \in Switches, plan' = plan, RunningOf(a, s), Untouched(a, s),
           NEW c \in Sessions \ {a}, NEW some, Planned(a, s) \cap some = {},
           NEW d, d = stores[s], NEW e, e = stores'[s],
           Writes(d, c, some, e), Spares(d, c, e)
    PROVE  RunningOf(a, s)'
<1>1. Planned(a, s)' = Planned(a, s)
    BY DEF Planned
<1>2. (Did(a, s)' <=> Did(a, s)) /\ (Failed(a, s)' <=> Failed(a, s))
    BY SameCommits
<1>3. a \in Sessions \ {c}
    BY DEF Apps
<1>4. Holds(a, s) => Holds(a, s)'
    BY <1>3 DEF Holds, Spares
<1>5. Planned(a, s) \cap Contents(d) # {} => Holds(a, s)
    BY DEF RunningOf
<1>6. Planned(a, s) \cap e.running # {} => Did(a, s) \/ Failed(a, s)
  <2>1. Planned(a, s) \cap d.running # {} => Did(a, s) \/ Failed(a, s)
      BY DEF RunningOf
  <2>2. Planned(a, s) \cap e.running \subseteq d.running
      BY NotRun
  <2> QED BY <2>1, <2>2
<1>7. Did(a, s) => Planned(a, s) \subseteq e.running
    BY DEF RunningOf, Writes
<1>8. Planned(a, s) \cap Contents(e) # {} => Holds(a, s)'
  <2>1. Planned(a, s) \cap Contents(e) \subseteq Contents(d)
      BY DEF Writes
  <2> QED BY <1>4, <1>5, <2>1
<1> QED BY <1>1, <1>2, <1>6, <1>7, <1>8 DEF RunningOf

LEMMA PlannedKept ==
    ASSUME plan' = plan
    PROVE  /\ Apps' = Apps /\ (Distinct' <=> Distinct)
           /\ \A c \in Apps, sw \in Switches : Planned(c, sw)' = Planned(c, sw)
BY DEF Apps, Distinct, Planned

LEMMA AppRunningInv ==
    ASSUME ProtocolInv, RunningInv, NEW c \in Apps, Onward(c)
    PROVE  RunningInv'
<1>1. /\ Elsewhere(c) /\ stores' = stores /\ plan' = plan
      /\ \A s \in Switches : (Did(c, s)' <=> Did(c, s)) /\ (Failed(c, s)' <=> Failed(c, s))
    BY DEF Onward, Elsewhere
<1>2. ASSUME NEW a \in Apps, NEW s \in Switches PROVE RunningOf(a, s)'
  <2>1. (Did(a, s)' <=> Did(a, s)) /\ (Failed(a, s)' <=> Failed(a, s))
    <3>1. CASE a = c
        BY <1>1, <3>1
    <3>2. CASE a # c
      <4>1. Untouched(a, s)
          BY <1>1, <3>2 DEF Elsewhere, Apps, Untouched, Has
      <4> QED BY <4>1, SameCommits
    <3> QED BY <3>1, <3>2
  <2>2. (Holds(a, s)' <=> Holds(a, s)) /\ RunningOf(a, s)
      BY <1>1 DEF Holds, RunningInv
  <2> QED BY <1>1, <2>1, <2>2, RunningKept
<1> QED BY <1>1, <1>2, PlannedKept DEF RunningInv

LEMMA CycleRunningInv ==
    ASSUME ProtocolInv, RunningInv, newCycle
    PROVE  RunningInv'
<1>1. Shapes
    BY DEF ProtocolInv
<1>2. /\ apps' = [c \in Sessions |-> [apps[c] EXCEPT
                      !.timestamp = IF @ = -1 THEN -1 ELSE @ - 1,
                      !.released = IF c \in TimedApps /\ CommitUnderWay(c) THEN @ + 1 ELSE @]]
      /\ stores' = [sw \in Switches |->
                       IF subscribed(stores[sw]) /\ CyclesToCommit(sw) = 1
                       THEN [stores[sw] EXCEPT !.timedCommits = 1] ELSE stores[sw]]
      /\ plan' = plan /\ requests' = requests /\ replies' = replies
    BY DEF newCycle
<1>3. ASSUME NEW c \in Apps, NEW s \in Switches PROVE Untouched(c, s)
  <2>1. apps[c] \in AppRecords /\ c \in Sessions
      BY <1>1 DEF Shapes, Apps
  <2>2. PICK time, since : apps'[c] = [apps[c] EXCEPT !.timestamp = time, !.released = since]
      BY <1>2, <2>1
  <2>3. apps'[c].flags = apps[c].flags
      BY <2>1, <2>2 DEF AppRecords
  <2> QED BY <1>2, <2>3 DEF Untouched, Has
<1>4. ASSUME NEW sw \in Switches
      PROVE  /\ stores'[sw].runningLock = stores[sw].runningLock
             /\ stores'[sw].candidateLock = stores[sw].candidateLock
             /\ stores'[sw].running = stores[sw].running
             /\ stores'[sw].candidate = stores[sw].candidate
  <2>1. stores[sw] \in Stores
      BY <1>1 DEF Shapes
  <2>2. stores'[sw] = [stores[sw] EXCEPT !.timedCommits = 1] \/ stores'[sw] = stores[sw]
      BY <1>2
  <2> QED BY <2>1, <2>2 DEF Stores
<1>5. ASSUME NEW a \in Apps, NEW s \in Switches PROVE RunningOf(a, s)'
  <2>1. (Holds(a, s)' <=> Holds(a, s)) /\ RunningOf(a, s)
      BY <1>4 DEF Holds, RunningInv
  <2> QED BY <1>2, <1>3, <1>4, <2>1, SameCommits, RunningKept
<1> QED BY <1>2, <1>5, PlannedKept DEF RunningInv

LEMMA OtherClientRunningInv ==
    ASSUME ProtocolInv, RunningInv, NEW c \in Sessions \ Apps, NEW sw \in Switches,
           OtherClient(c, sw)
    PROVE  RunningInv'
<1>1. Shapes /\ stores[sw] \in Stores
    BY DEF ProtocolInv, Shapes
<1>2. PICK d, e, o : /\ d = stores[sw] /\ o \in OtherOutcomes(d, c) /\ e = o.stores
                     /\ stores' = [stores EXCEPT ![sw] = e]
    BY DEF OtherClient
<1>3. apps' = apps /\ plan' = plan /\ requests' = requests /\ replies' = replies
    BY DEF OtherClient
<1>4. Writes(d, c, ChangesOfOthers, e) /\ Spares(d, c, e)
    BY <1>1, <1>2, OtherWrites, OtherOutcomeSpares
<1>5. stores'[sw] = e /\ \A s \in Switches \ {sw} : stores'[s] = stores[s]
    BY <1>1, <1>2 DEF Shapes
<1>6. ASSUME NEW a \in Apps, NEW s \in Switches PROVE RunningOf(a, s)'
  <2>1. Untouched(a, s) /\ RunningOf(a, s)
      BY <1>3 DEF Untouched, Has, RunningInv
  <2>2. CASE s # sw
    <3>1. stores'[s] = stores[s] /\ (Holds(a, s)' <=> Holds(a, s))
        BY <1>5, <2>2 DEF Holds
    <3> QED BY <1>3, <2>1, <3>1, SameCommits, RunningKept
  <2>3. CASE s = sw
    <3>1. Planned(a, sw) \cap ChangesOfOthers = {} /\ c \in Sessions \ {a}
        BY DEF RunningInv, Distinct
    <3> QED BY <1>2, <1>3, <1>4, <1>5, <2>1, <2>3, <3>1, RunningSpared
  <2> QED BY <2>2, <2>3
<1> QED BY <1>3, <1>6, PlannedKept DEF RunningInv

(* What a timed commit applies, and that it takes the candidate.           *)
LEMMA TimedCommitWrites ==
    ASSUME NEW d \in Stores, d.timedCommits > 0, NEW o, o = executeTimedCommit(d)
    PROVE  /\ o.stores.running = d.running \cup Applied(d) /\ Contents(o.stores) = {}
           /\ o.reply = "ok" => Contents(d) \subseteq o.stores.running
<1>1. o.stores.running = d.running \cup Applied(d) /\ o.stores.candidate = << >>
    BY TimedCommitFacts
<1>2. Contents(o.stores) = {}
    BY <1>1, NoContents
<1>3. ASSUME o.reply = "ok" PROVE Applied(d) = Contents(d)
  <2>1. o.reply = applyTo(d).reply
      BY DEF executeTimedCommit
  <2>2. "ok" # "error"
      OBVIOUS
  <2>3. \A i \in DOMAIN d.candidate : d.candidate[i] \in Applicable
      BY <1>3, <2>1, <2>2 DEF applyTo, Ok, Error
  <2> QED BY <2>3, AppliedAll
<1> QED BY <1>1, <1>2, <1>3

LEMMA TimedCommitRunningInv ==
    ASSUME ProtocolInv, CommitInv, RunningInv, NEW sw \in Switches, TimedCommit(sw)
    PROVE  RunningInv'
<1>1. PICK o, b :
          /\ o = executeTimedCommit(stores[sw]) /\ b = stores[sw].commitOperation
          /\ stores[sw] \in Stores /\ stores[sw].timedCommits > 0
          /\ o.reply = "ok" \/ o.reply = "error"
          /\ stores'[sw] = o.stores /\ \A s \in Switches \ {sw} : stores'[s] = stores[s]
          /\ plan' = plan /\ apps' = apps
          /\ \A e \in Apps, s \in Switches : e # b \/ s # sw => Untouched(e, s)
          /\ b \in Apps => Replied(b, sw, "Commit approved", 0, o.reply)'
    BY TimedCommitEffects
<1>2. PICK d, e : d = stores[sw] /\ e = o.stores
    OBVIOUS
<1>3. /\ e.running = d.running \cup Applied(d) /\ Contents(e) = {}
      /\ o.reply = "ok" => Contents(d) \subseteq e.running
    BY <1>1, <1>2, TimedCommitWrites
<1>4. Applied(d) \subseteq Contents(d)
    BY DEF Applied, Contents
<1>5. ASSUME NEW a \in Apps, NEW s \in Switches PROVE RunningOf(a, s)'
  <2>1. RunningOf(a, s) /\ Planned(a, s)' = Planned(a, s)
      BY <1>1, PlannedKept DEF RunningInv
  <2>2. CASE s # sw
    <3>1. stores'[s] = stores[s] /\ (Holds(a, s)' <=> Holds(a, s)) /\ Untouched(a, s)
        BY <1>1, <2>2 DEF Holds
    <3> QED BY <1>1, <2>1, <3>1, SameCommits, RunningKept
  <2>3. CASE s = sw /\ a # b
    <3>1. (Did(a, sw)' <=> Did(a, sw)) /\ (Failed(a, sw)' <=> Failed(a, sw))
        BY <1>1, <2>3, SameCommits
    <3>2. ~ Holds(a, sw)
        BY <1>1, <2>3, ScheduledAlone
    <3>3. Planned(a, sw) \cap Contents(d) = {}
        BY <1>2, <2>1, <2>3, <3>2 DEF RunningOf
    <3>4. Planned(a, sw) \cap e.running = Planned(a, sw) \cap d.running
        BY <1>3, <1>4, <3>3
    <3>5. stores'[sw] = e /\ d = stores[sw] /\ d.running \subseteq e.running
        BY <1>1, <1>2, <1>3
    <3>6. /\ Planned(a, sw) \cap d.running # {} => Did(a, sw) \/ Failed(a, sw)
          /\ Did(a, sw) => Planned(a, sw) \subseteq d.running
        BY <2>1, <2>3, <3>5 DEF RunningOf
    <3>7. Planned(a, sw)' = Planned(a, sw)
        BY <2>1, <2>3
    <3>8. RunningOf(a, sw)'
        BY <1>3, <3>1, <3>4, <3>5, <3>6, <3>7 DEF RunningOf
    <3> QED BY <2>3, <3>8
  <2>4. CASE s = sw /\ a = b
    <3>1. /\ Holds(a, sw) /\ apps[a].state = "WaitOnCommitExecution"
          /\ Silent(a, sw) /\ ~ Has(a, sw, "Commited")
        BY <1>1, <2>4, ScheduledHolds
    <3>2. ~ Did(a, sw) /\ ~ Failed(a, sw)
        BY <3>1, Spoken DEF OneThing, Did, Failed
    <3>3. d.candidate = plan[a][sw]
        BY <1>2, <3>1, <3>2 DEF CommitInv, CandidatesOwned, Expected
    <3>4. Contents(d) = Planned(a, sw)
        BY <3>3 DEF Contents, Planned
    <3>5. Replied(a, sw, "Commit approved", 0, o.reply)' /\ ~ Has(a, sw, "Commited")'
        BY <1>1, <2>4, <3>1 DEF Has
    <3>6. Did(a, sw)' \/ Failed(a, sw)'
        BY <1>1, <3>5 DEF Did, Failed
    <3>7. Did(a, sw)' => o.reply = "ok"
      <4>1. ASSUME Replied(a, sw, "Commit approved", 0, "ok")' PROVE o.reply = "ok"
        <5>1. PICK r, t : /\ r = [id |-> "Commit approved", n |-> 0, status |-> o.reply]
                          /\ t = [id |-> "Commit approved", n |-> 0, status |-> "ok"]
            OBVIOUS
        <5>2. << r >> = << t >>
            BY <3>5, <4>1, <5>1 DEF Replied
        <5>3. r = t
            BY <5>2
        <5>4. r.status = o.reply /\ t.status = "ok"
            BY <5>1
        <5> QED BY <5>3, <5>4
      <4> QED BY <3>5, <4>1 DEF Did
    <3>8. stores'[sw] = e
        BY <1>1, <1>2
    <3>9. Planned(a, sw)' = Planned(a, sw)
        BY <2>1, <2>4
    <3>10. RunningOf(a, sw)'
        BY <1>3, <3>4, <3>6, <3>7, <3>8, <3>9 DEF RunningOf
    <3> QED BY <2>4, <3>10
  <2> QED BY <2>2, <2>3, <2>4
<1> QED BY <1>1, <1>5, PlannedKept DEF RunningInv

(* What the request of an app writes.                                      *)
HandledWrite(d, c, sw, id, o) ==
    /\ Writes(d, c, Planned(c, sw), o.stores)
    /\ id # "Commit approved" \/ o.reply = "none" => o.stores.running = d.running
    /\ id # "Change" => Contents(o.stores) \subseteq Contents(d)
    /\ id = "Commit approved" /\ o.reply = "ok" => Contents(d) \subseteq o.stores.running
    /\ id \in {"Delete Old Config", "Delete Candidate Config"} /\ o.reply = "ok" =>
          Contents(o.stores) = {}

LEMMA HandledWrites ==
    ASSUME ProtocolInv, NEW c \in Apps, NEW sw \in Switches, NEW id \in Ids, NEW n \in Nat,
           Topic(c, sw, id, n), NEW o, o = handleMessage(stores[sw], c, sw, Message(id, n))
    PROVE  HandledWrite(stores[sw], c, sw, id, o)
<1>1. PICK d, m, some : /\ d = stores[sw] /\ d \in Stores /\ c \in Sessions
                        /\ m = Message(id, n) /\ m.id = id /\ m.n = n
                        /\ some = Planned(c, sw)
  <2>1. stores[sw] \in Stores /\ c \in Sessions
      BY ConversationFacts DEF Shapes
  <2>2. Message(id, n).id = id /\ Message(id, n).n = n
      BY DEF Message
  <2> QED BY <2>1, <2>2
<1>2. o = handleMessage(d, c, sw, m)
    BY <1>1
<1>3. /\ Writes(d, c, some, o.stores)
      /\ id # "Commit approved" \/ o.reply = "none" => o.stores.running = d.running
      /\ id # "Change" => Contents(o.stores) \subseteq Contents(d)
      /\ id = "Commit approved" /\ o.reply = "ok" => Contents(d) \subseteq o.stores.running
      /\ id \in {"Delete Old Config", "Delete Candidate Config"} /\ o.reply = "ok" =>
            Contents(o.stores) = {}
  <2>1. CASE id = "Lock" \/ id = "Unlock"
    <3>1. o = handleLock(d, "running", c) \/ o = handleUnlock(d, "running", c)
        BY <1>1, <1>2, <2>1 DEF handleMessage
    <3>2. /\ Writes(d, c, some, o.stores) /\ Contents(o.stores) \subseteq Contents(d)
          /\ o.stores.running = d.running
        BY <1>1, <3>1, LockWrites
    <3> QED BY <2>1, <3>2
  <2>2. CASE id = "Copy Config"
    <3>1. o = handleCopyConfig(d, "running", c)
        BY <1>1, <1>2, <2>2 DEF handleMessage
    <3>2. /\ Writes(d, c, some, o.stores) /\ Contents(o.stores) \subseteq Contents(d)
          /\ o.stores.running = d.running
        BY <1>1, <3>1, CopyWrites
    <3> QED BY <2>2, <3>2
  <2>3. CASE id = "Lock Candidate"
    <3>1. o = handleLock(d, "candidate", c)
        BY <1>1, <1>2, <2>3 DEF handleMessage
    <3>2. /\ Writes(d, c, some, o.stores) /\ Contents(o.stores) \subseteq Contents(d)
          /\ o.stores.running = d.running
        BY <1>1, <3>1, LockWrites
    <3> QED BY <2>3, <3>2
  <2>4. CASE id = "Change"
    <3>1. plan[c][sw] \in Seq(Changes) /\ n \in 1 .. Len(plan[c][sw])
        BY <2>4, Plan DEF Topic
    <3>2. PICK change \in Changes : change = plan[c][sw][n] /\ change \in some
        BY <1>1, <3>1 DEF Planned
    <3>3. o = handleEditConfig(d, "candidate", c, change)
        BY <1>1, <1>2, <2>4, <3>2 DEF handleMessage
    <3> QED BY <1>1, <2>4, <3>2, <3>3, EditWrites
  <2>5. CASE id = "Timestamp"
    <3>1. PICK e : e = [d EXCEPT !.commitTimestamp = c] /\ (o = Ok(e) \/ o = Error(d))
        BY <1>1, <1>2, <2>5 DEF handleMessage, handleEditTimestamp
    <3>2. /\ Writes(d, c, some, o.stores) /\ Contents(o.stores) \subseteq Contents(d)
          /\ o.stores.running = d.running
        BY <1>1, <3>1, TimestampWrites
    <3> QED BY <2>5, <3>2
  <2>6. CASE id = "Commit approved"
    <3>1. o = handleCommit(d, c)
        BY <1>1, <1>2, <2>6 DEF handleMessage
    <3> QED BY <1>1, <2>6, <3>1, CommitWrites
  <2>7. CASE id = "Delete Old Config" \/ id = "Delete Candidate Config"
    <3>1. o = handleDeleteConfig(d, "candidate", c)
        BY <1>1, <1>2, <2>7 DEF handleMessage
    <3>2. /\ Writes(d, c, some, o.stores) /\ Contents(o.stores) \subseteq Contents(d)
          /\ o.stores.running = d.running
          /\ o.reply = "ok" => Contents(o.stores) = {}
        BY <1>1, <3>1, DeleteWrites
    <3> QED BY <2>7, <3>2
  <2> QED BY <2>1, <2>2, <2>3, <2>4, <2>5, <2>6, <2>7 DEF Ids
<1> QED BY <1>1, <1>3 DEF HandledWrite

(* An app asks for a change only of a switch it holds, and asks to unlock  *)
(* a switch only after its candidate is deleted.                           *)
LEMMA AsksHolding ==
    ASSUME ProtocolInv, NEW c \in Apps, NEW sw \in Switches, NEW id, NEW n, Asked(c, sw, id, n),
           Topic(c, sw, id, n)
    PROVE  /\ id = "Change" => Holds(c, sw)
           /\ id = "Unlock" => ~ Holds(c, sw)
<1>1. /\ InState(c, sw, apps[c].state) /\ Talks(c, sw, id, n) /\ ~ Silent(c, sw)
      /\ apps[c].state \in States /\ \A i, m, st : ~ Replied(c, sw, i, m, st)
    BY ConversationFacts, Spoken DEF OneThing
<1>2. \A i, m : Talks(c, sw, i, m) => i = id
    BY <1>1, OneTopic
<1>3. ASSUME id = "Change" PROVE Holds(c, sw)
  <2>1. /\ ~ Talks(c, sw, "Lock", 0) /\ ~ Talks(c, sw, "Copy Config", 0)
        /\ ~ Talks(c, sw, "Lock Candidate", 0) /\ ~ Talks(c, sw, "Timestamp", 0)
        /\ ~ Talks(c, sw, "Commit approved", 0) /\ ~ Talks(c, sw, "Delete Old Config", 0)
        /\ ~ Talks(c, sw, "Delete Candidate Config", 0) /\ ~ Talks(c, sw, "Unlock", 0)
      BY <1>2, <1>3
  <2>2. /\ ~ InBegin(c, sw) /\ ~ InLock(c, sw) /\ ~ InCopy(c, sw) /\ ~ InCandidateLock(c, sw)
        /\ ~ InTimestamp(c, sw)
      BY <1>1, <2>1 DEF InBegin, InLock, InCopy, InCandidateLock, InTimestamp, AskedUnless
  <2>3. /\ ~ InCommit(c, sw) /\ ~ InDeleteOld(c, sw) /\ ~ InError(c, sw) /\ ~ InDelete(c, sw)
        /\ ~ InUnlock(c, sw) /\ ~ InEnd(c, sw)
      BY <1>1, <2>1 DEF InCommit, InDeleteOld, InError, InDelete, InUnlock, InEnd
  <2>4. InChange(c, sw)
      BY <1>1, <2>2, <2>3, InStateCases DEF States
  <2>5. Owns(c, sw) /\ OwnsCandidate(c, sw)
      BY <1>1, <2>4 DEF InChange, HasAll, Owns, OwnsCandidate
  <2> QED BY <2>5, ConversationFacts DEF Holds
<1>4. ASSUME id = "Unlock" PROVE ~ Holds(c, sw)
  <2>1. CASE apps[c].state = "WaitOnUnlock"
    <3>1. InUnlock(c, sw)
        BY <1>1, <2>1, InStateCases
    <3>2. ~ OwnsCandidate(c, sw)
        BY <1>1, <3>1 DEF InUnlock, HasNone, OwnsCandidate
    <3> QED BY <3>2, ConversationFacts DEF Holds
  <2>2. CASE ~ Has(c, sw, "LockedRunning")
    <3>1. ~ Owns(c, sw)
        BY <1>1, <2>2 DEF Owns
    <3> QED BY <3>1, ConversationFacts DEF Holds
  <2> QED BY <1>4, <2>1, <2>2 DEF Topic
<1> QED BY <1>3, <1>4

LEMMA ServeRunningInv ==
    ASSUME ProtocolInv, CommitInv, RunningInv, NEW c \in Apps, NEW sw \in Switches, Serve(c, sw)
    PROVE  RunningInv'
<1>1. PICK id, n, o :
          /\ id \in Ids /\ n \in Nat
          /\ Asked(c, sw, id, n) /\ Topic(c, sw, id, n)
          /\ o = handleMessage(stores[sw], c, sw, Message(id, n))
          /\ Outcome(stores[sw], c, id, o)
          /\ stores' = [stores EXCEPT ![sw] = o.stores]
          /\ o.reply = "none" => Silent(c, sw)'
          /\ o.reply # "none" => Replied(c, sw, id, n, o.reply)'
          /\ \A d \in Apps, s \in Switches : d # c \/ s # sw => Untouched(d, s)
          /\ apps' = apps /\ plan' = plan
    BY ServeFacts
<1>2. Shapes /\ c \in Sessions
    BY ConversationFacts
<1>3. PICK d, e, r : d = stores[sw] /\ e = o.stores /\ r = o.reply
    OBVIOUS
<1>4. stores'[sw] = e /\ \A s \in Switches \ {sw} : stores'[s] = stores[s]
    BY <1>1, <1>2, <1>3 DEF Shapes
<1>5. /\ Writes(d, c, Planned(c, sw), e) /\ Spares(d, c, e)
      /\ id # "Commit approved" \/ r = "none" => e.running = d.running
      /\ id # "Change" => Contents(e) \subseteq Contents(d)
      /\ id = "Commit approved" /\ r = "ok" => Contents(d) \subseteq e.running
      /\ id \in {"Delete Old Config", "Delete Candidate Config"} /\ r = "ok" => Contents(e) = {}
  <2>1. HandledWrite(d, c, sw, id, o)
      BY <1>1, <1>3, HandledWrites
  <2>2. Spares(d, c, e)
      BY <1>1, <1>3 DEF Outcome
  <2> QED BY <1>3, <2>1, <2>2 DEF HandledWrite
<1>6. /\ r \in {"ok", "error", "none"}
      /\ e.runningLock = c <=> \/ d.runningLock = c /\ ~ (id = "Unlock" /\ r = "ok")
                               \/ id = "Lock" /\ r = "ok"
      /\ e.candidateLock = c <=>
            \/ /\ d.candidateLock = c
               /\ ~ (id \in {"Delete Old Config", "Delete Candidate Config"} /\ r = "ok")
            \/ id = "Lock Candidate" /\ r = "ok"
    BY <1>1, <1>3 DEF Outcome
<1>7. ASSUME NEW a \in Apps, NEW s \in Switches, a # c \/ s # sw PROVE RunningOf(a, s)'
  <2>1. Untouched(a, s) /\ RunningOf(a, s)
      BY <1>1, <1>7 DEF RunningInv
  <2>2. CASE s # sw
    <3>1. stores'[s] = stores[s] /\ (Holds(a, s)' <=> Holds(a, s))
        BY <1>4, <2>2 DEF Holds
    <3> QED BY <1>1, <2>1, <3>1, SameCommits, RunningKept
  <2>3. CASE s = sw
    <3>1. a # c /\ c \in Sessions \ {a} /\ Planned(a, s) \cap Planned(c, s) = {}
        BY <1>2, <1>7, <2>3 DEF RunningInv, Distinct
    <3> QED BY <1>1, <1>3, <1>4, <1>5, <2>1, <2>3, <3>1, RunningSpared
  <2> QED BY <2>2, <2>3
<1>8. RunningOf(c, sw) /\ Planned(c, sw)' = Planned(c, sw)
    BY <1>1, PlannedKept DEF RunningInv
<1>9. /\ Has(c, sw, "Commited")' <=> Has(c, sw, "Commited")
      /\ \A i, m, st : ~ Replied(c, sw, i, m, st)
    BY <1>1, Spoken DEF Has, OneThing
<1>10. Has(c, sw, "Commited") <=> Did(c, sw)
    BY <1>9 DEF Did
<1>11. Planned(c, sw) \cap e.running # {} => Did(c, sw)' \/ Failed(c, sw)'
  <2>1. CASE id = "Commit approved" /\ r # "none"
    <3>1. Replied(c, sw, "Commit approved", 0, r)' /\ (r = "ok" \/ r = "error")
        BY <1>1, <1>3, <1>6, <2>1 DEF Topic
    <3> QED BY <3>1 DEF Did, Failed
  <2>2. CASE ~ (id = "Commit approved" /\ r # "none")
    <3>1. Planned(c, sw) \cap d.running # {} => Did(c, sw) \/ Failed(c, sw)
        BY <1>3, <1>8 DEF RunningOf
    <3>2. ~ Failed(c, sw)
        BY <1>9 DEF Failed
    <3>3. Did(c, sw) => Did(c, sw)'
        BY <1>9, <1>10 DEF Did
    <3> QED BY <1>5, <2>2, <3>1, <3>2, <3>3
  <2> QED BY <2>1, <2>2
<1>12. Did(c, sw)' => Planned(c, sw) \subseteq e.running
  <2>1. CASE Has(c, sw, "Commited")
    <3>1. Planned(c, sw) \subseteq d.running
        BY <1>3, <1>8, <1>10, <2>1 DEF RunningOf
    <3> QED BY <1>5, <3>1 DEF Writes
  <2>2. ASSUME Replied(c, sw, "Commit approved", 0, "ok")'
        PROVE  Planned(c, sw) \subseteq e.running
    <3>1. id = "Commit approved" /\ r = "ok"
      <4>1. ~ Silent(c, sw)'
          BY <2>2, SilentSays
      <4>2. Replied(c, sw, id, n, r)'
          BY <1>1, <1>3, <4>1
      <4> QED BY <2>2, <4>2, Spoken DEF OneThing
    <3>2. apps[c].state = "WaitOnCommitExecution" /\ requests[c][sw] # << >>
      <4>1. ~ Silent(c, sw) /\ replies[c][sw] = << >>
          BY <1>1, Spoken DEF OneThing, Asked
      <4> QED BY <1>1, <3>1, <4>1 DEF Topic, Silent
    <3>3. d.candidate = plan[c][sw]
        BY <1>3, <3>2, CommitMeans DEF CommitInv, CommitsOwnChangesOnly
    <3>4. Contents(d) = Planned(c, sw)
        BY <3>3 DEF Contents, Planned
    <3> QED BY <1>5, <3>1, <3>4
  <2> QED BY <1>9, <2>1, <2>2 DEF Did
<1>13. Planned(c, sw) \cap Contents(e) # {} => Holds(c, sw)'
  <2>1. CASE id = "Change"
    <3>1. Holds(c, sw)
        BY <1>1, <2>1, AsksHolding
    <3> QED BY <1>3, <1>4, <1>6, <2>1, <3>1 DEF Holds
  <2>2. CASE id # "Change"
    <3> SUFFICES ASSUME Planned(c, sw) \cap Contents(e) # {} PROVE Holds(c, sw)'
        OBVIOUS
    <3>1. Planned(c, sw) \cap Contents(d) # {}
        BY <1>5, <2>2
    <3>2. Holds(c, sw)
        BY <1>3, <1>8, <3>1 DEF RunningOf
    <3>3. id # "Unlock"
        BY <1>1, <3>2, AsksHolding
    <3>4. ~ (id \in {"Delete Old Config", "Delete Candidate Config"} /\ r = "ok")
        BY <1>5
    <3> QED BY <1>3, <1>4, <1>6, <3>2, <3>3, <3>4 DEF Holds
  <2> QED BY <2>1, <2>2
<1>14. RunningOf(c, sw)'
    BY <1>4, <1>8, <1>11, <1>12, <1>13 DEF RunningOf
<1> QED BY <1>1, <1>7, <1>14, PlannedKept DEF RunningInv

-----------------------------------------------------------------------------
(* What is changed and what is left.                                       *)
LEMMA RunningInitInv ==
    ASSUME Init, Distinct
    PROVE  RunningInv
<1>1. ASSUME NEW c \in Apps, NEW sw \in Switches PROVE RunningOf(c, sw)
  <2>1. apps[c].flags[sw] = {} /\ replies[c][sw] = << >>
    <3>1. PICK uninitialised \in SUBSET Apps :
            apps = [b \in Sessions |-> [state     |-> "BeginOfTransaction",
                                        flags     |-> [s \in Switches |-> {}],
                                        result    |-> b \in uninitialised,
                                        timestamp |-> -1, released |-> 0]]
        BY DEF Init
    <3> QED BY <3>1 DEF Apps, Init, ToNone
  <2>2. \A m : << m >> # << >>
      OBVIOUS
  <2>3. ~ Did(c, sw)
      BY <2>1, <2>2 DEF Did, Has, Replied
  <2>4. stores[sw].running = {} /\ stores[sw].candidate = << >>
      BY DEF Init, StoresInit
  <2>5. Contents(stores[sw]) = {}
      BY <2>4, NoContents
  <2> QED BY <2>3, <2>4, <2>5 DEF RunningOf
<1> QED BY <1>1 DEF RunningInv

(* At the end nothing is under way, no lock is held, and all or none of    *)
(* the switches have committed.                                            *)
LEMMA EndMeans == ProtocolInv /\ RunningInv => AllOrNothing /\ NothingLeftBehind
<1> SUFFICES ASSUME ProtocolInv, RunningInv, NEW c \in Apps, apps[c].state = "EndOfTransaction"
             PROVE  /\ \/ \A sw \in Switches : Planned(c, sw) \subseteq stores[sw].running
                       \/ \A sw \in Switches : Planned(c, sw) \cap stores[sw].running = {}
                    /\ \A sw \in Switches :
                          /\ stores[sw].runningLock # c /\ stores[sw].candidateLock # c
                          /\ \A i \in DOMAIN stores[sw].candidate :
                                stores[sw].candidate[i] \notin Planned(c, sw)
    BY DEF AllOrNothing, NothingLeftBehind
<1>1. ASSUME NEW sw \in Switches
      PROVE  /\ ~ Owns(c, sw) /\ ~ OwnsCandidate(c, sw) /\ ~ Failed(c, sw)
             /\ Did(c, sw) <=> Has(c, sw, "Commited")
  <2>1. /\ ~ Has(c, sw, "LockedRunning") /\ ~ Has(c, sw, "LockedCandidate")
        /\ Silent(c, sw) \/ Talks(c, sw, "Unlock", 0)
      BY ConversationFacts, InStateCases DEF InEnd, InUnlock, HasNone
  <2>2. \A id, n, st : Replied(c, sw, id, n, st) => id = "Unlock"
      BY <2>1, Spoken DEF OneThing
  <2>3. /\ ~ Replied(c, sw, "Lock", 0, "ok") /\ ~ Replied(c, sw, "Lock Candidate", 0, "ok")
        /\ \A st : ~ Replied(c, sw, "Commit approved", 0, st)
      BY <2>2
  <2> QED BY <2>1, <2>3 DEF Owns, OwnsCandidate, Did, Failed
<1>2. ASSUME NEW sw \in Switches
      PROVE  stores[sw].runningLock # c /\ stores[sw].candidateLock # c
    BY <1>1, ConversationFacts
<1>3. ASSUME NEW sw \in Switches, NEW i \in DOMAIN stores[sw].candidate
      PROVE  stores[sw].candidate[i] \notin Planned(c, sw)
  <2>1. stores[sw].candidate[i] \in Contents(stores[sw])
      BY <1>3 DEF Contents
  <2>2. ~ Holds(c, sw) /\ RunningOf(c, sw)
      BY <1>2 DEF Holds, RunningInv
  <2> QED BY <2>1, <2>2 DEF RunningOf
<1>4. CASE \A sw \in Switches : Has(c, sw, "Commited")
  <2>1. \A sw \in Switches : Planned(c, sw) \subseteq stores[sw].running
      BY <1>1, <1>4 DEF RunningInv, RunningOf
  <2> QED BY <1>2, <1>3, <2>1
<1>5. CASE \A sw \in Switches : ~ Has(c, sw, "Commited")
  <2>1. \A sw \in Switches : Planned(c, sw) \cap stores[sw].running = {}
      BY <1>1, <1>5 DEF RunningInv, RunningOf
  <2> QED BY <1>2, <1>3, <2>1
<1>6. \/ \A sw \in Switches : Has(c, sw, "Commited")
      \/ \A sw \in Switches : ~ Has(c, sw, "Commited")
    BY ConversationFacts DEF Conversation
<1> QED BY <1>4, <1>5, <1>6

EndInv ==
    /\ aborted \/ (ProtocolInv /\ CommitInv /\ RunningInv)
    /\ AllOrNothing /\ NothingLeftBehind

LEMMA RunningNextInv ==
    ASSUME ProtocolInv, CommitInv, RunningInv, Next
    PROVE  \/ ProtocolInv' /\ CommitInv' /\ RunningInv'
           \/ \E c \in Apps, sw \in Switches : checkEventHandled(c, sw)
<1>1. ASSUME NEW c \in Apps, AppStep(c), ~ \E sw \in Switches : checkEventHandled(c, sw)
      PROVE  RunningInv'
  <2>1. ProtocolInv'
      BY <1>1, AppStepInv
  <2>2. TransactionTypeOK'
    <3>1. ProtocolInv' => TransactionTypeOK'
        BY ProtocolMeans, PTL
    <3> QED BY <2>1, <3>1
  <2>3. Progress(c)
      BY <1>1, <2>2, AppProgress
  <2> QED BY <2>3, AppRunningInv DEF Progress
<1>2. ASSUME NEW c \in Apps, NEW sw \in Switches, Serve(c, sw)
      PROVE  RunningInv'
    BY <1>2, ServeRunningInv
<1>3. newCycle => RunningInv'
    BY CycleRunningInv
<1>4. ASSUME NEW sw \in Switches, TimedCommit(sw)
      PROVE  RunningInv'
    BY <1>4, TimedCommitRunningInv
<1>5. ASSUME NEW c \in Sessions \ Apps, NEW sw \in Switches, OtherClient(c, sw)
      PROVE  RunningInv'
    BY <1>5, OtherClientRunningInv
<1>6. RunningInv' \/ \E c \in Apps, sw \in Switches : checkEventHandled(c, sw)
    BY <1>1, <1>2, <1>3, <1>4, <1>5 DEF Next
<1> QED BY <1>6, CommitNextInv

LEMMA EndNext ==
    ASSUME EndInv, [Next]_transactionVars
    PROVE  EndInv'
<1>1. CASE UNCHANGED transactionVars
  <2>1. Apps' = Apps
      BY <1>1 DEF Apps, transactionVars
  <2>2. ProtocolInv' <=> ProtocolInv
      BY <1>1, <2>1 DEF transactionVars, ProtocolInv, Shapes, Protocol, Conversation, InState,
         InBegin, InLock, InCopy, InCandidateLock, InChange, InTimestamp, InCommit, InDeleteOld,
         InError, InDelete, InUnlock, InEnd, LocksOwned, CommitAwaited, Owns, OwnsCandidate,
         AskedUnless, Silent, Asked, Replied, Talks, Has, HasAll, HasNone
  <2>3. CommitInv' <=> CommitInv
      BY <1>1, <2>1 DEF transactionVars, CommitInv, Undisturbed, TimestampsTimed, Timer,
         CandidatesOwned, Expected, Holds, Staging, Did, Failed, Unfailed, Asked, Replied, Has
  <2>4. RunningInv' <=> RunningInv
      BY <1>1, <2>1 DEF transactionVars, RunningInv, Distinct, RunningOf, Planned, Contents,
         Holds, Did, Failed, Replied, Has
  <2>5. AllOrNothing' /\ NothingLeftBehind' /\ (aborted' <=> aborted)
      BY <1>1, <2>1 DEF transactionVars, EndInv, AllOrNothing, NothingLeftBehind, Planned
  <2> QED BY <2>2, <2>3, <2>4, <2>5 DEF EndInv
<1>2. CASE Next
  <2>1. ProtocolInv /\ CommitInv /\ RunningInv
      BY <1>2, GoesOn DEF EndInv
  <2>2. CASE \E c \in Apps, sw \in Switches : checkEventHandled(c, sw)
    <3>1. /\ aborted' /\ stores' = stores /\ plan' = plan /\ apps' = apps
          /\ requests' = requests
        BY <2>2, AbortChangesNothing
    <3>2. Apps' = Apps
        BY <3>1 DEF Apps
    <3> QED BY <3>1, <3>2 DEF EndInv, AllOrNothing, NothingLeftBehind, Planned
  <2>3. CASE ProtocolInv' /\ CommitInv' /\ RunningInv'
    <3>1. ProtocolInv' /\ RunningInv' => AllOrNothing' /\ NothingLeftBehind'
        BY EndMeans, PTL
    <3> QED BY <2>3, <3>1 DEF EndInv
  <2> QED BY <1>2, <2>1, <2>2, <2>3, RunningNextInv
<1> QED BY <1>1, <1>2

(* A transaction that ended left all switches changed as planned or none,  *)
(* holds no lock and has no change in a candidate, whatever fails and      *)
(* whatever the other sessions do.                                         *)
LEMMA EndInvHolds == Spec /\ Undisturbed /\ Distinct => []EndInv
<1>1. Init /\ Undisturbed /\ Distinct => EndInv
  <2> SUFFICES ASSUME Init, Undisturbed, Distinct PROVE EndInv
      OBVIOUS
  <2>1. ProtocolInv /\ CommitInv /\ RunningInv
      BY InitInv, CommitInitInv, RunningInitInv DEF TransactionInv, Init
  <2> QED BY <2>1, EndMeans DEF EndInv
<1>2. EndInv /\ [Next]_transactionVars => EndInv'
    BY EndNext
<1> QED BY <1>1, <1>2, PTL DEF Spec

(* A transaction that ended has changed every switch as planned or none of *)
(* them (AllOrNothing): a switch has its changes exactly if its commit was *)
(* executed, and an app reaches the end with all switches committed or     *)
(* with none.                                                              *)
THEOREM AllOrNothingHolds == Spec /\ Undisturbed /\ Distinct => []AllOrNothing
<1>1. EndInv => AllOrNothing
    BY DEF EndInv
<1> QED BY <1>1, EndInvHolds, PTL

(* A transaction that ended holds no lock of a switch, and none of its     *)
(* changes waits in a candidate for the commit of another session.         *)
THEOREM NothingLeftBehindHolds == Spec /\ Undisturbed /\ Distinct => []NothingLeftBehind
<1>1. EndInv => NothingLeftBehind
    BY DEF EndInv
<1> QED BY <1>1, EndInvHolds, PTL

-----------------------------------------------------------------------------
(* A commit that was released in time reaches its cycle: what the distance *)
(* to the cycle has lost since the release, the time under way has gained. *)
ReleaseInv ==
    \A c \in Apps \cap TimedApps :
        CommitUnderWay(c) => apps[c].timestamp + apps[c].released > ReleaseLead

UnderWayInCommit ==
    \A c \in Apps : CommitUnderWay(c) => apps[c].state = "WaitOnCommitExecution"

LEMMA UnderWay == ProtocolInv => UnderWayInCommit
<1> SUFFICES ASSUME ProtocolInv, NEW c \in Apps, CommitUnderWay(c)
             PROVE  apps[c].state = "WaitOnCommitExecution"
    BY DEF UnderWayInCommit
<1>1. PICK sw \in Switches : /\ requests[c][sw] # << >>
                             /\ Head(requests[c][sw]).id = "Commit approved"
    BY DEF CommitUnderWay
<1>2. PICK id \in Ids, n \in Nat : Talks(c, sw, id, n) /\ Topic(c, sw, id, n)
    BY <1>1, TopicFacts DEF Silent
<1>3. PICK m : m = Message(id, n) /\ m.id = id
    BY MessageFacts
<1>4. requests[c][sw] = << m >>
    BY <1>1, <1>2, <1>3 DEF Talks, Asked, Replied
<1>5. Head(<< m >>) = m
    OBVIOUS
<1> QED BY <1>1, <1>2, <1>3, <1>4, <1>5 DEF Topic

LEMMA AppReleaseInv ==
    ASSUME ProtocolInv, ProtocolInv', ReleaseInv, NEW c \in Apps, Onward(c)
    PROVE  ReleaseInv'
<1>1. /\ \A d \in Sessions \ {c} : apps'[d] = apps[d] /\ requests'[d] = requests[d]
      /\ Apps' = Apps
    BY DEF Onward, Elsewhere, Apps
<1>2. ASSUME NEW a \in Apps \cap TimedApps, CommitUnderWay(a)'
      PROVE  apps'[a].timestamp + apps'[a].released > ReleaseLead
  <2>1. CASE a # c
    <3>1. apps'[a] = apps[a] /\ requests'[a] = requests[a]
        BY <1>1, <2>1 DEF Apps
    <3>2. CommitUnderWay(a)
        BY <1>2, <3>1 DEF CommitUnderWay
    <3> QED BY <3>1, <3>2 DEF ReleaseInv
  <2>2. CASE a = c
    <3>1. apps'[c].state = "WaitOnCommitExecution"
      <4>1. ProtocolInv' => UnderWayInCommit'
          BY UnderWay, PTL
      <4> QED BY <1>1, <1>2, <2>2, <4>1 DEF UnderWayInCommit
    <3>2. CASE /\ apps[c].state = "WaitOnCommitExecution"
               /\ \A s \in Switches : requests'[c][s] = requests[c][s]
      <4>1. CommitUnderWay(c)
          BY <1>2, <2>2, <3>2 DEF CommitUnderWay
      <4>2. apps'[c].timestamp = apps[c].timestamp /\ apps'[c].released = apps[c].released
          BY <3>2 DEF Onward
      <4> QED BY <2>2, <4>1, <4>2 DEF ReleaseInv
    <3>3. CASE apps'[c].timestamp > ReleaseLead
      <4>1. apps' \in [Sessions -> AppRecords]
          BY DEF ProtocolInv, Shapes
      <4>2. apps'[c].timestamp \in Int /\ apps'[c].released \in Nat
        <5>1. apps'[c] \in AppRecords
            BY <4>1 DEF Apps
        <5> QED BY <5>1, Constants DEF AppRecords
      <4> QED BY <2>2, <3>3, <4>2, Constants
    <3> QED BY <2>2, <3>1, <3>2, <3>3 DEF Onward
  <2> QED BY <2>1, <2>2
<1> QED BY <1>1, <1>2 DEF ReleaseInv

LEMMA CycleReleaseInv ==
    ASSUME ProtocolInv, ReleaseInv, newCycle
    PROVE  ReleaseInv'
<1>1. /\ apps' = [c \in Sessions |-> [apps[c] EXCEPT
                      !.timestamp = IF @ = -1 THEN -1 ELSE @ - 1,
                      !.released = IF c \in TimedApps /\ CommitUnderWay(c) THEN @ + 1 ELSE @]]
      /\ plan' = plan /\ requests' = requests
    BY DEF newCycle
<1>2. Apps' = Apps /\ \A c : CommitUnderWay(c)' <=> CommitUnderWay(c)
    BY <1>1 DEF Apps, CommitUnderWay
<1>3. ASSUME NEW c \in Apps \cap TimedApps, CommitUnderWay(c)
      PROVE  apps'[c].timestamp + apps'[c].released > ReleaseLead
  <2>1. apps[c] \in AppRecords /\ c \in Sessions
      BY DEF Apps, ProtocolInv, Shapes
  <2>2. PICK t, r : t = apps[c].timestamp /\ r = apps[c].released /\ t \in Int /\ r \in Nat
      BY <2>1, Constants DEF AppRecords
  <2>3. PICK time, since :
            /\ time = (IF t = -1 THEN -1 ELSE t - 1) /\ since = r + 1
            /\ apps'[c] = [apps[c] EXCEPT !.timestamp = time, !.released = since]
      BY <1>1, <1>3, <2>1, <2>2
  <2>4. apps'[c].timestamp = time /\ apps'[c].released = since
      BY <2>1, <2>3 DEF AppRecords
  <2>5. t + r > ReleaseLead
      BY <1>3, <2>2 DEF ReleaseInv
  <2>6. time + since >= t + r
      BY <2>2, <2>3
  <2>7. time \in Int /\ since \in Int
      BY <2>2, <2>3
  <2> QED BY <2>2, <2>4, <2>5, <2>6, <2>7, Constants
<1> QED BY <1>2, <1>3 DEF ReleaseInv

(* A step of a switch takes requests, it adds none.                        *)
LEMMA SwitchReleaseInv ==
    ASSUME ReleaseInv, apps' = apps, plan' = plan,
           \A a \in Apps, s \in Switches :
               requests'[a][s] = requests[a][s] \/ requests'[a][s] = << >>
    PROVE  ReleaseInv'
<1>1. Apps' = Apps
    BY DEF Apps
<1>2. ASSUME NEW a \in Apps, CommitUnderWay(a)' PROVE CommitUnderWay(a)
    BY <1>2 DEF CommitUnderWay
<1> QED BY <1>1, <1>2 DEF ReleaseInv

LEMMA ReleaseMeans ==
    ASSUME CommitDelay <= ReleaseLead
    PROVE  ProtocolInv /\ ReleaseInv => CommitsReachTheirCycle
<1> SUFFICES ASSUME ProtocolInv, ReleaseInv, NEW c \in Apps \cap TimedApps, NEW sw \in Switches,
                    apps[c].state = "WaitOnCommitExecution", requests[c][sw] # << >>
             PROVE  apps[c].timestamp > 0
    BY DEF CommitsReachTheirCycle
<1>1. PICK id \in Ids, n \in Nat : Talks(c, sw, id, n) /\ Topic(c, sw, id, n)
    BY TopicFacts DEF Silent
<1>2. Asked(c, sw, id, n)
    BY <1>1 DEF Talks, Replied
<1>3. id = "Commit approved"
    BY <1>2, AsksInState
<1>4. PICK m : m = Message(id, n) /\ m.id = id
    BY MessageFacts
<1>5. Head(<< m >>) = m
    OBVIOUS
<1>6. CommitUnderWay(c)
    BY <1>2, <1>3, <1>4, <1>5 DEF Asked, CommitUnderWay
<1>7. PICK t, r : t = apps[c].timestamp /\ r = apps[c].released /\ t \in Int
                  /\ r \in 0 .. CommitDelay
  <2>1. apps[c] \in AppRecords
      BY DEF Apps, ProtocolInv, Shapes
  <2> QED BY <2>1, Constants DEF AppRecords
<1>8. t + r > ReleaseLead
    BY <1>6, <1>7 DEF ReleaseInv
<1> QED BY <1>7, <1>8, Constants

ReachInv ==
    /\ aborted \/ (ProtocolInv /\ ReleaseInv)
    /\ CommitsReachTheirCycle

LEMMA ReleaseNextInv ==
    ASSUME ProtocolInv, ReleaseInv, Next
    PROVE  \/ ProtocolInv' /\ ReleaseInv'
           \/ \E c \in Apps, sw \in Switches : checkEventHandled(c, sw)
<1>1. ASSUME NEW c \in Apps, AppStep(c), ~ \E sw \in Switches : checkEventHandled(c, sw)
      PROVE  ProtocolInv' /\ ReleaseInv'
  <2>1. ProtocolInv'
      BY <1>1, AppStepInv
  <2>2. TransactionTypeOK'
    <3>1. ProtocolInv' => TransactionTypeOK'
        BY ProtocolMeans, PTL
    <3> QED BY <2>1, <3>1
  <2>3. Progress(c)
      BY <1>1, <2>2, AppProgress
  <2> QED BY <2>1, <2>3, AppReleaseInv DEF Progress
<1>2. ASSUME NEW c \in Apps, NEW sw \in Switches, Serve(c, sw)
      PROVE  ProtocolInv' /\ ReleaseInv'
  <2>1. ProtocolInv'
      BY <1>2, ServeStep
  <2>2. /\ apps' = apps /\ plan' = plan
        /\ \A d \in Apps, s \in Switches : d # c \/ s # sw => Untouched(d, s)
        /\ requests'[c][sw] = << >>
    <3>1. PICK id, n, o :
              /\ o.reply = "none" => Silent(c, sw)'
              /\ o.reply # "none" => Replied(c, sw, id, n, o.reply)'
              /\ \A d \in Apps, s \in Switches : d # c \/ s # sw => Untouched(d, s)
              /\ apps' = apps /\ plan' = plan
        BY <1>2, ServeFacts
    <3> QED BY <3>1 DEF Silent, Replied
  <2>3. \A a \in Apps, s \in Switches :
            requests'[a][s] = requests[a][s] \/ requests'[a][s] = << >>
      BY <2>2 DEF Untouched
  <2> QED BY <2>1, <2>2, <2>3, SwitchReleaseInv
<1>3. ASSUME newCycle
      PROVE  ProtocolInv' /\ ReleaseInv'
    BY <1>3, CycleStep, CycleReleaseInv
<1>4. ASSUME NEW sw \in Switches, TimedCommit(sw)
      PROVE  ProtocolInv' /\ ReleaseInv'
  <2>1. apps' = apps /\ plan' = plan /\ requests' = requests
      BY <1>4 DEF TimedCommit
  <2> QED BY <1>4, <2>1, TimedCommitStep, SwitchReleaseInv
<1>5. ASSUME NEW c \in Sessions \ Apps, NEW sw \in Switches, OtherClient(c, sw)
      PROVE  ProtocolInv' /\ ReleaseInv'
  <2>1. apps' = apps /\ plan' = plan /\ requests' = requests
      BY <1>5 DEF OtherClient
  <2> QED BY <1>5, <2>1, OtherClientStep, SwitchReleaseInv
<1> QED BY <1>1, <1>2, <1>3, <1>4, <1>5 DEF Next

LEMMA ReachNext ==
    ASSUME CommitDelay <= ReleaseLead, ReachInv, [Next]_transactionVars
    PROVE  ReachInv'
<1>1. CASE UNCHANGED transactionVars
  <2>1. Apps' = Apps
      BY <1>1 DEF Apps, transactionVars
  <2>2. ProtocolInv' <=> ProtocolInv
      BY <1>1, <2>1 DEF transactionVars, ProtocolInv, Shapes, Protocol, Conversation, InState,
         InBegin, InLock, InCopy, InCandidateLock, InChange, InTimestamp, InCommit, InDeleteOld,
         InError, InDelete, InUnlock, InEnd, LocksOwned, CommitAwaited, Owns, OwnsCandidate,
         AskedUnless, Silent, Asked, Replied, Talks, Has, HasAll, HasNone
  <2>3. /\ ReleaseInv' <=> ReleaseInv
        /\ CommitsReachTheirCycle' <=> CommitsReachTheirCycle
        /\ aborted' <=> aborted
      BY <1>1, <2>1 DEF transactionVars, ReleaseInv, CommitUnderWay, CommitsReachTheirCycle
  <2> QED BY <2>2, <2>3 DEF ReachInv
<1>2. CASE Next
  <2>1. ProtocolInv /\ ReleaseInv
      BY <1>2, GoesOn DEF ReachInv
  <2>2. CASE \E c \in Apps, sw \in Switches : checkEventHandled(c, sw)
    <3>1. /\ aborted' /\ stores' = stores /\ plan' = plan /\ apps' = apps
          /\ requests' = requests
        BY <2>2, AbortChangesNothing
    <3>2. Apps' = Apps
        BY <3>1 DEF Apps
    <3> QED BY <3>1, <3>2 DEF ReachInv, CommitsReachTheirCycle
  <2>3. CASE ProtocolInv' /\ ReleaseInv'
    <3>1. ProtocolInv' /\ ReleaseInv' => CommitsReachTheirCycle'
        BY ReleaseMeans, PTL
    <3> QED BY <2>3, <3>1 DEF ReachInv
  <2> QED BY <1>2, <2>1, <2>2, <2>3, ReleaseNextInv
<1> QED BY <1>1, <1>2

(* A commit that was released is still to be scheduled for its cycle at    *)
(* every switch, if no commit is under way for longer than the app reckons *)
(* (checkCommitrelease compares with that lead, strictly).                 *)
THEOREM CommitsReachTheirCycleHolds ==
    ASSUME CommitDelay <= ReleaseLead
    PROVE  Spec => []CommitsReachTheirCycle
<1>1. Init => ReachInv
  <2> SUFFICES ASSUME Init PROVE ReachInv
      OBVIOUS
  <2>1. ProtocolInv
      BY InitInv DEF TransactionInv, Init
  <2>2. ReleaseInv
    <3>1. \A c \in Apps, sw \in Switches : requests[c][sw] = << >>
        BY DEF Init, ToNone, Apps
    <3> QED BY <3>1 DEF ReleaseInv, CommitUnderWay
  <2> QED BY <2>1, <2>2, ReleaseMeans DEF ReachInv
<1>2. ReachInv /\ [Next]_transactionVars => ReachInv'
    BY ReachNext
<1>3. ReachInv => CommitsReachTheirCycle
    BY DEF ReachInv
<1> QED BY <1>1, <1>2, <1>3, PTL DEF Spec

-----------------------------------------------------------------------------
(* The timestamp an app has sent is that of the switch until the commit is *)
(* executed, and a commit executes in the cycle of the timestamp.          *)
StampKept(c, sw) ==
    /\ apps[c].state = "WaitOnTimestampConfirmation" /\ Stamped(c, sw)
          => stores[sw].commitTimestamp = c
    /\ apps[c].state = "WaitOnCommitExecution"
          => stores[sw].commitTimestamp = c \/ Did(c, sw) \/ Failed(c, sw)

Due(sw) == stores[sw].timedCommits = 1 => apps[stores[sw].commitTimestamp].timestamp = 0

StampInv ==
    /\ \A c \in Apps \cap TimedApps, sw \in Switches : StampKept(c, sw)
    /\ \A sw \in Switches : Due(sw)

Stamping == {"WaitOnTimestampConfirmation", "WaitOnCommitExecution"}

LEMMA StampHolds ==
    ASSUME ProtocolInv, NEW c \in Apps, NEW sw \in Switches, apps[c].state \in Stamping
    PROVE  Holds(c, sw)
<1>1. InTimestamp(c, sw) \/ InCommit(c, sw)
    BY ConversationFacts, InStateCases DEF Stamping
<1>2. \A id, n, st : Replied(c, sw, id, n, st) => id = "Timestamp" \/ id = "Commit approved"
    BY <1>1, Spoken DEF OneThing, InTimestamp, InCommit, AskedUnless
<1>3. Has(c, sw, "LockedRunning") /\ Has(c, sw, "LockedCandidate")
    BY <1>1 DEF InTimestamp, InCommit, HasAll, Staged
<1>4. /\ ~ Replied(c, sw, "Unlock", 0, "ok")
      /\ \A id \in {"Delete Old Config", "Delete Candidate Config"} : ~ Replied(c, sw, id, 0, "ok")
    BY <1>2
<1> QED BY <1>3, <1>4, ConversationFacts DEF Owns, OwnsCandidate, Holds

(* A step that is not about the app and the switch keeps its timestamp.    *)
LEMMA StampAside ==
    ASSUME NEW c \in Apps, NEW s \in Switches, StampKept(c, s), Untouched(c, s),
           apps'[c].state = apps[c].state,
           apps[c].state \in Stamping => stores'[s].commitTimestamp = stores[s].commitTimestamp
    PROVE  StampKept(c, s)'
<1>1. Stamped(c, s)' <=> Stamped(c, s)
    BY Aside DEF Stamped
<1>2. (Did(c, s)' <=> Did(c, s)) /\ (Failed(c, s)' <=> Failed(c, s))
    BY SameCommits
<1> QED BY <1>1, <1>2 DEF StampKept, Stamping

LEMMA AppStampInv ==
    ASSUME ProtocolInv, ProtocolInv', CommitInv, StampInv, NEW c \in Apps, Onward(c)
    PROVE  StampInv'
<1>1. /\ \A d \in Sessions \ {c} : /\ apps'[d] = apps[d] /\ requests'[d] = requests[d]
                                   /\ replies'[d] = replies[d]
      /\ stores' = stores /\ Apps' = Apps
      /\ \A s \in Switches : /\ Did(c, s)' <=> Did(c, s)
                             /\ Failed(c, s)' <=> Failed(c, s)
                             /\ Stamped(c, s)' <=> Stamped(c, s)
    BY DEF Onward, Elsewhere, Apps
<1>2. ASSUME NEW a \in Apps \cap TimedApps, NEW s \in Switches PROVE StampKept(a, s)'
  <2>1. StampKept(a, s)
      BY DEF StampInv
  <2>2. CASE a # c
    <3>1. /\ apps'[a] = apps[a] /\ requests'[a] = requests[a] /\ replies'[a] = replies[a]
        BY <1>1, <2>2 DEF Apps
    <3>2. Untouched(a, s)
        BY <3>1 DEF Untouched, Has
    <3> QED BY <1>1, <2>1, <3>1, <3>2, StampAside
  <2>3. CASE a = c
    <3>1. ASSUME apps'[c].state = "WaitOnTimestampConfirmation", Stamped(c, s)'
          PROVE  stores[s].commitTimestamp = c
      <4>1. Stamped(c, s)
          BY <1>1, <3>1
      <4>2. apps[c].state \notin Early
        <5>1. ASSUME apps[c].state \in Early PROVE FALSE
          <6>1. InState(c, s, apps[c].state)
              BY ConversationFacts
          <6>2. \/ InBegin(c, s) \/ InLock(c, s) \/ InCopy(c, s) \/ InCandidateLock(c, s)
                \/ InChange(c, s)
              BY <5>1, <6>1, InStateCases DEF Early
          <6>3. ~ Has(c, s, "CommitTimeStamp")
              BY <6>2 DEF InBegin, InLock, InCopy, InCandidateLock, InChange, HasNone, Flags
          <6>4. Replied(c, s, "Timestamp", 0, "ok")
              BY <4>1, <6>3 DEF Stamped
          <6>5. ~ Silent(c, s) /\ \A i, m : Talks(c, s, i, m) => i = "Timestamp"
              BY <6>4, OnlyReply
          <6>6. /\ ~ Talks(c, s, "Lock", 0) /\ ~ Talks(c, s, "Copy Config", 0)
                /\ ~ Talks(c, s, "Lock Candidate", 0) /\ \A k : ~ Talks(c, s, "Change", k)
              BY <6>5
          <6> QED BY <6>2, <6>5, <6>6 DEF InBegin, InLock, InCopy, InCandidateLock, InChange,
                                          AskedUnless
        <5> QED BY <5>1
      <4>3. apps[c].state = "WaitOnTimestampConfirmation"
          BY <3>1, <4>2 DEF Onward
      <4> QED BY <2>1, <2>3, <4>1, <4>3 DEF StampKept
    <3>2. ASSUME apps'[c].state = "WaitOnCommitExecution"
          PROVE  stores[s].commitTimestamp = c \/ Did(c, s) \/ Failed(c, s)
      <4>1. CASE apps[c].state = "WaitOnCommitExecution"
          BY <2>1, <2>3, <4>1 DEF StampKept
      <4>2. CASE apps[c].state # "WaitOnCommitExecution"
        <5>1. apps[c].state = "WaitOnTimestampConfirmation"
            BY <2>3, <3>2, <4>2 DEF Onward
        <5>2. Has(c, s, "CommitTimeStamp")'
          <6>1. InState(c, s, apps[c].state)'
              BY <1>1 DEF ProtocolInv, Protocol, Conversation
          <6>2. InCommit(c, s)'
              BY <3>2, <6>1 DEF InState
          <6> QED BY <2>3, <6>2 DEF InCommit
        <5>3. Stamped(c, s)
            BY <1>1, <5>2 DEF Stamped
        <5> QED BY <2>1, <2>3, <5>1, <5>3 DEF StampKept
      <4> QED BY <4>1, <4>2
    <3> QED BY <1>1, <2>3, <3>1, <3>2 DEF StampKept
  <2> QED BY <2>2, <2>3
<1>3. ASSUME NEW s \in Switches PROVE Due(s)'
  <2>1. CASE stores[s].timedCommits = 1
    <3>1. PICK t : t = stores[s].commitTimestamp
        OBVIOUS
    <3>2. t \in Apps /\ apps[t].state \notin Early /\ apps[t].timestamp = 0
        BY <2>1, <3>1 DEF CommitInv, Timer, StampInv, Due
    <3>3. apps'[t].timestamp = 0
      <4>1. CASE t = c
        <5>1. "WaitOnChangeConfirmation" \in Early
            BY DEF Early
        <5> QED BY <3>2, <4>1, <5>1 DEF Onward
      <4>2. CASE t # c
          BY <1>1, <3>2, <4>2 DEF Apps
      <4> QED BY <4>1, <4>2
    <3> QED BY <1>1, <3>1, <3>3 DEF Due
  <2>2. CASE stores[s].timedCommits # 1
      BY <1>1, <2>2 DEF Due
  <2> QED BY <2>1, <2>2
<1> QED BY <1>1, <1>2, <1>3 DEF StampInv

(* A new cycle wakes the switches whose commit is due in it.               *)
LEMMA CycleStampInv ==
    ASSUME ProtocolInv, CommitInv, StampInv, newCycle
    PROVE  StampInv'
<1>1. Shapes
    BY DEF ProtocolInv
<1>2. /\ apps' = [c \in Sessions |-> [apps[c] EXCEPT
                      !.timestamp = IF @ = -1 THEN -1 ELSE @ - 1,
                      !.released = IF c \in TimedApps /\ CommitUnderWay(c) THEN @ + 1 ELSE @]]
      /\ stores' = [sw \in Switches |->
                       IF subscribed(stores[sw]) /\ CyclesToCommit(sw) = 1
                       THEN [stores[sw] EXCEPT !.timedCommits = 1] ELSE stores[sw]]
      /\ \A sw \in Switches : stores[sw].timedCommits = 0
      /\ plan' = plan /\ requests' = requests /\ replies' = replies
    BY DEF newCycle
<1>3. Apps' = Apps
    BY <1>2 DEF Apps
<1>4. ASSUME NEW c \in Apps
      PROVE  /\ apps'[c].state = apps[c].state /\ \A s \in Switches : Untouched(c, s)
             /\ apps[c].timestamp = 1 => apps'[c].timestamp = 0
  <2>1. apps[c] \in AppRecords /\ c \in Sessions
      BY <1>1 DEF Shapes, Apps
  <2>2. PICK t : t = apps[c].timestamp
      OBVIOUS
  <2>3. PICK time, since : /\ time = (IF t = -1 THEN -1 ELSE t - 1)
                           /\ apps'[c] = [apps[c] EXCEPT !.timestamp = time, !.released = since]
      BY <1>2, <2>1, <2>2
  <2>4. /\ apps'[c].state = apps[c].state /\ apps'[c].flags = apps[c].flags
        /\ apps'[c].timestamp = time
      BY <2>1, <2>3 DEF AppRecords
  <2>5. t = 1 => time = 0
      BY <2>3
  <2> QED BY <1>2, <2>2, <2>4, <2>5 DEF Untouched, Has
<1>5. ASSUME NEW sw \in Switches
      PROVE  /\ stores'[sw].commitTimestamp = stores[sw].commitTimestamp
             /\ \/ stores'[sw].timedCommits = 0
                \/ stores[sw].commitOperation # NoSession /\ CyclesToCommit(sw) = 1
  <2>1. stores[sw] \in Stores
      BY <1>1 DEF Shapes
  <2>2. \/ /\ stores'[sw] = [stores[sw] EXCEPT !.timedCommits = 1]
           /\ stores[sw].commitOperation # NoSession /\ CyclesToCommit(sw) = 1
        \/ stores'[sw] = stores[sw]
      BY <1>2 DEF subscribed
  <2> QED BY <1>2, <2>1, <2>2 DEF Stores
<1>6. ASSUME NEW c \in Apps \cap TimedApps, NEW s \in Switches PROVE StampKept(c, s)'
    BY <1>4, <1>5, StampAside DEF StampInv
<1>7. ASSUME NEW s \in Switches PROVE Due(s)'
  <2>1. CASE stores'[s].timedCommits = 0
      BY <2>1 DEF Due
  <2>2. CASE stores[s].commitOperation # NoSession /\ CyclesToCommit(s) = 1
    <3>1. PICK t : t = stores[s].commitTimestamp
        OBVIOUS
    <3>2. t \in Apps /\ apps[t].timestamp = 1
        BY <2>2, <3>1 DEF CommitInv, Timer, CyclesToCommit
    <3>3. apps'[t].timestamp = 0 /\ stores'[s].commitTimestamp = t
        BY <1>4, <1>5, <3>1, <3>2
    <3> QED BY <3>3 DEF Due
  <2> QED BY <1>5, <2>1, <2>2
<1> QED BY <1>3, <1>6, <1>7 DEF StampInv

LEMMA TimedCommitStampInv ==
    ASSUME ProtocolInv, CommitInv, StampInv, NEW sw \in Switches, TimedCommit(sw)
    PROVE  StampInv'
<1>1. PICK o, b :
          /\ b = stores[sw].commitOperation /\ stores[sw].timedCommits > 0
          /\ o.reply = "ok" \/ o.reply = "error"
          /\ o.stores.timedCommits = stores[sw].timedCommits - 1
          /\ stores'[sw] = o.stores /\ \A s \in Switches \ {sw} : stores'[s] = stores[s]
          /\ plan' = plan /\ apps' = apps
          /\ \A e \in Apps, s \in Switches : e # b \/ s # sw => Untouched(e, s)
          /\ b \in Apps => Replied(b, sw, "Commit approved", 0, o.reply)'
    BY TimedCommitEffects
<1>2. ASSUME NEW c \in Apps \cap TimedApps, NEW s \in Switches PROVE StampKept(c, s)'
  <2>1. StampKept(c, s)
      BY DEF StampInv
  <2>2. CASE s = sw /\ c = b
    <3>1. apps[c].state = "WaitOnCommitExecution"
        BY <1>1, <2>2, ScheduledHolds
    <3>2. Did(c, s)' \/ Failed(c, s)'
        BY <1>1, <2>2 DEF Did, Failed
    <3> QED BY <1>1, <3>1, <3>2 DEF StampKept
  <2>3. CASE s # sw
    <3>1. Untouched(c, s) /\ stores'[s] = stores[s] /\ apps'[c].state = apps[c].state
        BY <1>1, <2>3
    <3> QED BY <2>1, <3>1, StampAside
  <2>4. CASE s = sw /\ c # b
    <3>1. ~ Holds(c, sw)
        BY <1>1, <2>4, ScheduledAlone
    <3>2. apps[c].state \notin Stamping
        BY <3>1, StampHolds
    <3> QED BY <1>1, <2>1, <2>4, <3>2, StampAside
  <2> QED BY <2>2, <2>3, <2>4
<1>3. ASSUME NEW s \in Switches PROVE Due(s)'
  <2>1. CASE s # sw
      BY <1>1, <2>1 DEF StampInv, Due
  <2>2. CASE s = sw
    <3>1. PICK k, l : /\ k = stores[sw].timedCommits /\ k > 0
                      /\ l = stores'[sw].timedCommits /\ l = k - 1
        BY <1>1
    <3>2. k \in {0, 1}
        BY <3>1 DEF CommitInv, Timer
    <3>3. l # 1
        BY <3>1, <3>2
    <3> QED BY <2>2, <3>1, <3>3 DEF Due
  <2> QED BY <2>1, <2>2
<1>4. Apps' = Apps
    BY <1>1 DEF Apps
<1> QED BY <1>2, <1>3, <1>4 DEF StampInv

LEMMA OtherClientStampInv ==
    ASSUME ProtocolInv, CommitInv, StampInv, NEW c \in Sessions \ Apps, NEW sw \in Switches,
           OtherClient(c, sw)
    PROVE  StampInv'
<1>1. Shapes /\ stores[sw] \in Stores
    BY DEF ProtocolInv, Shapes
<1>2. PICK d, e, o : /\ d = stores[sw] /\ o \in OtherOutcomes(d, c) /\ e = o.stores
                     /\ stores' = [stores EXCEPT ![sw] = e]
    BY DEF OtherClient
<1>3. apps' = apps /\ plan' = plan /\ requests' = requests /\ replies' = replies
    BY DEF OtherClient
<1>4. stores'[sw] = e /\ \A s \in Switches \ {sw} : stores'[s] = stores[s]
    BY <1>1, <1>2 DEF Shapes
<1>5. e.commitTimestamp = d.commitTimestamp /\ e.timedCommits = d.timedCommits
  <2>1. TimerKept(d, e) \/ Scheduled(d, c, e)
      BY <1>1, <1>2, OtherKeeps
  <2>2. CASE TimerKept(d, e)
      BY <2>2 DEF TimerKept
  <2>3. CASE Scheduled(d, c, e)
    <3>1. executeAtStartOfPeriod
        BY <1>2, <2>3, Constants DEF CommitInv, Timer, Scheduled
    <3> QED BY <2>3, <3>1 DEF Scheduled
  <2> QED BY <2>1, <2>2, <2>3
<1>6. ASSUME NEW a \in Apps \cap TimedApps, NEW s \in Switches PROVE StampKept(a, s)'
  <2>1. StampKept(a, s) /\ Untouched(a, s)
      BY <1>3 DEF StampInv, Untouched, Has
  <2>2. stores'[s].commitTimestamp = stores[s].commitTimestamp
      BY <1>2, <1>4, <1>5
  <2> QED BY <1>3, <2>1, <2>2, StampAside
<1>7. ASSUME NEW s \in Switches PROVE Due(s)'
  <2>1. Due(s)
      BY DEF StampInv
  <2>2. CASE s # sw
      BY <1>3, <1>4, <2>1, <2>2 DEF Due
  <2>3. CASE s = sw
      BY <1>2, <1>3, <1>4, <1>5, <2>1, <2>3 DEF Due
  <2> QED BY <2>2, <2>3
<1>8. Apps' = Apps
    BY <1>3 DEF Apps
<1> QED BY <1>6, <1>7, <1>8 DEF StampInv

LEMMA TimestampSets ==
    ASSUME NEW d \in Stores, NEW c \in Sessions, NEW o,
           \/ o = Error(d)
           \/ o = Ok([d EXCEPT !.commitTimestamp = c]) /\ verifyLock(d.candidateLock, c)
    PROVE  /\ o.reply = "ok" => o.stores.commitTimestamp = c
           /\ ~ verifyLock(d.candidateLock, c) => o.stores = d
<1>1. PICK e : e = [d EXCEPT !.commitTimestamp = c]
    OBVIOUS
<1>2. e.commitTimestamp = c
    BY <1>1 DEF Stores
<1>3. CASE o = Error(d)
    BY <1>3 DEF Error
<1>4. CASE o = Ok(e) /\ verifyLock(d.candidateLock, c)
    BY <1>2, <1>4 DEF Ok
<1> QED BY <1>1, <1>3, <1>4

LEMMA ServeStampInv ==
    ASSUME ProtocolInv, CommitInv, StampInv, NEW c \in Apps, NEW sw \in Switches, Serve(c, sw)
    PROVE  StampInv'
<1>1. PICK id, n, o :
          /\ id \in Ids /\ n \in Nat
          /\ Asked(c, sw, id, n) /\ Topic(c, sw, id, n)
          /\ o = handleMessage(stores[sw], c, sw, Message(id, n))
          /\ Outcome(stores[sw], c, id, o)
          /\ stores' = [stores EXCEPT ![sw] = o.stores]
          /\ o.reply = "none" => Silent(c, sw)'
          /\ o.reply # "none" => Replied(c, sw, id, n, o.reply)'
          /\ \A d \in Apps, s \in Switches : d # c \/ s # sw => Untouched(d, s)
          /\ apps' = apps /\ plan' = plan
    BY ServeFacts
<1>2. Shapes /\ c \in Sessions
    BY ConversationFacts
<1>3. PICK d, e, r : d = stores[sw] /\ e = o.stores /\ r = o.reply
    OBVIOUS
<1>4. stores'[sw] = e /\ \A s \in Switches \ {sw} : stores'[s] = stores[s]
    BY <1>1, <1>2, <1>3 DEF Shapes
<1>5. /\ e.timedCommits = d.timedCommits
      /\ \/ e.commitOperation = d.commitOperation
         \/ e.commitOperation = c /\ d.commitTimestamp # NoSession
      /\ \/ e.commitTimestamp = d.commitTimestamp
         \/ e.commitTimestamp = c /\ id = "Timestamp"
  <2>1. Handled(d, c, sw, id, n, o)
      BY <1>1, <1>3, HandledKeeps
  <2> QED BY <1>3, <2>1, HandledTimer
<1>6. id = "Timestamp" => /\ r = "ok" => e.commitTimestamp = c
                          /\ ~ verifyLock(d.candidateLock, c) => e = d
  <2> SUFFICES ASSUME id = "Timestamp"
               PROVE  /\ r = "ok" => e.commitTimestamp = c
                      /\ ~ verifyLock(d.candidateLock, c) => e = d
      OBVIOUS
  <2>1. PICK m : m = Message(id, n) /\ m.id = id
      BY <1>1, MessageFacts
  <2>2. \/ o = Error(d)
        \/ o = Ok([d EXCEPT !.commitTimestamp = c]) /\ verifyLock(d.candidateLock, c)
      BY <1>1, <1>3, <2>1 DEF handleMessage, handleEditTimestamp
  <2>3. d \in Stores
      BY <1>2, <1>3 DEF Shapes
  <2> QED BY <1>2, <1>3, <2>2, <2>3, TimestampSets
<1>7. ASSUME NEW a \in Apps \ {c}, Holds(a, sw)
      PROVE  e.commitTimestamp = d.commitTimestamp
  <2>1. ~ verifyLock(d.candidateLock, c)
      BY <1>3, <1>7, NoSessionAssumption DEF Holds, verifyLock, Apps
  <2> QED BY <1>5, <1>6, <2>1
<1>8. /\ Has(c, sw, "Commited")' <=> Has(c, sw, "Commited")
      /\ Has(c, sw, "CommitTimeStamp")' <=> Has(c, sw, "CommitTimeStamp")
      /\ \A i, m, st : ~ Replied(c, sw, i, m, st)
    BY <1>1, Spoken DEF Has, OneThing
<1>9. \A i, m, st : Replied(c, sw, i, m, st)' => i = id /\ st = r
  <2>1. CASE r = "none"
      BY <1>1, <1>3, <2>1, SilentSays
  <2>2. CASE r # "none"
    <3>1. Replied(c, sw, id, n, r)'
        BY <1>1, <1>3, <2>2
    <3>2. OneThing(c, sw)'
        BY Spoken
    <3> QED BY <3>1, <3>2, Zenon DEF OneThing
  <2> QED BY <2>1, <2>2
<1>10. ASSUME NEW a \in Apps \cap TimedApps, NEW s \in Switches, a # c \/ s # sw
       PROVE  StampKept(a, s)'
  <2>1. Untouched(a, s) /\ StampKept(a, s) /\ apps'[a].state = apps[a].state
      BY <1>1, <1>10 DEF StampInv
  <2>2. apps[a].state \in Stamping => stores'[s].commitTimestamp = stores[s].commitTimestamp
    <3>1. CASE s # sw
        BY <1>4, <3>1
    <3>2. CASE s = sw
        BY <1>3, <1>4, <1>7, <1>10, <3>2, StampHolds
    <3> QED BY <3>1, <3>2
  <2> QED BY <2>1, <2>2, StampAside
<1>11. ASSUME c \in TimedApps PROVE StampKept(c, sw)'
  <2>1. StampKept(c, sw)
      BY <1>11 DEF StampInv
  <2>2. ASSUME apps[c].state = "WaitOnTimestampConfirmation", Stamped(c, sw)'
        PROVE  e.commitTimestamp = c
    <3>1. CASE Has(c, sw, "CommitTimeStamp")
      <4>1. d.commitTimestamp = c
          BY <1>3, <2>1, <2>2, <3>1 DEF StampKept, Stamped
      <4> QED BY <1>5, <4>1
    <3>2. CASE Replied(c, sw, "Timestamp", 0, "ok")'
        BY <1>6, <1>9, <3>2
    <3> QED BY <1>8, <2>2, <3>1, <3>2 DEF Stamped
  <2>3. ASSUME apps[c].state = "WaitOnCommitExecution"
        PROVE  e.commitTimestamp = c \/ Did(c, sw)' \/ Failed(c, sw)'
    <3>1. id = "Commit approved" /\ ~ Has(c, sw, "Commited") /\ n = 0
        BY <1>1, <2>3, AsksInState DEF Topic
    <3>2. CASE r = "none"
      <4>1. ~ Did(c, sw) /\ ~ Failed(c, sw)
          BY <1>8, <3>1 DEF Did, Failed
      <4>2. d.commitTimestamp = c
          BY <1>3, <2>1, <2>3, <4>1 DEF StampKept
      <4> QED BY <1>5, <4>2
    <3>3. CASE r # "none"
      <4>1. Replied(c, sw, "Commit approved", 0, r)' /\ (r = "ok" \/ r = "error")
          BY <1>1, <1>3, <3>1, <3>3 DEF Outcome
      <4> QED BY <4>1 DEF Did, Failed
    <3> QED BY <3>2, <3>3
  <2> QED BY <1>1, <1>4, <2>2, <2>3 DEF StampKept
<1>12. Due(sw)'
  <2>1. CASE d.timedCommits # 1
      BY <1>4, <1>5, <2>1 DEF Due
  <2>2. CASE d.timedCommits = 1
    <3>1. e.commitTimestamp = d.commitTimestamp
      <4>1. CASE id # "Timestamp"
          BY <1>5, <4>1
      <4>2. CASE id = "Timestamp"
        <5>1. apps[c].state = "WaitOnTimestampConfirmation"
            BY <1>1, <4>2, AsksInState
        <5>2. PICK b : b = d.commitOperation /\ b # NoSession
            BY <1>3, <2>2 DEF CommitInv, Timer
        <5>3. b \in Sessions
            BY <1>2, <1>3, <5>2 DEF Shapes, Stores
        <5>4. b \in Apps
          <6>1. ASSUME b \in Sessions \ Apps PROVE FALSE
            <7>1. apps[c].state \in Leaving
                BY <1>3, <5>2, <6>1 DEF CommitInv, Timer
            <7> QED BY <5>1, <7>1 DEF Leaving
          <6> QED BY <5>3, <6>1
        <5>5. Holds(b, sw) /\ apps[b].state = "WaitOnCommitExecution"
            BY <1>3, <5>2, <5>4, ScheduledHolds
        <5>6. b # c
            BY <5>1, <5>5
        <5> QED BY <1>7, <5>4, <5>5, <5>6
      <4> QED BY <4>1, <4>2
    <3>2. Due(sw)
        BY DEF StampInv
    <3> QED BY <1>1, <1>3, <1>4, <1>5, <3>1, <3>2 DEF Due
  <2> QED BY <2>1, <2>2
<1>13. ASSUME NEW s \in Switches PROVE Due(s)'
  <2>1. CASE s # sw
    <3>1. stores'[s] = stores[s] /\ Due(s)
        BY <1>4, <2>1 DEF StampInv
    <3> QED BY <1>1, <3>1 DEF Due
  <2> QED BY <1>12, <2>1
<1>14. Apps' = Apps
    BY <1>1 DEF Apps
<1> QED BY <1>10, <1>11, <1>13, <1>14 DEF StampInv

-----------------------------------------------------------------------------
(* A step gives the running store of a switch changes of the app.          *)
Takes(c, sw) == Planned(c, sw) \cap (stores'[sw].running \ stores[sw].running) # {}

(* A commit at a switch with a timestamp changes nothing yet.              *)
LEMMA ScheduledRunsNothing ==
    ASSUME NEW d \in Stores, NEW c \in Sessions, d.commitTimestamp # NoSession,
           NEW o, o = handleCommit(d, c)
    PROVE  o.stores.running = d.running
<1>1. PICK e, timer : /\ timer = IF executeAtStartOfPeriod THEN d.timedCommits
                                 ELSE d.timedCommits + 1
                      /\ e = [d EXCEPT !.commitOperation = c, !.timedCommits = timer]
    OBVIOUS
<1>2. o = Error(d) \/ o = [stores |-> e, reply |-> "none"]
    BY <1>1 DEF handleCommit
<1>3. e.running = d.running
    BY <1>1 DEF Stores
<1> QED BY <1>2, <1>3 DEF Error

LEMMA ServeTakes ==
    ASSUME ProtocolInv, CommitInv, RunningInv, StampInv,
           NEW b \in Apps, NEW t \in Switches, Serve(b, t),
           NEW c \in Apps \cap TimedApps, NEW sw \in Switches
    PROVE  ~ Takes(c, sw)
<1>1. PICK id, n, o :
          /\ id \in Ids /\ n \in Nat
          /\ Asked(b, t, id, n) /\ Topic(b, t, id, n)
          /\ o = handleMessage(stores[t], b, t, Message(id, n))
          /\ stores' = [stores EXCEPT ![t] = o.stores]
    BY ServeFacts
<1>2. Shapes /\ b \in Sessions
    BY ConversationFacts
<1>3. PICK d, e : d = stores[t] /\ e = o.stores /\ d \in Stores
    BY <1>2 DEF Shapes
<1>4. stores'[t] = e /\ \A s \in Switches \ {t} : stores'[s] = stores[s]
    BY <1>1, <1>2, <1>3 DEF Shapes
<1>5. Writes(d, b, Planned(b, t), e) /\ (id # "Commit approved" => e.running = d.running)
  <2>1. HandledWrite(d, b, t, id, o)
      BY <1>1, <1>3, HandledWrites
  <2> QED BY <1>3, <2>1 DEF HandledWrite
<1>6. CASE sw # t
    BY <1>4, <1>6 DEF Takes
<1>7. CASE sw = t /\ c # b
  <2>1. RunningOf(c, sw) /\ Planned(c, sw) \cap Planned(b, t) = {} /\ b \in Sessions \ {c}
      BY <1>2, <1>7 DEF RunningInv, Distinct
  <2>2. Planned(c, sw) \cap e.running \subseteq d.running
      BY <1>3, <1>5, <1>7, <2>1, NotRun
  <2> QED BY <1>3, <1>4, <1>7, <2>2 DEF Takes
<1>8. CASE sw = t /\ c = b /\ id # "Commit approved"
    BY <1>3, <1>4, <1>5, <1>8 DEF Takes
<1>9. CASE sw = t /\ c = b /\ id = "Commit approved"
  <2>1. ~ Silent(c, sw) /\ replies[c][sw] = << >> /\ \A i, m, st : ~ Replied(c, sw, i, m, st)
      BY <1>1, <1>9, Spoken DEF OneThing, Asked
  <2>2. apps[c].state = "WaitOnCommitExecution"
      BY <1>1, <1>9, <2>1 DEF Topic, Silent
  <2>3. ~ Did(c, sw) /\ ~ Failed(c, sw)
      BY <1>1, <1>9, <2>1, <2>2, AsksInState DEF Did, Failed
  <2>4. d.commitTimestamp = c
      BY <1>3, <1>9, <2>2, <2>3 DEF StampInv, StampKept
  <2>5. d.commitTimestamp # NoSession
      BY <2>4, NoSessionAssumption DEF Apps
  <2>6. o = handleCommit(d, b)
    <3>1. PICK m : m = Message(id, n) /\ m.id = id
        BY <1>1, MessageFacts
    <3> QED BY <1>1, <1>3, <1>9, <3>1 DEF handleMessage
  <2>7. e.running = d.running
      BY <1>2, <1>3, <2>5, <2>6, ScheduledRunsNothing
  <2> QED BY <1>3, <1>4, <1>9, <2>7 DEF Takes
<1> QED BY <1>6, <1>7, <1>8, <1>9

LEMMA OtherClientTakes ==
    ASSUME ProtocolInv, RunningInv, NEW b \in Sessions \ Apps, NEW t \in Switches,
           OtherClient(b, t), NEW c \in Apps, NEW sw \in Switches
    PROVE  ~ Takes(c, sw)
<1>1. Shapes /\ stores[t] \in Stores
    BY DEF ProtocolInv, Shapes
<1>2. PICK d, e, o : /\ d = stores[t] /\ o \in OtherOutcomes(d, b) /\ e = o.stores
                     /\ stores' = [stores EXCEPT ![t] = e]
    BY DEF OtherClient
<1>3. Writes(d, b, ChangesOfOthers, e)
    BY <1>1, <1>2, OtherWrites
<1>4. stores'[t] = e /\ \A s \in Switches \ {t} : stores'[s] = stores[s]
    BY <1>1, <1>2 DEF Shapes
<1>5. CASE sw # t
    BY <1>4, <1>5 DEF Takes
<1>6. CASE sw = t
  <2>1. RunningOf(c, sw) /\ Planned(c, sw) \cap ChangesOfOthers = {} /\ b \in Sessions \ {c}
      BY DEF RunningInv, Distinct
  <2>2. Planned(c, sw) \cap e.running \subseteq d.running
      BY <1>2, <1>3, <1>6, <2>1, NotRun
  <2> QED BY <1>2, <1>4, <1>6, <2>2 DEF Takes
<1> QED BY <1>5, <1>6

(* Only the timed commit of the app itself applies its changes, and that   *)
(* executes when its timestamp is due.                                     *)
LEMMA TimedCommitTakes ==
    ASSUME ProtocolInv, CommitInv, RunningInv, StampInv, NEW t \in Switches, TimedCommit(t),
           NEW c \in Apps \cap TimedApps, NEW sw \in Switches, Takes(c, sw)
    PROVE  apps[c].timestamp = 0
<1>1. PICK o, b :
          /\ o = executeTimedCommit(stores[t]) /\ b = stores[t].commitOperation
          /\ stores[t] \in Stores /\ stores[t].timedCommits > 0
          /\ stores'[t] = o.stores /\ \A s \in Switches \ {t} : stores'[s] = stores[s]
    BY TimedCommitEffects
<1>2. PICK d, e : d = stores[t] /\ e = o.stores
    OBVIOUS
<1>3. e.running = d.running \cup Applied(d)
    BY <1>1, <1>2, TimedCommitWrites
<1>4. Applied(d) \subseteq Contents(d)
    BY DEF Applied, Contents
<1>5. sw = t
    BY <1>1 DEF Takes
<1>6. Planned(c, sw) \cap Contents(d) # {}
    BY <1>1, <1>2, <1>3, <1>4, <1>5 DEF Takes
<1>7. Holds(c, sw)
    BY <1>2, <1>5, <1>6 DEF RunningInv, RunningOf
<1>8. c = b
    BY <1>1, <1>5, <1>7, ScheduledAlone
<1>9. /\ apps[c].state = "WaitOnCommitExecution" /\ ~ Has(c, sw, "Commited")
      /\ \A i, m, st : ~ Replied(c, sw, i, m, st)
    BY <1>1, <1>5, <1>8, ScheduledHolds, Spoken DEF OneThing
<1>10. d.commitTimestamp = c
    BY <1>2, <1>5, <1>9 DEF StampInv, StampKept, Did, Failed
<1>11. d.timedCommits = 1
    BY <1>1, <1>2 DEF CommitInv, Timer
<1> QED BY <1>2, <1>10, <1>11 DEF StampInv, Due

LEMMA CycleTakes ==
    ASSUME ProtocolInv, newCycle, NEW c \in Apps, NEW sw \in Switches
    PROVE  ~ Takes(c, sw)
<1>1. stores[sw] \in Stores
    BY DEF ProtocolInv, Shapes
<1>2. stores'[sw] = [stores[sw] EXCEPT !.timedCommits = 1] \/ stores'[sw] = stores[sw]
    BY DEF newCycle
<1>3. stores'[sw].running = stores[sw].running
    BY <1>1, <1>2 DEF Stores
<1> QED BY <1>3 DEF Takes

LEMMA NextTakes ==
    ASSUME ProtocolInv, CommitInv, RunningInv, StampInv, Next,
           NEW c \in Apps \cap TimedApps, NEW sw \in Switches, Takes(c, sw)
    PROVE  apps[c].timestamp = 0
<1>1. ASSUME NEW b \in Apps, AppStep(b) PROVE FALSE
  <2>1. stores' = stores
    <3>1. CASE \E s \in Switches : checkEventHandled(b, s)
        BY <3>1, AbortChangesNothing
    <3>2. CASE ~ \E s \in Switches : checkEventHandled(b, s)
      <4>1. ProtocolInv'
          BY <1>1, <3>2, AppStepInv
      <4>2. TransactionTypeOK'
        <5>1. ProtocolInv' => TransactionTypeOK'
            BY ProtocolMeans, PTL
        <5> QED BY <4>1, <5>1
      <4>3. Onward(b)
          BY <1>1, <3>2, <4>2, AppProgress DEF Progress
      <4> QED BY <4>3 DEF Onward, Elsewhere
    <3> QED BY <3>1, <3>2
  <2> QED BY <2>1 DEF Takes
<1>2. ASSUME NEW b \in Apps, NEW t \in Switches, Serve(b, t) PROVE FALSE
    BY <1>2, ServeTakes
<1>3. ~ newCycle
    BY CycleTakes
<1>4. ASSUME NEW t \in Switches, TimedCommit(t) PROVE apps[c].timestamp = 0
    BY <1>4, TimedCommitTakes
<1>5. ASSUME NEW b \in Sessions \ Apps, NEW t \in Switches, OtherClient(b, t) PROVE FALSE
    BY <1>5, OtherClientTakes
<1> QED BY <1>1, <1>2, <1>3, <1>4, <1>5 DEF Next

LEMMA StampInitInv ==
    ASSUME Init
    PROVE  StampInv
<1>1. ASSUME NEW c \in Apps PROVE apps[c].state = "BeginOfTransaction"
  <2>1. PICK uninitialised \in SUBSET Apps :
            apps = [b \in Sessions |-> [state     |-> "BeginOfTransaction",
                                        flags     |-> [s \in Switches |-> {}],
                                        result    |-> b \in uninitialised,
                                        timestamp |-> -1, released |-> 0]]
      BY DEF Init
  <2> QED BY <2>1 DEF Apps
<1>2. ASSUME NEW sw \in Switches PROVE stores[sw].timedCommits # 1
    BY DEF Init, StoresInit
<1> QED BY <1>1, <1>2 DEF StampInv, StampKept, Due

LEMMA StampNextInv ==
    ASSUME ProtocolInv, CommitInv, RunningInv, StampInv, Next
    PROVE  \/ ProtocolInv' /\ CommitInv' /\ RunningInv' /\ StampInv'
           \/ \E c \in Apps, sw \in Switches : checkEventHandled(c, sw)
<1>1. ASSUME NEW c \in Apps, AppStep(c), ~ \E sw \in Switches : checkEventHandled(c, sw)
      PROVE  StampInv'
  <2>1. ProtocolInv'
      BY <1>1, AppStepInv
  <2>2. TransactionTypeOK'
    <3>1. ProtocolInv' => TransactionTypeOK'
        BY ProtocolMeans, PTL
    <3> QED BY <2>1, <3>1
  <2>3. Progress(c)
      BY <1>1, <2>2, AppProgress
  <2> QED BY <2>1, <2>3, AppStampInv DEF Progress
<1>2. ASSUME NEW c \in Apps, NEW sw \in Switches, Serve(c, sw)
      PROVE  StampInv'
    BY <1>2, ServeStampInv
<1>3. newCycle => StampInv'
    BY CycleStampInv
<1>4. ASSUME NEW sw \in Switches, TimedCommit(sw)
      PROVE  StampInv'
    BY <1>4, TimedCommitStampInv
<1>5. ASSUME NEW c \in Sessions \ Apps, NEW sw \in Switches, OtherClient(c, sw)
      PROVE  StampInv'
    BY <1>5, OtherClientStampInv
<1>6. StampInv' \/ \E c \in Apps, sw \in Switches : checkEventHandled(c, sw)
    BY <1>1, <1>2, <1>3, <1>4, <1>5 DEF Next
<1> QED BY <1>6, RunningNextInv

TimedInv == aborted \/ (ProtocolInv /\ CommitInv /\ RunningInv /\ StampInv)

LEMMA TimedNext ==
    ASSUME TimedInv, [Next]_transactionVars
    PROVE  TimedInv'
<1>1. CASE UNCHANGED transactionVars
  <2>1. Apps' = Apps
      BY <1>1 DEF Apps, transactionVars
  <2>2. ProtocolInv' <=> ProtocolInv
      BY <1>1, <2>1 DEF transactionVars, ProtocolInv, Shapes, Protocol, Conversation, InState,
         InBegin, InLock, InCopy, InCandidateLock, InChange, InTimestamp, InCommit, InDeleteOld,
         InError, InDelete, InUnlock, InEnd, LocksOwned, CommitAwaited, Owns, OwnsCandidate,
         AskedUnless, Silent, Asked, Replied, Talks, Has, HasAll, HasNone
  <2>3. CommitInv' <=> CommitInv
      BY <1>1, <2>1 DEF transactionVars, CommitInv, Undisturbed, TimestampsTimed, Timer,
         CandidatesOwned, Expected, Holds, Staging, Did, Failed, Unfailed, Asked, Replied, Has
  <2>4. RunningInv' <=> RunningInv
      BY <1>1, <2>1 DEF transactionVars, RunningInv, Distinct, RunningOf, Planned, Contents,
         Holds, Did, Failed, Replied, Has
  <2>5. StampInv' <=> StampInv
      BY <1>1, <2>1 DEF transactionVars, StampInv, StampKept, Due, Stamped, Did, Failed,
         Replied, Has
  <2>6. aborted' <=> aborted
      BY <1>1 DEF transactionVars
  <2> QED BY <2>2, <2>3, <2>4, <2>5, <2>6 DEF TimedInv
<1>2. CASE Next
  <2>1. ProtocolInv /\ CommitInv /\ RunningInv /\ StampInv
      BY <1>2, GoesOn DEF TimedInv
  <2>2. CASE \E c \in Apps, sw \in Switches : checkEventHandled(c, sw)
      BY <2>2, AbortChangesNothing DEF TimedInv
  <2>3. CASE ProtocolInv' /\ CommitInv' /\ RunningInv' /\ StampInv'
      BY <2>3 DEF TimedInv
  <2> QED BY <1>2, <2>1, <2>2, <2>3, StampNextInv
<1> QED BY <1>1, <1>2

(* The changes of a time-synchronous transaction enter the running store   *)
(* of a switch in the cycle of their timestamp only (ChangesInTheirCycle): *)
(* the commit of such an app is always scheduled, since its timestamp is   *)
(* kept from its acceptance until the commit, and no other session can     *)
(* apply its candidate.                                                    *)
THEOREM ChangesInTheirCycleHolds == Spec /\ Undisturbed /\ Distinct => ChangesInTheirCycle
<1>1. Init /\ Undisturbed /\ Distinct => TimedInv
  <2> SUFFICES ASSUME Init, Undisturbed, Distinct PROVE TimedInv
      OBVIOUS
  <2>1. ProtocolInv /\ CommitInv /\ RunningInv
      BY InitInv, CommitInitInv, RunningInitInv DEF TransactionInv, Init
  <2> QED BY <2>1, StampInitInv DEF TimedInv
<1>2. TimedInv /\ [Next]_transactionVars => TimedInv'
    BY TimedNext
<1>3. TimedInv /\ [Next]_transactionVars =>
          [\A c \in Apps \cap TimedApps, sw \in Switches :
              Planned(c, sw) \cap (stores'[sw].running \ stores[sw].running) # {}
                => apps[c].timestamp = 0]_transactionVars
  <2> SUFFICES ASSUME TimedInv, Next, NEW c \in Apps \cap TimedApps, NEW sw \in Switches,
                      Planned(c, sw) \cap (stores'[sw].running \ stores[sw].running) # {}
               PROVE  apps[c].timestamp = 0
      OBVIOUS
  <2>1. ProtocolInv /\ CommitInv /\ RunningInv /\ StampInv
      BY GoesOn DEF TimedInv
  <2> QED BY <2>1, NextTakes DEF Takes
<1> QED BY <1>1, <1>2, <1>3, PTL DEF Spec, ChangesInTheirCycle
=============================================================================
