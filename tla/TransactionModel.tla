-------------------------- MODULE TransactionModel --------------------------
(***************************************************************************)
(* Controllers change the configuration of several switches in one         *)
(* transaction (TransactionApp.cc): lock every running store in the order  *)
(* of the addresses, reset and lock the candidates, edit them, commit,     *)
(* delete the candidates, unlock; undo on the first refusal.  A            *)
(* TimeSynchronousTransactionApp has the switches accept a common cycle    *)
(* before it releases the commit, so that all change at the same time.     *)
(*                                                                         *)
(* One step is the handling of one message by one module.  Each app has a  *)
(* NETCONF session (a TCP connection) to every switch; a session is named  *)
(* after its app, a request or reply by its message id, n being the number *)
(* of the change (CHANGE_MSG_ID + n - 1).  A cRuntimeError ends the whole  *)
(* simulation: aborted.  The session of a PlainClient, that is of a        *)
(* NetConfApplicationBase, issues the operations its XML schedules,        *)
(* whatever they are.                                                      *)
(*                                                                         *)
(* The cycles of controller and switches are synchronised.  A cycle number *)
(* is kept as its distance from the current cycle, so that time does not   *)
(* have to be bounded: apps[c].timestamp counts down and stays at -1, in   *)
(* the past.                                                               *)
(***************************************************************************)
EXTENDS NetConfDataStores, FiniteSets

CONSTANTS
    TimedApps,      \* sessions whose app is a TimeSynchronousTransactionApp
    Lead,           \* cycles from the determination of a timestamp to its cycle
    ReleaseLead,    \* cycles the app reckons a commit to be under way
    CommitDelay,    \* cycles a commit of a TimedApp is at most under way
    N,              \* switches, numbered in the order of their addresses
    Plans,          \* session -> the configurations its XML may hold, per switch
    PlainClient,    \* instead of a configuration: not a TransactionApp
    ChangesOfOthers,\* what a plain client may request
    MaxCandidate    \* bound: changes in a candidate store a plain client may leave

Switches == 1 .. N

ASSUME TransactionAssumption ==
    /\ TimedApps \subseteq Sessions
    /\ TimedApps # {} => executeAtStartOfPeriod
    /\ Lead \in Nat \ {0} /\ ReleaseLead \in Nat \ {0} /\ CommitDelay \in Nat
    /\ N \in Nat \ {0}
    /\ \A c \in Sessions : Plans[c] \subseteq [Switches -> Seq(Changes) \ {<< >>}] \cup {PlainClient}
    /\ ChangesOfOthers \subseteq Changes
    /\ MaxCandidate \in Nat

VARIABLES
    stores,     \* stores[sw]: the datastores of the switch
    plan,       \* plan[c][sw]: configurations of the connection
    apps,       \* apps[c]: transactionState, switchStates, result and _timestamp of
                \* the app, and the cycles since it released its commit
    requests,   \* requests[c][sw]: RPCs on their way to the switch
    replies,    \* replies[c][sw]: RPC replies on their way to the app
    aborted     \* a cRuntimeError was thrown

transactionVars == << stores, plan, apps, requests, replies, aborted >>

(* The sessions of TransactionApps.                                        *)
Apps == {c \in Sessions : plan[c] # PlainClient}

-----------------------------------------------------------------------------
(* What the app knows of a switch: the flags of SwitchState_s that are set.*)
Staged == {"LockedRunning", "Candidate", "LockedCandidate", "Configuration"}
Flags == Staged \cup {"CommitTimeStamp", "Commited", "Error"}

(* hasCommitTimeStamp counts for one state only.                           *)
isInState(flags, state) ==
    LET F == flags \ {"CommitTimeStamp"} IN
    CASE state = "Available"           -> F = {}
      [] state = "Locked"              -> "LockedRunning" \in F /\ "Error" \notin F
      [] state = "WithCandidate"       -> F = {"LockedRunning", "Candidate"}
      [] state = "WithLockedCandidate" -> F = {"LockedRunning", "Candidate", "LockedCandidate"}
      [] state = "WithChangedCandidateConfiguration"
                                       -> F = Staged
      [] state = "WithTimestamp"       -> F = Staged /\ "CommitTimeStamp" \in flags
      [] state = "Commited"            -> F = Staged \cup {"Commited"}
      [] state = "WithoutCandidate"    -> "LockedRunning" \in F /\ F \cap {"Candidate", "Commited"} = {}
      [] state = "WithoutOldConfig"    -> {"LockedRunning", "Commited"} \subseteq F /\ "Candidate" \notin F
      [] state = "Unlocked"            -> "LockedRunning" \notin F
      [] state = "Error"               -> "Error" \in F

getSwitchesInState(a, state) == {sw \in Switches : isInState(a.flags[sw], state)}

Message(id, n) == [id |-> id, n |-> n]

(* Which messages a step sends to which switches.                          *)
ToNone == [sw \in Switches |-> << >>]
ToAll(id) == [sw \in Switches |-> << Message(id, 0) >>]
To(sw, id, n) == [ToNone EXCEPT ![sw] = << Message(id, n) >>]
FirstChanges_AllAtOnce == [sw \in Switches |-> << Message("Change", 1), Message("Change", 2) >>]
FirstChanges == [sw \in Switches |-> << Message("Change", 1) >>]

(* determineLockOrder and the entry action of WaitOnLockResponse: the next *)
(* switch to lock is the first available one in the order of the map.      *)
connectionToLock(a) ==
    LET available == getSwitchesInState(a, "Available") IN
    CHOOSE sw \in available : \A other \in available : sw <= other

(* The entry actions of the states; reaching the end always reports        *)
(* success.                                                                *)
transitionToState(a, next) ==
    [a EXCEPT !.state = next,
              !.result = CASE next = "ErrorState" -> FALSE
                           [] next = "EndOfTransaction" -> TRUE
                           [] OTHER -> @]

-----------------------------------------------------------------------------
Init ==
    /\ stores = [sw \in Switches |-> StoresInit]
    /\ plan \in {p \in [Sessions -> UNION {Plans[c] : c \in Sessions}] :
                   /\ \A c \in Sessions : p[c] \in Plans[c]
                   /\ \E c \in Sessions : p[c] # PlainClient}
    /\ \E uninitialised \in SUBSET Apps :
          apps = [c \in Sessions |-> [state     |-> "BeginOfTransaction",
                                      flags     |-> [sw \in Switches |-> {}],
                                      result    |-> c \in uninitialised,
                                      timestamp |-> -1, released |-> 0]]
    /\ requests = [c \in Sessions |-> ToNone]
    /\ replies = [c \in Sessions |-> ToNone]
    /\ aborted = FALSE

(* The app goes on as a, in the state next, and sends out.                 *)
Enter(c, a, next, out) ==
    /\ apps' = [apps EXCEPT ![c] = transitionToState(a, next)]
    /\ requests' = [requests EXCEPT ![c] = [sw \in Switches |-> @[sw] \o out[sw]]]
    /\ UNCHANGED << stores, plan, aborted >>

(* The app in a state receives the reply id, ok or error, of a switch.     *)
Receive(c, sw, state, id, status) ==
    /\ ~ aborted
    /\ apps[c].state = state
    /\ replies[c][sw] # << >>
    /\ Head(replies[c][sw]).id = id /\ Head(replies[c][sw]).status = status
    /\ replies' = [replies EXCEPT ![c][sw] = Tail(@)]

WithFlags(c, sw, set, reset) == [apps[c] EXCEPT !.flags[sw] = (@ \cup set) \ reset]

(* START_TRANSACTION.                                                      *)
handleMessageInBeginOfTransaction(c) ==
    /\ ~ aborted /\ c \in Apps /\ apps[c].state = "BeginOfTransaction"
    /\ Enter(c, apps[c], "WaitOnLockResponse", To(connectionToLock(apps[c]), "Lock", 0))
    /\ UNCHANGED replies

handleMessageInWaitOnLockResponse(c, sw) ==
    \/ /\ Receive(c, sw, "WaitOnLockResponse", "Lock", "ok")
       /\ LET a == WithFlags(c, sw, {"LockedRunning"}, {}) IN
          IF getSwitchesInState(a, "Locked") = Switches
          THEN Enter(c, a, "WaitOnCandidateConfirmation", ToAll("Copy Config"))
          ELSE Enter(c, a, "WaitOnLockResponse", To(connectionToLock(a), "Lock", 0))
    \/ /\ Receive(c, sw, "WaitOnLockResponse", "Lock", "error")
       /\ LET a == [WithFlags(c, sw, {}, {"LockedRunning"}) EXCEPT !.result = FALSE] IN
          IF getSwitchesInState(apps[c], "Locked") = {}
          THEN Enter(c, a, "EndOfTransaction", ToNone)
          ELSE Enter(c, a, "WaitOnUnlock", To(sw, "Unlock", 0))

(* ok and error of a copy-config; the switches that answered are the ones  *)
(* with a candidate and the failed ones.                                   *)
handleMessageInWaitOnCandidateConfirmation(c, sw) ==
    \E status \in {"ok", "error"} :
        /\ Receive(c, sw, "WaitOnCandidateConfirmation", "Copy Config", status)
        /\ LET a      == WithFlags(c, sw, {IF status = "ok" THEN "Candidate" ELSE "Error"}, {})
               with   == getSwitchesInState(a, "WithCandidate")
               failed == getSwitchesInState(a, "Error")
           IN CASE with = Switches   -> Enter(c, a, "WaitOnCandidateLockResponse", ToAll("Lock Candidate"))
                [] failed = Switches -> Enter(c, a, "WaitOnUnlock", ToAll("Unlock"))
                [] with # Switches /\ failed # Switches /\ with \cup failed = Switches
                                     -> Enter(c, a, "ErrorState", ToNone)
                [] OTHER             -> Enter(c, a, "WaitOnCandidateConfirmation", ToNone)

handleMessageInWaitOnCandidateLockResponse(c, sw) ==
    /\ Receive(c, sw, "WaitOnCandidateLockResponse", "Lock Candidate", "ok")
    /\ LET a == WithFlags(c, sw, {"LockedCandidate"}, {}) IN
       IF getSwitchesInState(a, "WithLockedCandidate") = Switches
       THEN Enter(c, a, "WaitOnChangeConfirmation", FirstChanges)
       ELSE Enter(c, a, "WaitOnCandidateLockResponse", ToNone)

(* A cycle far enough ahead for timestamp, confirmation and commit.        *)
determineTimestamp(a) == [a EXCEPT !.timestamp = Lead]

(* All switches have taken all changes: a TimeSynchronousTransactionApp    *)
(* sends the timestamp, a TransactionApp commits.                          *)
AllChanged(c, a) ==
    IF c \in TimedApps
    THEN Enter(c, determineTimestamp(a), "WaitOnTimestampConfirmation", ToAll("Timestamp"))
    ELSE Enter(c, a, "WaitOnCommitExecution", ToAll("Commit approved"))

(* Mutant: a refused change counts as done.                                *)
handleMessageInWaitOnChangeConfirmation_ErrorIgnored(c, sw) ==
    LET n == Head(replies[c][sw]).n
        done == WithFlags(c, sw, {"Configuration"}, {})
    IN \E status \in {"ok", "error"} :
          /\ Receive(c, sw, "WaitOnChangeConfirmation", "Change", status)
          /\ IF n < Len(plan[c][sw])
             THEN Enter(c, apps[c], "WaitOnChangeConfirmation", To(sw, "Change", n + 1))
             ELSE IF getSwitchesInState(done, "WithChangedCandidateConfiguration") = Switches
             THEN AllChanged(c, done)
             ELSE Enter(c, done, "WaitOnChangeConfirmation", ToNone)

(* After a failure elsewhere no further change is sent.                    *)
handleMessageInWaitOnChangeConfirmation(c, sw) ==
    LET n == Head(replies[c][sw]).n
        failed == getSwitchesInState(apps[c], "Error")
        Answered(a) == getSwitchesInState(a, "Error")
                         \cup getSwitchesInState(a, "WithChangedCandidateConfiguration")
        UndoIfAllAnswered(a) ==
            Enter(c, a, IF Answered(a) = Switches THEN "ErrorState" ELSE "WaitOnChangeConfirmation", ToNone)
        done == WithFlags(c, sw, {"Configuration"}, {})
    IN \/ /\ Receive(c, sw, "WaitOnChangeConfirmation", "Change", "ok")
          /\ CASE failed # {} -> UndoIfAllAnswered(done)
               [] failed = {} /\ n < Len(plan[c][sw])
                    -> Enter(c, apps[c], "WaitOnChangeConfirmation", To(sw, "Change", n + 1))
               [] failed = {} /\ n >= Len(plan[c][sw])
                    -> IF Answered(done) = Switches
                       THEN AllChanged(c, done)
                       ELSE Enter(c, done, "WaitOnChangeConfirmation", ToNone)
       \/ /\ Receive(c, sw, "WaitOnChangeConfirmation", "Change", "error")
          /\ UndoIfAllAnswered(WithFlags(c, sw, {"Error"}, {}))

(* Mutant: the commit is released when it may just miss its cycle.         *)
checkCommitrelease_NotStrict(a) == a.timestamp >= ReleaseLead

checkCommitrelease(a) == a.timestamp > ReleaseLead

(* ok and error (the cycle has passed) of a timestamp.                     *)
handleMessageInWaitOnTimestampConfirmation(c, sw) ==
    \E status \in {"ok", "error"} :
        /\ Receive(c, sw, "WaitOnTimestampConfirmation", "Timestamp", status)
        /\ LET a == WithFlags(c, sw, {IF status = "ok" THEN "CommitTimeStamp" ELSE "Error"}, {})
               accepted == getSwitchesInState(a, "WithTimestamp")
               failed   == getSwitchesInState(a, "Error")
           IN CASE accepted = Switches /\ checkCommitrelease(a)
                     -> Enter(c, a, "WaitOnCommitExecution", ToAll("Commit approved"))
                [] accepted \cup failed = Switches /\ ~ (accepted = Switches /\ checkCommitrelease(a))
                     -> Enter(c, a, "ErrorState", ToNone)
                [] OTHER -> Enter(c, a, "WaitOnTimestampConfirmation", ToNone)

handleMessageInWaitOnCommitExecution(c, sw) ==
    /\ Receive(c, sw, "WaitOnCommitExecution", "Commit approved", "ok")
    /\ LET a == WithFlags(c, sw, {"Commited"}, {}) IN
       IF getSwitchesInState(a, "Commited") = Switches
       THEN Enter(c, a, "WaitOnDeleteOldConfiguration", ToAll("Delete Old Config"))
       ELSE Enter(c, a, "WaitOnCommitExecution", ToNone)

handleMessageInWaitOnDeleteOldConfiguration(c, sw) ==
    /\ Receive(c, sw, "WaitOnDeleteOldConfiguration", "Delete Old Config", "ok")
    /\ LET a == WithFlags(c, sw, {}, {"Candidate", "LockedCandidate"}) IN
       IF getSwitchesInState(a, "WithoutOldConfig") = Switches
       THEN Enter(c, a, "WaitOnUnlock", ToAll("Unlock"))
       ELSE Enter(c, a, "WaitOnDeleteOldConfiguration", ToNone)

(* Mutant: the switch that failed is left out of the deletion.             *)
handleMessageInErrorState_SkipsFailed(c) ==
    /\ ~ aborted /\ apps[c].state = "ErrorState"
    /\ Enter(c, [apps[c] EXCEPT !.result = FALSE], "WaitOnDeleteCandidate",
             [sw \in Switches |-> IF "Candidate" \in apps[c].flags[sw] /\ "Error" \notin apps[c].flags[sw]
                                  THEN << Message("Delete Candidate Config", 0) >> ELSE << >>])
    /\ UNCHANGED replies

(* LAMBDA_EVENT in ErrorState.                                             *)
handleMessageInErrorState(c) ==
    /\ ~ aborted /\ apps[c].state = "ErrorState"
    /\ Enter(c, [apps[c] EXCEPT !.result = FALSE], "WaitOnDeleteCandidate",
             [sw \in Switches |-> IF "Candidate" \in apps[c].flags[sw]
                                  THEN << Message("Delete Candidate Config", 0) >> ELSE << >>])
    /\ UNCHANGED replies

handleMessageInWaitOnDeleteCandidate(c, sw) ==
    /\ Receive(c, sw, "WaitOnDeleteCandidate", "Delete Candidate Config", "ok")
    /\ LET a == WithFlags(c, sw, {}, {"Candidate", "LockedCandidate"}) IN
       IF getSwitchesInState(a, "WithoutCandidate") = Switches
       THEN Enter(c, a, "WaitOnUnlock", ToAll("Unlock"))
       ELSE Enter(c, a, "WaitOnDeleteCandidate", ToNone)

handleMessageInWaitOnUnlock(c, sw) ==
    /\ Receive(c, sw, "WaitOnUnlock", "Unlock", "ok")
    /\ LET a == WithFlags(c, sw, {}, {"LockedRunning"}) IN
       IF getSwitchesInState(a, "Unlocked") = Switches
       THEN Enter(c, a, "EndOfTransaction", ToNone)
       ELSE Enter(c, a, "WaitOnUnlock", ToNone)

(* checkEventHandled: these states handle no error reply; the cRuntimeError*)
(* ends the simulation.                                                    *)
checkEventHandled(c, sw) ==
    /\ \E state \in {"WaitOnCandidateLockResponse", "WaitOnCommitExecution",
                     "WaitOnDeleteOldConfiguration", "WaitOnDeleteCandidate", "WaitOnUnlock"} :
          Receive(c, sw, state, Head(replies[c][sw]).id, "error")
    /\ aborted' = TRUE
    /\ UNCHANGED << stores, plan, apps, requests >>

-----------------------------------------------------------------------------
(* The server hands the RPC to the datastore manager and sends the reply.  *)
handleMessage(d, c, sw, m) ==
    CASE m.id = "Lock"            -> handleLock(d, "running", c)
      [] m.id = "Copy Config"     -> handleCopyConfig(d, "running", c)
      [] m.id = "Lock Candidate"  -> handleLock(d, "candidate", c)
      [] m.id = "Change"          -> handleEditConfig(d, "candidate", c, plan[c][sw][m.n])
      [] m.id = "Timestamp"       -> handleEditTimestamp(d, "candidate", c, apps[c].timestamp <= 0)
      [] m.id = "Commit approved" -> handleCommit(d, c)
      [] m.id \in {"Delete Old Config", "Delete Candidate Config"}
                                  -> handleDeleteConfig(d, "candidate", c)
      [] m.id = "Unlock"          -> handleUnlock(d, "running", c)

Serve(c, sw) ==
    /\ ~ aborted /\ requests[c][sw] # << >>
    /\ LET m == Head(requests[c][sw])
           outcome == handleMessage(stores[sw], c, sw, m)
       IN /\ stores' = [stores EXCEPT ![sw] = outcome.stores]
          /\ replies' = [replies EXCEPT ![c][sw] =
                            IF outcome.reply = "none" THEN @
                            ELSE Append(@, [id |-> m.id, n |-> m.n, status |-> outcome.reply])]
          /\ aborted' = (outcome.reply = "none" /\ subscribed(stores[sw]))
    /\ requests' = [requests EXCEPT ![c][sw] = Tail(@)]
    /\ UNCHANGED << plan, apps >>

(* The cycles until the one a switch has scheduled its commit for.         *)
CyclesToCommit(sw) == apps[stores[sw].commitTimestamp].timestamp

CommitUnderWay(c) ==
    \E sw \in Switches : requests[c][sw] # << >> /\ Head(requests[c][sw]).id = "Commit approved"

(* A new cycle begins everywhere, and the managers that wait for it hear   *)
(* of it: the commit executes now, or its cycle was missed.                *)
newCycle ==
    /\ ~ aborted
    /\ \A sw \in Switches : stores[sw].timedCommits = 0
    /\ \A c \in TimedApps : CommitUnderWay(c) => apps[c].released < CommitDelay
    /\ apps' = [c \in Sessions |-> [apps[c] EXCEPT
                    !.timestamp = IF @ = -1 THEN -1 ELSE @ - 1,
                    !.released = IF c \in TimedApps /\ CommitUnderWay(c) THEN @ + 1 ELSE @]]
    /\ stores' = [sw \in Switches |->
                     IF subscribed(stores[sw]) /\ CyclesToCommit(sw) = 1
                     THEN [stores[sw] EXCEPT !.timedCommits = 1] ELSE stores[sw]]
    /\ aborted' = (\E sw \in Switches : subscribed(stores[sw]) /\ CyclesToCommit(sw) < 1)
    /\ UNCHANGED << plan, requests, replies >>

(* EXECUTE_TIMED_COMMIT: the reply goes to the session that committed.     *)
TimedCommit(sw) ==
    /\ ~ aborted /\ stores[sw].timedCommits > 0
    /\ LET outcome == executeTimedCommit(stores[sw]) IN
       /\ stores' = [stores EXCEPT ![sw] = outcome.stores]
       /\ replies' = [replies EXCEPT ![stores[sw].commitOperation][sw] =
                         Append(@, [id |-> "Commit approved", n |-> 0, status |-> outcome.reply])]
    /\ UNCHANGED << plan, apps, requests, aborted >>

(* What any other client's operation may make of the stores.               *)
OtherOutcomes(d, c) ==
    {handleLock(d, target, c) : target \in {"running", "candidate"}}
      \cup {handleUnlock(d, target, c) : target \in {"running", "candidate"}}
      \cup {handleCopyConfig(d, source, c) : source \in {"running", "candidate"}}
      \cup {handleDeleteConfig(d, "candidate", c), handleCommit(d, c)}
      \cup {handleEditConfig(d, target, c, change) :
               target \in {"running", "candidate"}, change \in ChangesOfOthers}

OtherClient(c, sw) ==
    /\ ~ aborted
    /\ \E outcome \in OtherOutcomes(stores[sw], c) :
          /\ Len(outcome.stores.candidate) <= MaxCandidate
          /\ stores' = [stores EXCEPT ![sw] = outcome.stores]
    /\ UNCHANGED << plan, apps, requests, replies, aborted >>

AppStep(c) ==
    \/ handleMessageInBeginOfTransaction(c)
    \/ handleMessageInErrorState(c)
    \/ \E sw \in Switches :
          \/ handleMessageInWaitOnLockResponse(c, sw)
          \/ handleMessageInWaitOnCandidateConfirmation(c, sw)
          \/ handleMessageInWaitOnCandidateLockResponse(c, sw)
          \/ handleMessageInWaitOnChangeConfirmation(c, sw)
          \/ handleMessageInWaitOnTimestampConfirmation(c, sw)
          \/ handleMessageInWaitOnCommitExecution(c, sw)
          \/ handleMessageInWaitOnDeleteOldConfiguration(c, sw)
          \/ handleMessageInWaitOnDeleteCandidate(c, sw)
          \/ handleMessageInWaitOnUnlock(c, sw)
          \/ checkEventHandled(c, sw)

Next ==
    \/ \E c \in Apps : AppStep(c) \/ \E sw \in Switches : Serve(c, sw)
    \/ newCycle
    \/ \E sw \in Switches : TimedCommit(sw)
    \/ \E c \in Sessions \ Apps, sw \in Switches : OtherClient(c, sw)

Spec == Init /\ [][Next]_transactionVars

(* Every scheduled event is executed and TCP delivers: nothing a module    *)
(* can handle waits forever.                                               *)
FairSpec ==
    /\ Spec
    /\ \A c \in Sessions : WF_transactionVars(AppStep(c))
    /\ \A c \in Sessions, sw \in Switches : WF_transactionVars(Serve(c, sw))
    /\ WF_transactionVars(newCycle)
    /\ \A sw \in Switches : WF_transactionVars(TimedCommit(sw))

-----------------------------------------------------------------------------
Planned(c, sw) == {plan[c][sw][i] : i \in DOMAIN plan[c][sw]}

(* Types of the transaction apps and of the stores of all switches.        *)
TransactionTypeOK ==
    /\ \A sw \in Switches : stores[sw] \in Stores
    /\ \A c \in Apps :
          /\ apps[c].flags \in [Switches -> SUBSET Flags] /\ apps[c].result \in BOOLEAN
          /\ apps[c].timestamp \in -1 .. Lead /\ apps[c].released \in 0 .. CommitDelay
          /\ \A sw \in Switches : Len(requests[c][sw]) + Len(replies[c][sw]) <= 1

(* A finished transaction changed all switches as planned or none of them, *)
(* whatever fails and whatever other sessions do in between (the purpose   *)
(* of the lock, change, confirmation and unlock phases of TransactionApp). *)
AllOrNothing ==
    \A c \in Apps : apps[c].state = "EndOfTransaction" =>
        \/ \A sw \in Switches : Planned(c, sw) \subseteq stores[sw].running
        \/ \A sw \in Switches : Planned(c, sw) \cap stores[sw].running = {}

(* What a switch commits for a transaction are exactly the changes of that *)
(* transaction: no change of another session slips into a candidate        *)
(* between its reset, its lock and the commit.                             *)
CommitsOwnChangesOnly ==
    \A c \in Apps, sw \in Switches :
        apps[c].state = "WaitOnCommitExecution" /\ requests[c][sw] # << >> =>
            stores[sw].candidate = plan[c][sw]

(* The app's hasLockedRunning is the truth about the switch until it asks  *)
(* to unlock it: no other session edits the running store meanwhile.       *)
LockBelief ==
    \A c \in Apps, sw \in Switches :
        "LockedRunning" \in apps[c].flags[sw] /\ apps[c].state # "WaitOnUnlock" =>
            stores[sw].runningLock = c

(* A finished transaction leaves nothing behind: neither a lock nor a      *)
(* change in a candidate.                                                  *)
NothingLeftBehind ==
    \A c \in Apps, sw \in Switches : apps[c].state = "EndOfTransaction" =>
        /\ stores[sw].runningLock # c /\ stores[sw].candidateLock # c
        /\ \A i \in DOMAIN stores[sw].candidate : stores[sw].candidate[i] \notin Planned(c, sw)

(* The changes of a time-synchronous transaction take effect in the cycle  *)
(* of its timestamp on every switch, never on one switch earlier than on   *)
(* another, whatever the network delays.                                   *)
ChangesInTheirCycle ==
    [][\A c \in Apps \cap TimedApps, sw \in Switches :
          Planned(c, sw) \cap (stores'[sw].running \ stores[sw].running) # {}
            => apps[c].timestamp = 0]_transactionVars

(* What checkCommitrelease is for: a commit that was released can still be *)
(* scheduled for its cycle at every switch, if commits are under way no    *)
(* longer than the app reckons (CommitDelay <= ReleaseLead).               *)
CommitsReachTheirCycle ==
    \A c \in Apps \cap TimedApps, sw \in Switches :
        apps[c].state = "WaitOnCommitExecution" /\ requests[c][sw] # << >> => apps[c].timestamp > 0

(* Every transaction ends, committed or undone, unless a cRuntimeError     *)
(* stops the simulation: no reply leaves an app waiting for one that never *)
(* comes, and controllers that lock in the same order never wait for each  *)
(* other.                                                                  *)
TransactionsEnd ==
    \A c \in Sessions : <>(c \in Apps => apps[c].state = "EndOfTransaction" \/ aborted)

(* A transaction that gives up after a refused lock asks every switch it   *)
(* has locked to unlock: the transition tests (TransactionModelTest.cc:424)*)
(* expect the UNLOCK reply of the switch locked before the refusal.        *)
AbortUnlocksAll ==
    \A c \in Apps, sw \in Switches :
        apps[c].state = "WaitOnUnlock" /\ stores[sw].runningLock = c =>
            requests[c][sw] # << >>
=============================================================================
