------------------------ MODULE NetConfServerProofs ------------------------
(* The datastores of one server under any sessions, any order of their     *)
(* operations and any changes: types, and what a lock protects.            *)
EXTENDS NetConfServer, TLAPS

USE NoSessionAssumption, ChangesAssumption, PeriodAssumption, ServerAssumption

Targets == {"running", "candidate"}

-----------------------------------------------------------------------------
(* Every operation of the manager yields datastores again.                 *)
LEMMA LockTypes ==
    ASSUME NEW d \in Stores, NEW target \in Targets, NEW c \in Sessions
    PROVE  /\ handleLock(d, target, c).stores \in Stores
           /\ handleUnlock(d, target, c).stores \in Stores
BY DEF handleLock, handleUnlock, Ok, Error, Stores, Targets

LEMMA EditTypes ==
    ASSUME NEW d \in Stores, NEW target \in Targets, NEW c \in Sessions
    PROVE  /\ \A change \in Changes : handleEditConfig(d, target, c, change).stores \in Stores
           /\ \A inPast \in BOOLEAN : handleEditTimestamp(d, target, c, inPast).stores \in Stores
<1>1. ASSUME NEW change \in Changes
      PROVE  handleEditConfig(d, target, c, change).stores \in Stores
  <2>1. Append(d.candidate, change) \in Seq(Changes)
      BY DEF Stores
  <2> QED BY <2>1 DEF handleEditConfig, Ok, Error, Stores, Targets
<1>2. ASSUME NEW inPast \in BOOLEAN
      PROVE  handleEditTimestamp(d, target, c, inPast).stores \in Stores
    BY DEF handleEditTimestamp, Ok, Error, Stores
<1> QED BY <1>1, <1>2

(* Applying the candidate adds changes to the running store, empties the   *)
(* candidate and touches neither locks nor commits.                        *)
LEMMA ApplyFacts ==
    ASSUME NEW d \in Stores
    PROVE  /\ applyTo(d).stores \in Stores
           /\ applyTo(d).stores.candidate = << >>
           /\ applyTo(d).stores.timedCommits = d.timedCommits
           /\ applyTo(d).stores.runningLock = d.runningLock
           /\ applyTo(d).stores.candidateLock = d.candidateLock
<1> DEFINE after == [d EXCEPT !.running = @ \cup Applied(d), !.candidate = << >>]
<1>1. Applied(d) \subseteq Changes
    BY DEF Applied, Stores
<1>2. << >> \in Seq(Changes)
    OBVIOUS
<1>3. /\ after \in Stores /\ after.candidate = << >> /\ after.timedCommits = d.timedCommits
      /\ after.runningLock = d.runningLock /\ after.candidateLock = d.candidateLock
    BY <1>1, <1>2 DEF Stores
<1>4. applyTo(d).stores = after
    BY DEF applyTo, Ok, Error
<1> HIDE DEF after
<1> QED BY <1>3, <1>4

LEMMA ClearTypes ==
    ASSUME NEW d \in Stores, NEW target \in Targets, NEW c \in Sessions
    PROVE  /\ handleCopyConfig(d, target, c).stores \in Stores
           /\ handleDeleteConfig(d, target, c).stores \in Stores
<1>1. << >> \in Seq(Changes)
    OBVIOUS
<1>2. handleCopyConfig(d, target, c).stores \in Stores
    BY <1>1, ApplyFacts DEF handleCopyConfig, Ok, Error, Stores
<1>3. handleDeleteConfig(d, target, c).stores \in Stores
    BY <1>1 DEF handleDeleteConfig, Ok, Error, Stores
<1> QED BY <1>2, <1>3

(* The timed commit does the same, and ends the commit it executes.        *)
LEMMA TimedCommitFacts ==
    ASSUME NEW d \in Stores, d.timedCommits > 0
    PROVE  /\ executeTimedCommit(d).stores \in Stores
           /\ executeTimedCommit(d).stores.candidate = << >>
<1> DEFINE applied == applyTo(d).stores
           after == [applied EXCEPT !.commitTimestamp = NoSession, !.commitOperation = NoSession,
                                    !.timedCommits = applied.timedCommits - 1]
<1>1. /\ applied \in Stores /\ applied.candidate = << >>
      /\ applied.timedCommits = d.timedCommits
    BY ApplyFacts
<1>2. applied.timedCommits - 1 \in Nat
    BY <1>1 DEF Stores
<1> HIDE DEF applied
<1>3. executeTimedCommit(d).stores = after
    BY DEF executeTimedCommit, applied
<1>4. after \in Stores /\ after.candidate = << >>
    BY <1>1, <1>2 DEF Stores
<1> QED BY <1>3, <1>4

LEMMA CommitTypes ==
    ASSUME NEW d \in Stores, NEW c \in Sessions
    PROVE  handleCommit(d, c).stores \in Stores
<1>1. CASE d.commitTimestamp # NoSession /\ verifyLock(d.runningLock, c)
  <2>1. \A n \in Nat : [d EXCEPT !.commitOperation = c, !.timedCommits = n] \in Stores
      BY DEF Stores
  <2>2. (IF executeAtStartOfPeriod THEN d.timedCommits ELSE d.timedCommits + 1) \in Nat
      BY DEF Stores
  <2> QED BY <1>1, <2>1, <2>2 DEF handleCommit
<1>2. CASE ~ (d.commitTimestamp # NoSession /\ verifyLock(d.runningLock, c))
    BY <1>2, ApplyFacts DEF handleCommit, Error
<1> QED BY <1>1, <1>2

-----------------------------------------------------------------------------
(* What one step does to the datastores: it executes an operation of a     *)
(* session, or a timed commit, or nothing.                                 *)
Executes(c) ==
    \/ \E target \in Targets :
          \/ Lock(c, target) \/ Unlock(c, target)
          \/ CopyConfig(c, target) \/ DeleteConfig(c, target)
          \/ \E change \in ChangesOf[c] : EditConfig(c, target, change)
          \/ \E inPast \in BOOLEAN : EditTimestamp(c, target, inPast)
    \/ Commit(c)

LEMMA StepCases ==
    Next => (\E c \in Sessions : Executes(c)) \/ TimedCommit \/ TimedCommitTwice
BY DEF Next, Executes, Targets

LEMMA StoresStep == StoresTypeOK /\ [Next]_serverVars => StoresTypeOK'
<1> SUFFICES ASSUME StoresTypeOK, [Next]_serverVars PROVE StoresTypeOK'
    OBVIOUS
<1>1. stores \in Stores
    BY DEF StoresTypeOK
<1>2. ASSUME NEW c \in Sessions, Executes(c) PROVE stores' \in Stores
  <2>1. ASSUME NEW target \in Targets, Lock(c, target) \/ Unlock(c, target)
        PROVE  stores' \in Stores
      BY <1>1, <2>1, LockTypes DEF Lock, Unlock, Execute
  <2>2. ASSUME NEW target \in Targets, CopyConfig(c, target) \/ DeleteConfig(c, target)
        PROVE  stores' \in Stores
      BY <1>1, <2>2, ClearTypes DEF CopyConfig, DeleteConfig, Execute
  <2>3. ASSUME NEW target \in Targets, NEW change \in ChangesOf[c], EditConfig(c, target, change)
        PROVE  stores' \in Stores
      BY <1>1, <2>3, EditTypes DEF EditConfig, Execute
  <2>4. ASSUME NEW target \in Targets, NEW inPast \in BOOLEAN, EditTimestamp(c, target, inPast)
        PROVE  stores' \in Stores
      BY <1>1, <2>4, EditTypes DEF EditTimestamp, Execute
  <2>5. CASE Commit(c)
      BY <1>1, <2>5, CommitTypes DEF Commit, Execute
  <2> QED BY <1>2, <2>1, <2>2, <2>3, <2>4, <2>5 DEF Executes
<1>3. ASSUME TimedCommit \/ TimedCommitTwice PROVE stores' \in Stores
    BY <1>1, <1>3, TimedCommitFacts DEF TimedCommit, TimedCommitTwice, Execute
<1>4. ASSUME UNCHANGED serverVars PROVE stores' \in Stores
    BY <1>1, <1>4 DEF serverVars
<1> QED BY <1>2, <1>3, <1>4, StepCases DEF StoresTypeOK

(* The datastores keep their types whatever the sessions request.          *)
THEOREM StoresTypeCorrect == Spec => []StoresTypeOK
<1>1. Init => StoresTypeOK
  <2>1. << >> \in Seq(Changes)
      OBVIOUS
  <2> QED BY <2>1 DEF Init, StoresInit, StoresTypeOK, Stores
<1> QED BY <1>1, StoresStep, PTL DEF Spec

-----------------------------------------------------------------------------
(* An operation of c leaves the running store and its lock alone while     *)
(* another session holds that lock.                                        *)
LEMMA RunningGuarded ==
    ASSUME StoresTypeOK, NEW c \in Sessions, Executes(c),
           stores.runningLock # NoSession, stores.runningLock # c
    PROVE  stores'.running = stores.running /\ stores'.runningLock = stores.runningLock
<1>1. stores \in Stores /\ ~ verifyLock(stores.runningLock, c)
    BY DEF StoresTypeOK, verifyLock
<1>2. ASSUME NEW target \in Targets, Lock(c, target) \/ Unlock(c, target)
      PROVE  stores'.running = stores.running /\ stores'.runningLock = stores.runningLock
    BY <1>1, <1>2 DEF Lock, Unlock, Execute, handleLock, handleUnlock, Ok, Error, Stores, Targets
<1>3. ASSUME NEW target \in Targets, CopyConfig(c, target) \/ DeleteConfig(c, target)
      PROVE  stores'.running = stores.running /\ stores'.runningLock = stores.runningLock
    BY <1>1, <1>3 DEF CopyConfig, DeleteConfig, Execute, handleCopyConfig, handleDeleteConfig,
                      Ok, Error, Stores
<1>4. ASSUME NEW target \in Targets, NEW change \in ChangesOf[c], EditConfig(c, target, change)
      PROVE  stores'.running = stores.running /\ stores'.runningLock = stores.runningLock
    BY <1>1, <1>4 DEF EditConfig, Execute, handleEditConfig, Ok, Error, Stores, Targets
<1>5. ASSUME NEW target \in Targets, NEW inPast \in BOOLEAN, EditTimestamp(c, target, inPast)
      PROVE  stores'.running = stores.running /\ stores'.runningLock = stores.runningLock
    BY <1>1, <1>5 DEF EditTimestamp, Execute, handleEditTimestamp, Ok, Error, Stores
<1>6. CASE Commit(c)
    BY <1>1, <1>6 DEF Commit, Execute, handleCommit, Error
<1> QED BY <1>2, <1>3, <1>4, <1>5, <1>6 DEF Executes

(* Whatever the operations and their order, nobody but the holder of the   *)
(* lock of the running store changes it or gives its lock back, timed      *)
(* commits aside, which verify no lock when they execute                   *)
(* (executeTimedCommit).                                                   *)
THEOREM HolderOnlyHolds == Spec => HolderOnly
<1> DEFINE Changed == stores.runningLock # NoSession /\ (stores.running' # stores.running
                          \/ stores.runningLock' # stores.runningLock)
           ByHolder == last'.by = stores.runningLock \/ last'.op = "timed-commit"
<1>1. StoresTypeOK /\ [Next]_serverVars => [Changed => ByHolder]_serverVars
  <2> SUFFICES ASSUME StoresTypeOK, Next, Changed PROVE ByHolder
      OBVIOUS
  <2>1. ASSUME NEW c \in Sessions, Executes(c) PROVE ByHolder
    <3>1. last'.by = c
        BY <2>1 DEF Executes, Lock, Unlock, CopyConfig, DeleteConfig, EditConfig, EditTimestamp,
                    Commit, Execute
    <3> QED BY <2>1, <3>1, RunningGuarded
  <2>2. CASE TimedCommit \/ TimedCommitTwice
      BY <2>2 DEF TimedCommit, TimedCommitTwice, Execute
  <2> QED BY <2>1, <2>2, StepCases
<1> QED BY <1>1, StoresTypeCorrect, PTL DEF Spec, HolderOnly

-----------------------------------------------------------------------------
(* A step of c on the candidate store: emptied, kept or given one change   *)
(* of c; a lock that c newly takes finds the candidate empty.              *)
LEMMA CandidateGuarded ==
    ASSUME StoresTypeOK, NEW c \in Sessions, Executes(c), stores'.candidateLock # NoSession
    PROVE  \/ stores'.candidate = << >>
           \/ /\ stores'.candidate = stores.candidate
              /\ stores'.candidateLock = stores.candidateLock
           \/ /\ \E change \in ChangesOf[c] :
                    stores'.candidate = Append(stores.candidate, change)
              /\ stores'.candidateLock = stores.candidateLock /\ stores.candidateLock = c
<1> DEFINE Kept == stores'.candidate = stores.candidate
                   /\ stores'.candidateLock = stores.candidateLock
<1>1. stores \in Stores
    BY DEF StoresTypeOK
<1>2. ASSUME NEW target \in Targets, Lock(c, target) \/ Unlock(c, target)
      PROVE  stores'.candidate = << >> \/ Kept
    BY <1>1, <1>2 DEF Lock, Unlock, Execute, handleLock, handleUnlock, Ok, Error, Stores, Targets
<1>3. ASSUME NEW target \in Targets, CopyConfig(c, target) \/ DeleteConfig(c, target)
      PROVE  stores'.candidate = << >> \/ Kept
  <2>1. applyTo(stores).stores.candidate = << >>
      BY <1>1, ApplyFacts DEF Stores
  <2> QED BY <1>1, <1>3, <2>1 DEF CopyConfig, DeleteConfig, Execute, handleCopyConfig,
                                  handleDeleteConfig, Ok, Error, Stores
<1>4. ASSUME NEW target \in Targets, NEW change \in ChangesOf[c], EditConfig(c, target, change)
      PROVE  Kept \/ (/\ stores'.candidate = Append(stores.candidate, change)
                      /\ stores'.candidateLock = stores.candidateLock
                      /\ stores.candidateLock = c)
    BY <1>1, <1>4 DEF EditConfig, Execute, handleEditConfig, verifyLock, Ok, Error, Stores, Targets
<1>5. ASSUME NEW target \in Targets, NEW inPast \in BOOLEAN, EditTimestamp(c, target, inPast)
      PROVE  Kept
    BY <1>1, <1>5 DEF EditTimestamp, Execute, handleEditTimestamp, Ok, Error, Stores
<1>6. CASE Commit(c)
  <2>1. applyTo(stores).stores.candidate = << >>
      BY <1>1, ApplyFacts DEF Stores
  <2>2. CASE stores.commitTimestamp # NoSession
      BY <1>1, <1>6, <2>2 DEF Commit, Execute, handleCommit, Error, Stores
  <2>3. CASE stores.commitTimestamp = NoSession
      BY <1>1, <1>6, <2>1, <2>3 DEF Commit, Execute, handleCommit, Error
  <2> QED BY <2>2, <2>3
<1> QED BY <1>2, <1>3, <1>4, <1>5, <1>6 DEF Executes

(* The session that locked the candidate store finds only changes of its   *)
(* own in it: a modified candidate cannot be locked (checkAndLock) and     *)
(* edit-config verifies the lock.                                          *)
THEOREM LockedCandidateOwnHolds == Spec => []LockedCandidateOwn
<1>1. Init => LockedCandidateOwn
    BY DEF Init, StoresInit, LockedCandidateOwn
<1>2. StoresTypeOK /\ LockedCandidateOwn /\ [Next]_serverVars => LockedCandidateOwn'
  <2> SUFFICES ASSUME StoresTypeOK, LockedCandidateOwn, [Next]_serverVars,
                      stores'.candidateLock # NoSession,
                      NEW i \in DOMAIN stores'.candidate
               PROVE  stores'.candidate[i] \in ChangesOf[stores'.candidateLock]
      BY DEF LockedCandidateOwn
  <2>1. stores \in Stores /\ DOMAIN << >> = {}
      BY DEF StoresTypeOK
  <2>2. ASSUME NEW c \in Sessions, Executes(c)
        PROVE  stores'.candidate[i] \in ChangesOf[stores'.candidateLock]
    <3>1. CASE stores'.candidate = stores.candidate
               /\ stores'.candidateLock = stores.candidateLock
        BY <3>1 DEF LockedCandidateOwn
    <3>2. ASSUME NEW change \in ChangesOf[c],
                 stores'.candidate = Append(stores.candidate, change),
                 stores'.candidateLock = stores.candidateLock, stores.candidateLock = c
          PROVE  stores'.candidate[i] \in ChangesOf[stores'.candidateLock]
      <4>1. stores.candidate \in Seq(Changes) /\ change \in Changes
          BY <2>1 DEF Stores
      <4>2. \/ i \in DOMAIN stores.candidate /\ stores'.candidate[i] = stores.candidate[i]
            \/ stores'.candidate[i] = change
          BY <3>2, <4>1
      <4> QED BY <3>2, <4>2 DEF LockedCandidateOwn
    <3> QED BY <2>1, <2>2, <3>1, <3>2, CandidateGuarded
  <2>3. CASE TimedCommit \/ TimedCommitTwice
      BY <2>1, <2>3, TimedCommitFacts DEF TimedCommit, TimedCommitTwice, Execute
  <2>4. CASE UNCHANGED serverVars
      BY <2>4 DEF serverVars, LockedCandidateOwn
  <2> QED BY <2>2, <2>3, <2>4, StepCases
<1> QED BY <1>1, <1>2, StoresTypeCorrect, PTL DEF Spec
=============================================================================
