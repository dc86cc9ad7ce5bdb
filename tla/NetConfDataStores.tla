------------------------ MODULE NetConfDataStores ------------------------
(***************************************************************************)
(* The configuration datastores of one NETCONF server: the running and the *)
(* candidate store and the manager that executes the operations of the     *)
(* sessions on them (NetConfDataStoreManagerBase.cc, NetConfDataStore*.cc).*)
(* An operation is a function of the stores; it yields the stores          *)
(* afterwards and the reply.                                               *)
(*                                                                         *)
(* A change is an opaque value: Valid are those a configurator accepts     *)
(* (validateConfig), Applicable those the running store then really takes  *)
(* (editConfig).  The stores are a record:                                 *)
(*   runningLock, candidateLock  lockHolderSessionId, NoSession for -1     *)
(*   running                     the changes the device has taken          *)
(*   candidate                   _configVector                             *)
(*   commitTimestamp             the session that set _commitTimestamp     *)
(*   commitOperation             the session of _commitOperation           *)
(*   timedCommits                EXECUTE_TIMED_COMMIT events under way     *)
(* A timed commit waits for a timer event, or for the start of the cycle   *)
(* of the timestamp (executeAtStartOfPeriod): then the event comes with    *)
(* the signal of that cycle.                                               *)
(***************************************************************************)
EXTENDS Integers, Sequences

CONSTANTS Sessions, NoSession, Changes, Valid, Applicable, executeAtStartOfPeriod

ASSUME NoSessionAssumption == NoSession \notin Sessions
ASSUME ChangesAssumption == Applicable \subseteq Valid /\ Valid \subseteq Changes
ASSUME PeriodAssumption == executeAtStartOfPeriod \in BOOLEAN

Stores == [runningLock : Sessions \cup {NoSession},
           candidateLock : Sessions \cup {NoSession},
           running : SUBSET Changes,
           candidate : Seq(Changes),
           commitTimestamp : Sessions \cup {NoSession},
           commitOperation : Sessions \cup {NoSession},
           timedCommits : Nat]

StoresInit == [runningLock |-> NoSession, candidateLock |-> NoSession,
               running |-> {}, candidate |-> << >>, commitTimestamp |-> NoSession,
               commitOperation |-> NoSession, timedCommits |-> 0]

Ok(d)    == [stores |-> d, reply |-> "ok"]
Error(d) == [stores |-> d, reply |-> "error"]

(* Mutant: nobody is kept out.                                             *)
verifyLock_Always(lock, c) == TRUE

(* The store is unlocked or locked by this session.                        *)
verifyLock(lock, c) == lock = NoSession \/ lock = c

(* Mutant: a candidate with changes may be locked.                         *)
handleLock_Dirty(d, target, c) ==
    CASE target = "running" ->
            IF d.runningLock = NoSession THEN Ok([d EXCEPT !.runningLock = c]) ELSE Error(d)
      [] target = "candidate" ->
            IF d.candidateLock = NoSession THEN Ok([d EXCEPT !.candidateLock = c]) ELSE Error(d)

(* Mutant: a running store that is locked already may be locked.           *)
handleLock_Again(d, target, c) ==
    CASE target = "running" -> Ok([d EXCEPT !.runningLock = c])
      [] target = "candidate" ->
            IF d.candidateLock = NoSession /\ d.candidate = << >>
            THEN Ok([d EXCEPT !.candidateLock = c]) ELSE Error(d)

(* The candidate store refuses a lock while it holds changes.              *)
handleLock(d, target, c) ==
    CASE target = "running" ->
            IF d.runningLock = NoSession THEN Ok([d EXCEPT !.runningLock = c]) ELSE Error(d)
      [] target = "candidate" ->
            IF d.candidateLock = NoSession /\ d.candidate = << >>
            THEN Ok([d EXCEPT !.candidateLock = c]) ELSE Error(d)

(* Mutants: any session may unlock; the holder is reset to 0, not to -1.   *)
handleUnlock_AnySession(d, target, c) ==
    IF target = "running" THEN Ok([d EXCEPT !.runningLock = NoSession])
    ELSE Ok([d EXCEPT !.candidateLock = NoSession])

handleUnlock_ResetToZero(d, target, c) ==
    IF target = "running" /\ d.runningLock = c THEN Ok([d EXCEPT !.runningLock = 0])
    ELSE Error(d)

(* Only the holder of a lock may give it back.                             *)
handleUnlock(d, target, c) ==
    CASE target = "running" ->
            IF d.runningLock = c THEN Ok([d EXCEPT !.runningLock = NoSession]) ELSE Error(d)
      [] target = "candidate" ->
            IF d.candidateLock = c THEN Ok([d EXCEPT !.candidateLock = NoSession]) ELSE Error(d)

(* The running store takes the change at once, the candidate keeps it.     *)
handleEditConfig(d, target, c, change) ==
    CASE target = "running" ->
            IF verifyLock(d.runningLock, c) /\ change \in Applicable
            THEN Ok([d EXCEPT !.running = @ \cup {change}]) ELSE Error(d)
      [] target = "candidate" ->
            IF verifyLock(d.candidateLock, c) /\ change \in Valid
            THEN Ok([d EXCEPT !.candidate = Append(@, change)]) ELSE Error(d)

(* The edit-config that carries a commit timestamp (inPast: its time has   *)
(* passed on this device).                                                 *)
handleEditTimestamp(d, target, c, inPast) ==
    IF verifyLock(IF target = "running" THEN d.runningLock ELSE d.candidateLock, c) /\ ~ inPast
    THEN Ok([d EXCEPT !.commitTimestamp = c]) ELSE Error(d)

(* Changes are applied one by one up to the first that fails; the          *)
(* candidate store is cleared either way.                                  *)
Applied(d) ==
    {d.candidate[i] : i \in {j \in DOMAIN d.candidate :
                                \A k \in 1 .. j : d.candidate[k] \in Applicable}}

applyTo(d) ==
    LET after == [d EXCEPT !.running = @ \cup Applied(d), !.candidate = << >>] IN
    IF \A i \in DOMAIN d.candidate : d.candidate[i] \in Applicable
    THEN Ok(after) ELSE Error(after)

(* Mutant: only the lock of the candidate is verified.                     *)
handleCopyConfig_RunningUnlocked(d, source, c) ==
    IF ~ verifyLock(d.candidateLock, c) THEN Error(d)
    ELSE IF source = "candidate" THEN applyTo(d)
    ELSE Ok([d EXCEPT !.candidate = << >>])

(* source "candidate" copies to running; source "running" resets the       *)
(* candidate.                                                              *)
handleCopyConfig(d, source, c) ==
    IF ~ (verifyLock(d.runningLock, c) /\ verifyLock(d.candidateLock, c)) THEN Error(d)
    ELSE IF source = "candidate" THEN applyTo(d)
    ELSE Ok([d EXCEPT !.candidate = << >>])

(* Mutant: the lock survives the deleted candidate.                        *)
handleDeleteConfig_KeepsLock(d, target, c) ==
    IF target = "candidate" /\ verifyLock(d.candidateLock, c)
    THEN Ok([d EXCEPT !.candidate = << >>]) ELSE Error(d)

(* Deleting the candidate also takes its lock away; the running store      *)
(* cannot be deleted.                                                      *)
handleDeleteConfig(d, target, c) ==
    IF target = "candidate" /\ verifyLock(d.candidateLock, c)
    THEN Ok([d EXCEPT !.candidate = << >>, !.candidateLock = NoSession])
    ELSE Error(d)

(* Mutant: the timestamp is ignored.                                       *)
handleCommit_AtOnce(d, c) ==
    IF verifyLock(d.runningLock, c) THEN applyTo(d) ELSE Error(d)

(* Only the lock of the running store is verified.  With a timestamp the   *)
(* commit is scheduled and answered later.                                 *)
handleCommit(d, c) ==
    IF ~ verifyLock(d.runningLock, c) THEN Error(d)
    ELSE IF d.commitTimestamp # NoSession
    THEN [stores |-> [d EXCEPT !.commitOperation = c,
                               !.timedCommits = IF executeAtStartOfPeriod THEN @ ELSE @ + 1],
          reply  |-> "none"]
    ELSE applyTo(d)

(* The manager listens to the cycles until a scheduled commit is executed. *)
subscribed(d) == executeAtStartOfPeriod /\ d.commitOperation # NoSession

(* The timed commit executes: no lock is verified again.                   *)
executeTimedCommit(d) ==
    LET done == applyTo(d) IN
    [stores |-> [done.stores EXCEPT !.commitTimestamp = NoSession,
                                    !.commitOperation = NoSession,
                                    !.timedCommits = @ - 1],
     reply  |-> done.reply]
=============================================================================
