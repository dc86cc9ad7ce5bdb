--------------------------- MODULE NetConfServer ---------------------------
(***************************************************************************)
(* One NETCONF server whose sessions issue operations in any order: the    *)
(* environment NetConfDataStoreManagerBase::handleMessage has to cope      *)
(* with.  Every operation is handled at once, except the timed commit,     *)
(* which a timer event executes (executeAtStartOfPeriod = false).          *)
(***************************************************************************)
EXTENDS NetConfDataStores

CONSTANTS
    ChangesOf,      \* session -> the changes it may request
    UseTimestamps,  \* do sessions set commit timestamps?
    MaxCandidate,   \* bound: changes in the candidate store
    MaxTimedCommits \* bound: timer events under way

ASSUME ServerAssumption ==
    /\ ChangesOf \in [Sessions -> SUBSET Changes]
    /\ UseTimestamps \in BOOLEAN
    /\ MaxCandidate \in Nat /\ MaxTimedCommits \in Nat

VARIABLES
    stores,     \* the datastores
    last,       \* history: the operation that was executed last
    crashed     \* a null pointer was dereferenced

serverVars == << stores, last, crashed >>

Init ==
    /\ stores = StoresInit
    /\ last = [op |-> "none", by |-> NoSession, reply |-> "none"]
    /\ crashed = FALSE

(* The manager executes an operation and replies.                          *)
Execute(c, op, outcome) ==
    /\ ~ crashed /\ UNCHANGED crashed
    /\ stores' = outcome.stores
    /\ last' = [op |-> op, by |-> c, reply |-> outcome.reply]

Lock(c, target) == Execute(c, "lock", handleLock(stores, target, c))

Unlock(c, target) == Execute(c, "unlock", handleUnlock(stores, target, c))

EditConfig(c, target, change) ==
    /\ Len(stores.candidate) < MaxCandidate
    /\ Execute(c, "edit-config", handleEditConfig(stores, target, c, change))

EditTimestamp(c, target, inPast) ==
    /\ UseTimestamps
    /\ Execute(c, "edit-config", handleEditTimestamp(stores, target, c, inPast))

CopyConfig(c, source) == Execute(c, "copy-config", handleCopyConfig(stores, source, c))

DeleteConfig(c, target) == Execute(c, "delete-config", handleDeleteConfig(stores, target, c))

Commit(c) ==
    /\ stores.timedCommits < MaxTimedCommits
    /\ Execute(c, "commit", handleCommit(stores, c))

TimedCommit ==
    /\ stores.timedCommits > 0 /\ stores.commitOperation # NoSession
    /\ Execute(stores.commitOperation, "timed-commit", executeTimedCommit(stores))

(* The event of a second timed commit finds _commitOperation reset by the  *)
(* first: the reply is built from a null pointer.                          *)
TimedCommitTwice ==
    /\ ~ crashed /\ stores.timedCommits > 0 /\ stores.commitOperation = NoSession
    /\ crashed' = TRUE
    /\ stores' = executeTimedCommit(stores).stores
    /\ last' = [op |-> "timed-commit", by |-> NoSession, reply |-> "none"]

Next ==
    \/ \E c \in Sessions :
          \/ \E target \in {"running", "candidate"} :
                \/ Lock(c, target) \/ Unlock(c, target)
                \/ CopyConfig(c, target) \/ DeleteConfig(c, target)
                \/ \E change \in ChangesOf[c] : EditConfig(c, target, change)
                \/ \E inPast \in BOOLEAN : EditTimestamp(c, target, inPast)
          \/ Commit(c)
    \/ TimedCommit \/ TimedCommitTwice

Spec == Init /\ [][Next]_serverVars

-----------------------------------------------------------------------------
(* Types of the datastores (timedCommits stays a number).                  *)
StoresTypeOK == stores \in Stores

(* Whoever locks the candidate store finds and keeps it free of changes of *)
(* other sessions: checkAndLock refuses a modified candidate and           *)
(* edit-config verifies the lock.                                          *)
LockedCandidateOwn ==
    stores.candidateLock # NoSession =>
        \A i \in DOMAIN stores.candidate :
            stores.candidate[i] \in ChangesOf[stores.candidateLock]

(* Whoever holds the lock of the running store is the only one to change   *)
(* it or to give the lock back, timed commits aside: every operation       *)
(* verifies the lock it needs (verifyLock, isLockedBy).                    *)
HolderOnly ==
    [][stores.runningLock # NoSession /\ (stores.running' # stores.running
                                          \/ stores.runningLock' # stores.runningLock)
       => last'.by = stores.runningLock \/ last'.op = "timed-commit"]_serverVars

(* "When the lock is acquired, the server MUST prevent any changes to the  *)
(* locked resource other than those requested by this session"             *)
(* (NetConfOperation.msg:384), for the running store.                      *)
LockedRunningStable ==
    [][stores.runningLock # NoSession /\ (stores.running' # stores.running
                                          \/ stores.runningLock' # stores.runningLock)
       => last'.by = stores.runningLock]_serverVars
=============================================================================
