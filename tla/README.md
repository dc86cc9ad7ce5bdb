# TLA+ models of SDN-controlled TSN reconfiguration

The repository simulates time-sensitive networks whose paths are configured, and
reconfigured while streams run, by an SDN controller (OMNeT++; `src/DynTssdn`).
It rests on four code bases: `SDN4CoRE` (the project's own controller
applications, edge switches and NETCONF), `OpenFlow` (controller, agent and flow
table it derives from), `CoRE4INET` (TSN switches and traffic sources) and
`inet` (TCP, Ethernet, scheduler). Five protocols in it have to be right under
concurrency and failure, and all are modelled here:

* **versioned path reconfiguration** over OpenFlow: install the rules of a new
  path under a new version, wait for the ACK of every switch, then let the
  ingress switch tag the stream with that version;
* **network-wide transactions** over NETCONF: lock, stage, commit and unlock the
  configuration of several switches, or undo everything, at once or in one agreed
  cycle of the network;
* **connection set-up**: agents and controller find each other, and the controller
  learns which connection leads to which switch of the topology;
* **stream reservation** (AVB): talkers and listeners find each other through
  OpenFlow switches, which reserve bandwidth hop by hop, and entries age;
* **time-aware transmission** (IEEE 802.1Qbv): the gates of a port follow a control
  list that is replaced while frames flow.

Paths below are relative to `src/DynTssdn/SDN4CoRE/src/sdn4core/` unless they
begin with another code base.

## 1. The system

### Path reconfiguration

| Component | State | Operations | Hard behaviour | What makes it correct |
|---|---|---|---|---|
| `ConfigurationEngine` (`controllerApps/commonApps`) | next version number, per stream the pending and current version, per version the switches that owe an ACK and the ingress switch, the last assigned paths | `configureDataPlane`, `receiveSignal` (ACK), `activateMatchVersion` | ACKs of several versions interleave; a stream moved before its version is active; an uninitialised stream id | a version is activated when and only when its whole path is deployed; each version belongs to one stream; versions take effect in order |
| `RequestHandlerControllerApp`, `OPCE2` (`controllerApps`) | demands, calls of the optimiser | `receiveSignal` (TalkerAdvertise), `requestPathforTalker`, `sendListenerReadyToTalker` | the talker is told to start without waiting for the rules | an accepted stream gets a path that takes effect |
| Optimiser `controllerApps/opt/opce2/GD.py` | none | answer with a path per demand | may or may not move assigned streams | its answers are candidate paths |
| Edge switch: `Edge_OF_RelayUnit`, `Edge_OF_SwitchAgent` (`switch/ieee8021qbv`) | seen streams, active version per stream | forward TalkerAdvertise, execute FlowMod and ACK it, ListenerReady, ActivationMessage, tag and relay frames | FlowMods, activations and data frames race | a tagged frame finds the rules of its path |
| `OF_FlowTable`, `OF100_FlowTableEntry` (`OpenFlow`) | vector of entries | lookup, add, delete, age | full table, ageing, order given by the allocator | an acknowledged rule is in the table |
| `OF_Controller` (`OpenFlow`) | FIFO of messages, list of switches | queue, serve, dispatch PACKET_IN; handshake and topology | connection order | messages of a switch are handled in order |
| Talker `IEEE8021QSRPLikeTrafficSourceApp` (`CoRE4INET`) | advertised / streaming | advertise once, stream after ListenerReady | never repeats its request | |

A talker's request travels talker -> ingress switch -> controller. The controller
handles it in one event: the optimiser is asked, every switch of every new or
changed path gets a FlowMod, and the talker's switch gets a ListenerReady. Every
switch answers each FlowMod with an ACK. At the last ACK of a version the engine
sends an ActivationMessage to the ingress switch, which from then on tags the
frames of the stream. All messages between a switch and the controller use one TCP
connection per switch: FIFO in each direction, unordered across switches.

### NETCONF

| Component | State | Operations | Hard behaviour | What makes it correct |
|---|---|---|---|---|
| `NetConfDataStoreManagerBase` and the running and candidate stores (`netconf/datastores`) | lock holder of each store, staged changes, device configuration, commit timestamp, scheduled commit | lock, unlock, edit-config, copy-config, delete-config, commit, timed commit | sessions interleave; a commit that fails midway; a commit executed long after its lock was checked | a locked running store is changed by its holder or a timed commit only; a locked candidate contains its holder's changes only |
| `NetConfServerBase`, TCP server and client | sessions | dispatch RPCs, route replies | | FIFO per session |
| `TransactionApp` (`netconf/applications/transactionModel`) | state of its machine, flags per switch, result | one handler per state, one message at a time | several controllers at once, refusals at every phase | all switches changed or none; nothing left locked |
| `NetConfApplicationBase` | its XML schedule | any operation at any time | interferes with transactions | |
| `TimeSynchronousTransactionApp` | as `TransactionApp`, plus commit timestamps | a timestamp phase before the commit | a timestamp passed or left behind | switches commit in the same cycle |

### Connection set-up

| Component | State | Operations | Hard behaviour | What makes it correct |
|---|---|---|---|---|
| `OF_SwitchAgent` (`switch/base/engine`) | socket, `hasController` | `connect` (Hello, once), answers to Hello and FeaturesRequest | a Hello before the controller has booted is lost for good | agent and controller know each other |
| `OF_Controller` (`OpenFlow`) | `switchesList`, `SwitchInfoTable`, message queue | `registerConnection`, `handleFeaturesReply`, `extractTopology` | the topology is read at 1.5 s, whoever is connected then | rules and ACKs concern the same switch |

### Stream reservation (AVB)

| Component | State | Operations | Hard behaviour | What makes it correct |
|---|---|---|---|---|
| `SRPTable` (`CoRE4INET`) | talker and listeners of every stream, `nextAging` | update, remove, query, age | ageing happens inside queries, its signals in the middle of an update | an entry is there for who needs it and as long |
| `SRProtocol` (`CoRE4INET`) | | handle advertises and listener frames, check bandwidth, emit frames for table changes | readies of several streams race for a port | no port is overbooked |
| `AVBTrafficSourceApp`, `AVBTrafficSinkApp` (`CoRE4INET`) | streaming; update timer | advertise and stream; subscribe and renew | renewals, late talkers | streams only with a listener |
| `AVB_OF_RelayUnit`, `AVB_OF_SwitchAgent` (`switch/avb`) | flow table | SRP frames go to the controller first and come back | two copies of every table, one at the controller | |
| `AVBLearningControllerApp`, `SRPTableManagement` (`controllerApps`) | SRP table per switch | install the forwarding of a listener, hand the frame back | rule and frame are two messages | the rule is there before the reservation |

### Time-aware transmission (IEEE 802.1Qbv)

| Component | State | Operations | Hard behaviour | What makes it correct |
|---|---|---|---|---|
| `IEEE8021QbvGateControlList` (`CoRE4INET`) | rows, current row, `configNo` | `setGateControlList`, timer event | events of replaced lists still come; a list may be set anywhere in the period | gates stand as the newest list says |
| `IEEE8021QbvGate`, `IEEE8021QbvQueue` | open or closed; frames | open, close, enqueue, dequeue | | they tell the selection |
| `IEEE8021QbvSelection` | `framesRequested` | `requestPacket`, self-message, `selectFrame` | gate, frame and request come at one instant in any order | highest open class first, no frame forgotten |
| `Timer`, `Period` | ticks, registered events | `registerEvent` | wrap of the period | events come at their tick |
| `NetConfDataConfiguratorIEEE8021Qbv` (`netconf`) | | `editConfig` replaces the list of a port | at any time | |

Components without a model, with the reason, are listed in section 8 and in
`PROJECT.json`.

## 2. Modules

| Module | Models | State |
|---|---|---|
| `OF_FlowTable` | lookup, insertion, limit and ageing of one flow table, as operators on a sequence of entries | none |
| `ConfigurationEngine` | the engine as a record `ce` with the C++ member names, and its operations as operators on that record | `ce` |
| `EdgeSwitch` (extends both) | the handlers of relay unit and agent as actions on the switch's own state | `entries`, `SeenStreams`, `StreamActiveMatchVersionMap` |
| `PathReconfig` (extends `EdgeSwitch`) | the composition: talkers, channels, controller event handlers, data frames; invariants and liveness | `toSwitch`, `toController`, `streaming`, `frame`, history `route` |
| `StreamUpdate` | the abstract promise: planned paths take effect one after the other, none lost | `active`, `planned` |
| `PathReconfigRefinement` | the refinement mapping from `PathReconfig` to `StreamUpdate` | |
| `MCPathReconfig` | the triangle and the diamond for TLC | |
| `PathReconfigProofs` (extends `PathReconfigRefinement`) | type correctness; deployment before release; uniqueness, ownership and order of versions; frames of settled streams; the steps of the refinement | |
| `NetConfDataStores` | the operations of one server as functions from stores to stores and a reply | |
| `NetConfServer`, `MCNetConfServer` | one server whose sessions issue any operation in any order; timed commits | `stores`, `last`, `crashed` |
| `NetConfServerProofs` | what a lock protects | |
| `TransactionModel`, `MCTransactionModel` | `TransactionApp`s, `TimeSynchronousTransactionApp`s and plain clients against one datastore manager per switch; the cycles of the network | `stores`, `plan`, `apps`, `requests`, `replies`, `aborted` |
| `TransactionProofs`, `CommitProofs` (extends it) | the conversation of an app with a switch and who holds which lock; what is committed, when, and what is left at the end | |
| `ConnectionSetup` | agents, controller and topology from power-up to the first configured paths | `agents`, `toController`, `toSwitch`, `msgList`, `switchesList`, `SwitchInfoTable`, ... |
| `ConnectionSetupProofs` | the list of connections and the indices of its entries | |
| `StreamReservation`, `MCStreamReservation` (extends `OF_FlowTable`) | hosts, AVB switches and their controller on a tree | `srpTable`, `srpManager`, `entries`, `wire`, `packetIns`, `toSwitch`, `isStreaming` |
| `StreamReservationProofs` | tables and frames on a tree, reserved bandwidth, rules before readies | |
| `SRPTableAging` | the ageing of one SRP table and the source that listens to it, with the proofs about both | `age`, `nextAging`, `isStreaming`, `returned` |
| `TimeAwareShaper`, `MCTimeAwareShaper` | one port: control list, timer events, gates, queues, selection, MAC | `ticks`, `gateControlList`, `events`, `transmissionGate`, `queue`, `framesRequested`, ... |
| `TimeAwareShaperProofs` | gates, guarded windows, wake-ups | |

Correspondence worth knowing when reading code and model side by side:

* **One handler, one action.** OMNeT++ runs an event to its end. `AcceptTalker`
  is therefore the whole chain `receiveSignal` -> `requestPathforTalker` ->
  `configureDataPlane` -> `sendListenerReadyToTalker`. `ReceiveAck` includes
  `activateMatchVersion` when the last ACK arrived. `Serve` includes the
  datastore operation and the reply.
* **`operator[]` of `std::map`.** A missing path of `AckWaitingPaths` and an empty
  one are the same value `{}`: a surplus ACK finds an empty path and goes
  through activation again, as in the code.
* **Uninitialised `streamID`** (`ConfigurationEngine.cc:378`): when no stream waits
  for the completed version the message carries *any* id (`ActivatedStreams`).
* **Uninitialised timeouts** of a FlowMod (`ConfigurationEngine.cc:214`): rules expire
  at any moment when `RulesExpire` is set.
* **The sort of the flow table** sorts pointers, so a new entry ends up at *any*
  position, and a lookup returns the first match. The tag is stored in an entry
  and is not compared.
* **A blank row.** `extractHostSwMacTable` (`OF_Controller.cc:497`) reads the row of every host's
  switch with `operator[]` and so adds the ones that are missing, with socket and index not
  initialised (`Blank`). A row that is missing makes `at()` throw, a blank one sends over an
  invalid pointer (`AbstractControllerApp.cc:93`); both end the simulation when a path needs them.
* **`uint16_t` version**: arithmetic is modulo `VersionSpace`.
* **A cRuntimeError** in `TransactionApp` ends the simulation: `aborted` stops
  every action. So do the exceptions of `ConnectionSetup` and `StreamReservation`.
* **A session** of `TransactionModel` is a `TransactionApp` when its plan is a
  configuration, and a plain client when it is `PlainClient`. A plain client uses a
  slot of its own and issues any operation at any time.
* **Cycles.** `apps[c].timestamp` counts the cycles down to the one in which the
  app wants its commit (`newCycle`), which is what the comparison of the servers'
  and the app's timestamps with the current cycle comes to. `Lead` is the distance
  `determineTimestamp` computes, `ReleaseLead` the estimate `checkCommitrelease`
  compares with, `CommitDelay` the true delay of a commit.
* **Two readings of a list.** `setGateControlList` sets the parameter, which makes
  OMNeT++ call `handleParameterChange`, and then calls it itself: `Load` advances
  `configNo` by two and registers two events, one of them stale from the start.
* **One self-message.** Several messages the selection posts itself at one instant
  are one in the model: a look that finds nothing changes nothing.
* **`bool result`** of `TransactionApp` starts uninitialised: either value in `Init`.
* Flow, in-port and out-port of a rule are abstract: `FlowOf[s]` for the addresses
  and VLAN id, neighbours for ports. A configuration change is an opaque value,
  `Valid` when a configurator accepts it and `Applicable` when the device takes it.

`route` and `last` are history variables. They record which stream and path a
version was used for, and the last operation; no guard reads them.

## 3. Runs that pass

| Run | Instance | Properties | What it shows |
|---|---|---|---|
| `update` | triangle, two opposite streams, the first may be moved once its version is active; fairness | `TypeOK`, `DeployInv`, `ReleasedOnlyWhenDeployed`, `AssignmentsTakeEffect`, `ImplementsStreamUpdate` | no version is released before its path is deployed, every assignment takes effect, and the whole protocol implements `StreamUpdate` |
| `moves` | triangle, two streams of one ingress switch, an optimiser that moves any assigned stream at any time, rules that expire at any moment | `VersionsUnique` | even then no two streams hold the same version in `StreamFlowVersionTable` |
| `frames` | diamond, two streams of one ingress switch, moved once settled, the frames of one followed | `VersionsBelongToTheirStream`, `ActivationInOrder`, `NoMissOnceActive` | no activation retags a wrong stream, also not one with the uninitialised id; no stream falls back to an older version; once a version is complete its frames find a rule at every switch although the lookup ignores the tag |
| `stores` | two sessions, four changes, timed commits | `StoresTypeOK`, `LockedCandidateOwn`, `HolderOnly` | a locked running store and its lock change only by its holder or by a timed commit; a locked candidate contains its holder's changes only, though another session's commit may empty it (section 4) |
| `transactions` | a time-synchronous app and, at the choice of each behaviour, a second app or a plain client; two switches, changes that are refused, cycles that pass; fairness | `TransactionTypeOK`, `AllOrNothing`, `CommitsOwnChangesOnly`, `LockBelief`, `NothingLeftBehind`, `CommitsReachTheirCycle`, `ChangesInTheirCycle`, `TransactionsEnd` | transactions are atomic also against an uncooperative client, commit exactly their plan, leave nothing behind, change all switches in the agreed cycle, and each of them ends or stops the simulation |
| `connection` | three switches, two talkers, start-up steps in any order; fairness | `ConnectionTypeOK`, `HasControllerIsRegistered`, `AcksAreAttributed`, `FailsOnlyInSetup`, `HandshakesComplete`, `RequestsAnswered` | who takes part in a path can be reached and its ACKs count, handshakes complete, a start-up that knew every switch does not fail later, and requests are answered if the Hellos came in the order of the topology |
| `reservation` | two AVB switches with two hosts each, two streams, three sinks, one renewal; the link has bandwidth for one stream; fairness | `ReservationTypeOK`, `NeverThrows`, `WithinCapacity`, `RuleBeforeReady`, `ReservationsReachASink`, `SubscriptionsClimb` | on a tree no exception, no overbooked port, no reservation without a rule or without a sink, and every subscription climbs to its source or to a full port |
| `aging` | three listeners, one of which goes on renewing; fairness | `AgingTypeOK`, `StreamsForListeners`, `AgedEntriesGo` | the source streams exactly as long as there is a listener, and an aged entry goes as long as one other is renewed |
| `gates` | two classes, a period of 8 ticks, four lists replaced at any tick, one with a guarded window that opens at tick 0; fairness | `ShaperTypeOK`, `GatesFollowList`, `GuardedWindowIsFree`, `NoEligibleFrameWaits`, `EveryClassIsServed` | the gates follow the newest list through stale events and mid-period changes; a guarded window is free of other frames; no wake-up is lost; a class with a window of its own is served |

`CHECK_DEADLOCK FALSE` is set where the system may really stop: all
streams configured, all transactions ended, or a simulation ended by an error.
That nothing stops *too early* is what the liveness properties say. `aging` and `gates`
never stop, and there deadlock is checked.

## 4. Runs that find a disagreement

| Run | Line and what it says | What the code does |
|---|---|---|
| `tag_ignored` | `openflow_100.h:179` "match version tag", and the engine fills the field without wildcarding it | `OF100_FlowTableEntry::tryMatch` (`:112`) never compares it. In the trace a stream is moved: its ingress switch has put the rule of the new version in front of the old one, but still tags with the old version since the ACKs are out; the frame takes the new rule, towards a switch that has no rule of that version yet |
| `timed_commit` | `NetConfOperation.msg:384`: "the server MUST prevent any changes to the locked resource other than those requested by this session" | the timer event commits without verifying a lock (`NetConfDataStoreManagerBase.cc:179`) |
| `refused_lock` | `TransactionModelTest.cc:424` expects the UNLOCK reply of switch "0", the one locked before switch "1" refused | `TransactionApp.cc:416` sends UNLOCK to the switch that refused; its error reply ends the simulation, the locks stay |

Of the same kind, each seen by TLC when the property is put in the cfg that is named:

* `ReleasedOnlyWhenDeployed` in `update.cfg` with `MaxFlowEntries = 1`: a full table drops
  the rule (`OF_FlowTable.cc:122`), the agent acknowledges all the same, against
  `ConfigurationEngine.cc:53`: an ACK "guaranteed that the related match versioned rule
  is deployed".
* `RulesLoadedAtIngress` in `frames.cfg`: `Edge_OF_RelayUnit.cc:79` says that at the
  ingress point "rules are already loaded", but the ListenerReady is sent in the same
  event as the FlowMods (`ConfigurationEngine.cc:148`).
* `TablePairsSwitches` in `connection.cfg`, also with `ExampleSchedule = TRUE`: switches
  that say hello in another order than the topology lists them are filed under each
  other's index (`OF_Controller.cc:456`, the "switchID-moduleID table" of `:451`).
* `NoEntryTwice` in `reservation.cfg`: `addEntry` compares pointers (`OF_FlowTable.cc:128`),
  so a renewed subscription adds its rule again, against `OF_FlowTable.h:54` "Inserts the
  entry into the table if it does not already exist".
* `NoAgedEntryReturned` in `aging.cfg`: `removeAgedEntries` switches ageing off
  (`SRPTable.cc:807`); entries that survive it are returned however old they get, until
  the next update, against `SRPTable.ned:44` "Entries not updated are deleted after
  agingTime".

Read in the code while modelling, and part of the model, without a run of their own:

* A stream that the optimiser moves while its version is pending gets rules under a
  number that is neither reserved nor advanced (`ConfigurationEngine.cc:344`); the
  next stream of the same answer gets the number too and overwrites the path that
  waits for ACKs. With `Moves = "any"`, `ReleasedOnlyWhenDeployed` and
  `AssignmentsTakeEffect` fail. The `assignment_constraint` of `GD.py` pins assigned
  streams, so this needs another optimiser; `configureDataPlane` (95-117) is written
  for one. Hence the assumption `Moves # "any"` of the theorem.
* With `isTaggingEnabled = false` the edge agent ignores FLOW_MOD
  (`Edge_OF_SwitchAgent.cc:77`), while the engine's comment (`ConfigurationEngine.cc:30`)
  describes flows that are sent with tag 0.
* `handleCommit` verifies the running lock only (`NetConfDataStoreManagerBase.cc:506`;
  `NetConfOperation.msg:503` also names the candidate's).
* `applyTo` stops at the first change that fails and undoes nothing
  (`NetConfCandidateDataStore.cc:73`; `NetConfOperation.msg:497`).
* Entering `EndOfTransaction` sets `result = true` on every path
  (`TransactionApp.cc:283`; `TransactionApp.h:258`).
* The event of a second timed commit finds `_commitOperation` null
  (`NetConfDataStoreManagerBase.cc:192`); the model stops there (`TimedCommitTwice`).
* A time-synchronous transaction that is undone after its timestamps were accepted
  leaves them at the servers (`TimeSynchronousTransactionApp.cc:359`); the next plain
  commit becomes a timed one for a cycle that has passed. If the cycle is still to come,
  the commit is scheduled, and as the timed commit verifies no lock it can execute in the
  middle of the next transaction: with a third session (a `TransactionApp` next to the
  time-synchronous one and a plain client) TLC finds `CommitsOwnChangesOnly` violated by a
  behaviour of 50 steps. This is the encounter that `Undisturbed` of `CommitProofs`
  (section 7) excludes; two sessions, as in run `transactions`, cannot have it.

Read in the code, outside the models:

* `NetConfServerTCP::closeSession` tests the wrong way round
  (`netconf/server/tcp/NetConfServerTCP.cc:61`), and the reply to close-session
  is built after its session is gone (`NetConfServerBase.cc:196`). The locks
  of a closed session stay, against `NetConfOperation.msg:352`. No client
  sends close-session.
* `IEEE8021QbvGateControlList::handleParameterChange`: an empty list clears the rows but
  leaves the pending event valid, which then reads a row that is gone (`:84`, `:100`).
  The NETCONF configurator validates the port only, so a malformed list passes
  validation and throws in the commit (`:72`).
* `CreditBasedShaper::idleSlope` goes on earning credit while the gate of its class is
  closed (`:127`), and schedules no timer when the class has lost its bandwidth
  with a negative credit.

## 5. Bounds

* **Topology.** The triangle has a direct and an indirect path, so a move changes the
  set of switches; the diamond has two disjoint transit switches, so versions
  are acknowledged by different switches. Opposite streams (1 and 2) have different
  ingress switches and share transit switches; streams 1 and 3 share an ingress
  switch, where a wrong stream id would matter.
* **Streams.** Two. The hazards are between a version and the next one of the same
  stream, and between two streams that share switches or an answer.
* **One answer moves at most one other stream** (`AcceptAndMove`). The loop of
  `configureDataPlane` treats moved streams one after the other with the same
  code, so one moved and one new stream meet every interaction of two iterations.
* **`VersionSpace`, `LastVersion`.** A talker advertises once, so two streams and
  one move per answer use at most three numbers: `LastVersion` never cuts a
  behaviour short in the runs, it only keeps the counter from wrapping.
* **`Observed`.** Frames are followed for one stream and one frame at a time: the
  properties about frames relate one frame to the tables it meets.
* **`MaxFlowEntries`** 0 is the unlimited table of the default configuration.
* **`MaxCandidate = 2`** in `NetConfServer`: the first change can be applied and the
  second can fail. In `TransactionModel` it bounds only what the plain client leaves
  behind (`MaxCandidate = 1`; a controller resets the candidate and a server refuses
  to lock one with changes, so one foreign change stands for several).
* **`MaxTimedCommits`** 2 reaches the second event after the first has reset
  `_commitOperation`; 1 suffices for `timed_commit`.
* **`Lead = 2`, `ReleaseLead = CommitDelay = 1`** in `transactions`: a timestamp is
  reached in time, just missed or missed while it travels, and a commit is under
  way while a cycle begins. The property needs `CommitDelay <= ReleaseLead`.
* **Two switches and two sessions** make every phase distinguish "all", "some" and
  "none", and lock conflicts happen at the first and at the second switch. Plans
  of one and two changes, with the refused one first, last or absent, make a
  failure meet a switch that is done, busy or failed. In these runs every accepted
  change can be applied; partial application is left to `NetConfServer`.
* **Three switches, two talkers** in `connection`: one switch may be early, one in time
  and one late, and a path has a switch that is not its end. Each talker asks once. Two
  switches have hosts (`HostSwitches`), so a row that is missing is added for one and stays missing
  for another.
* **`reservation`** is the tree of the example `avb_of_test`: frames of both directions and
  both streams meet on the link between the switches. Bandwidths 2 and 1 with 2 to
  reserve make either stream exclude the other or not, depending on who is first. `MaxRenewals
  = 1`: a renewal meets the first subscription anywhere on its way. Ageing is off, as
  is the default; `SRPTableAging` has it.
* **`aging`**: `agingTime = 3` and three listeners let a pass find entries that are aged,
  about to age and fresh. Ages end at `agingTime`.
* **`gates`**: a period of 8 ticks holds a guard, two windows longer than a frame and
  a list that starts late; frames take one or two ticks. `MaxConfigs = 5` lets the
  list be replaced twice, so events of three lists are pending together. `sinceLoad`, the
  ticks a list has been in force, starts at 0 for the first list as for any other. `MaxQueued = 2`: a
  frame waits behind another one of its class. The classes are 1 and 2; priority
  only compares.

## 6. Fairness

`FairSpec` of `PathReconfig` is weak fairness of `Controller(sw)` and `Agent(sw)` for
every switch: both keep a FIFO of received messages and serve its head after a finite
`serviceTime` (`OF_Controller::handleMessage`, `OF_SwitchAgent::handleMessage`), and
TCP delivers. Each of the two is one fairness condition because a queue has one
head. `Controller(sw)` includes a rejection: fairness never makes the optimiser
accept. Talkers, frames and expiry have no fairness: a talker need not start.

`FairSpec` of `TransactionModel` is weak fairness of each app's step and of each
server's step per session: each is a scheduled event of the simulator or a TCP
delivery. The plain client has none. `newCycle` and `TimedCommit` are fair because
the simulated clock goes on and events scheduled for a cycle are executed.

`ConnectionSetup`: weak fairness of the controller's boot and topology extraction, the
agents' connect and the talkers' request, each a scheduled event, and of the
handling of every queue. `StreamReservation`: of the start of every source and
the handling of every frame and message; a sink subscribes
when an advertise reaches its host, and its renewals have no fairness. `SRPTableAging`: time
passes, and the `Keepers` go on renewing (an update is always enabled, so weak fairness
would do). `TimeAwareShaper`: what is scheduled for the present moment is executed and
time passes; arrivals and NETCONF have no fairness.

## 7. Proofs

Checked by TLAPS for every value of the constants that the named assumptions of the
modules admit: any number of streams, switches, sessions, listeners, classes and rows, any
topology (any tree, for stream reservation), plan, list and period. A further hypothesis is
named with the theorem.

| Theorem | States | Hypothesis |
|---|---|---|
| `PathReconfigProofs.TypeCorrect` | `[]TypeOK` | |
| `PathReconfigProofs.DeployInvHolds`, `Deployed` | `[]DeployInv`, `[]ReleasedOnlyWhenDeployed` | `Undisturbed` (of this module): unlimited tables, no expiry, tagging on, no move of a stream with a pending version |
| `PathReconfigProofs.VersionsUniqueHolds` | `[]VersionsUnique` | none: any optimiser, full tables, expiry |
| `PathReconfigProofs.VersionsBelongHolds`, `ActivationInOrderHolds` | `[]VersionsBelongToTheirStream`, `ActivationInOrder` | `Orderly`: tagging on, no move of a stream with a pending version |
| `PathReconfigProofs.NoMissOnceActiveHolds` | `[]NoMissOnceActive` | `Undisturbed`, `FlowsDistinct`: each stream has addresses of its own |
| `PathReconfigProofs.ImplementsInOrder` | `Promise!InOrderSpec`: the safety part of `ImplementsStreamUpdate` | `Orderly` |
| `NetConfServerProofs.StoresTypeCorrect`, `HolderOnlyHolds`, `LockedCandidateOwnHolds` | `[]StoresTypeOK`, `HolderOnly`, `[]LockedCandidateOwn` | |
| `TransactionProofs.TransactionTypeCorrect`, `LockBeliefHolds` | `[]TransactionTypeOK`, `[]LockBelief` | |
| `CommitProofs.CommitsOwnChangesOnlyHolds` | `[]CommitsOwnChangesOnly` | `Undisturbed` (of this module): no stale timestamp, see below |
| `CommitProofs.AllOrNothingHolds`, `NothingLeftBehindHolds` | `[]AllOrNothing`, `[]NothingLeftBehind` | `Undisturbed`, `Distinct`: no other session asks for a change of the transaction |
| `CommitProofs.CommitsReachTheirCycleHolds` | `[]CommitsReachTheirCycle` | `CommitDelay <= ReleaseLead` |
| `CommitProofs.ChangesInTheirCycleHolds` | `ChangesInTheirCycle` | `Undisturbed`, `Distinct` |
| `ConnectionSetupProofs.ConnectionTypeCorrect`, `HasControllerRegistered`, `AcksAttributed`, `FailsInSetupOnly` | `[]ConnectionTypeOK`, `[]HasControllerIsRegistered`, `[]AcksAreAttributed`, `FailsOnlyInSetup` | |
| `StreamReservationProofs.ReservationTypeCorrect`, `ThrowsNever`, `ReservationsReach`, `CapacityHolds` | `[]ReservationTypeOK`, `[]NeverThrows`, `[]ReservationsReachASink`, `[]WithinCapacity` | |
| `StreamReservationProofs.RulesBeforeReadies` | `[]RuleBeforeReady` | `MaxFlowEntries = 0`: unlimited tables |
| `SRPTableAging.AgingTypeCorrect`, `StreamsForListenersHolds` | `[]AgingTypeOK`, `[]StreamsForListeners` | |
| `TimeAwareShaperProofs.ShaperTypeCorrect`, `GatesFollowListHolds`, `GuardedWindowIsFreeHolds`, `NoEligibleFrameWaitsHolds` | `[]ShaperTypeOK`, `[]GatesFollowList`, `[]GuardedWindowIsFree`, `[]NoEligibleFrameWaits` | |

### The argument of each

**Deployment.** `ReleasedOnlyWhenDeployed` is not inductive: that the last ACK has arrived
says nothing unless ACKs are true. The inductive invariant is `DeployInv`, checked by TLC
in run `update` and proved by one step per action:

* `QueuedRulesIssued`: a FlowMod on its way carries an issued version and the flow
  of that version's stream, so executing it installs the right rule;
* `AcksTruthful`: an ACK on its way stands for an installed rule (this fails for a
  full table);
* `AckedInstalled`: a switch of the path that is no longer waited for has the rule;
  with `AcksTruthful` it is preserved by the receipt of an ACK;
* `ReleasedComplete`: a released version waits for nobody; together with
  `AckedInstalled` it gives the property;
* `NumberInRange`, `AdvertisedOnce`, `UnadvertisedIdle`: a new number is fresh because
  the counter has not wrapped and because a stream is assigned at most once by its
  own request; `Moves # "any"` covers the other way to be assigned.

Each conjunct of `Undisturbed` is needed: a full table breaks the property without the
first (section 4), expiry and `Moves = "any"` break it as described there, and without
tagging nothing is installed.

**Versions.** Uniqueness needs no more than that everything in the table is below the
counter. That a version belongs to one stream and that activations arrive in order rests on
`OrderInv`: every number below the counter has an owner (`RoutesOwned`), the rows of the
table hold numbers of their stream only (`RowsOwned`), a version that is waited for is the
pending one of a stream (`WaitingPending`), a rule or an ACK on its way means that its
switch is waited for, and there is never more than one of the two (`AcksOwed`), in
a switch's queue every rule is there once per version and activations of a stream wait in
the order of their numbers (`QueuesInOrder`), and an
ActivationMessage carries a number of its stream that is newer than the active one
(`ActivationsOwned`, `ActiveOwned`). So an ACK that comes in is owed, a pending stream is found, and the
uninitialised id of `activateMatchVersion` is never used. Neither unlimited tables nor rules
that stay are needed: a full table sends its ACK too.

**Frames.** `FrameInv`: every rule, installed or on its way, belongs to the path of its version
(`RulesInstalled`, `RulesSent`), every issued version has a candidate path of its stream
(`RoutesAssigned`), and a frame under way has come along the path of *some* issued version of
its flow, from the switch before (`FramesOnRoutes`) - not of its own version, since the lookup
ignores the tag and an older rule may have forwarded it. On each of its paths a switch that is
not the last has a rule for the in-port the frame came through (`AckedInstalled` of `DeployInv`,
as every version of a stream that is not pending is complete), so `lookup` finds one;
`OrderInv` says that the tag at the ingress switch is a version of the frame's stream.

**Refinement.** `ImplementsInOrder` maps initial states to initial states and every step to
`Plan` (an answer of the optimiser, which may plan a path for several streams at once), to
`TakeEffect` of one stream (an ingress switch executes an ActivationMessage) or to a stutter.
`StreamUpdate.InOrderSpec` is its specification without fairness. Besides `OrderInv` it needs
`UpdateInv`, that no version is skipped: every issued version of a stream is the pending one or
not beyond the current one (`AllAccounted`), and what the ingress switch has not applied up to
the current one is in its queue (`NoneSkipped`). So the activation at the head of a queue
carries the *first* of the later versions, not merely a newer one. Planned paths are the paths
of the ascending list of the later versions; that a set of numbers has exactly one such
list, and what it is when the greatest number is added or the least one removed, is proved from
the well-foundedness of the natural numbers and of finite sets. Full tables and expiring rules
are allowed: they affect rules, not the order of versions.

The specification stops handing out versions at `LastVersion < VersionSpace`, so these
theorems speak of a counter that has not wrapped (up to 65535 assignments).

**Connection set-up.** `ConnectionInv`: no switch is listed twice (`ListedOnce`); the controller
says hello only to those it has registered (`HelloFromController`), so an agent that believes
to have a controller is in the list; an index is given by the extraction only, to an entry with
a MAC, together with the row of the table at the place of the entry in the list
(`IndexedRows`). `FailsOnlyInSetup` follows from `ListedOnce` by counting: if every switch has
an index there is no row of the table left that leads nowhere.

**One server.** The lemmas say of each operation which sessions it lets change what; the
action property follows by cases. `LockedCandidateOwn` is inductive with the types, since a
candidate with changes cannot be locked.

**Transactions.** The invariant `ProtocolInv` of `TransactionProofs` holds until a
`cRuntimeError` (`aborted \/ ProtocolInv`). It describes the conversation of every app with
every switch: `InLock`, `InCopy`, ... `InEnd` list, per state of the app, the flags of the
switch and the one request or reply that may be under way (`Conversation`, `Protocol`); and
it ties the conversation to the stores: an app holds a lock exactly from the reply that
grants it to the reply that takes it back (`LocksOwned`), and a scheduled commit is one
that its app waits for (`CommitAwaited`). Without the conversation `LockBelief` is not
inductive: a late reply could set a flag for a lock that is gone.

`CommitProofs` adds, each on top of the former:

* `CommitInv`: while an app holds both locks of a switch the candidate contains what its
  state says (`Expected`: nothing; the changes before the one under way; the whole plan);
  a timestamp is that of a time-synchronous app that is past its staging phase, a scheduled
  commit has a timestamp (`Timer`). This gives `CommitsOwnChangesOnly`.
* `RunningInv`: changes of an app are in the running store exactly if its commit was
  executed there, and in the candidate only while it holds the switch. With the
  conversation in the end states (all switches committed or none) this gives
  `AllOrNothing` and `NothingLeftBehind`.
* `ReleaseInv`: what the distance to the cycle has lost since the release, `released` has
  gained. It needs none of the others but `ProtocolInv`.
* `StampInv`: the timestamp a switch has accepted stays that app's until its commit is
  executed, and a timer that has been woken is due in this cycle. Hence the commit of a
  time-synchronous app is always scheduled, never executed at once; nobody else can apply
  its candidate; and it is executed when the timestamp is due. This gives
  `ChangesInTheirCycle`.

`Undisturbed` of `CommitProofs`: all sessions belong to `TransactionApp`s, or the
time-synchronous app is the only `TransactionApp`, or there is none. The hypothesis was
found by the proof. Otherwise the stale timestamp of an app that gave up (section 4) makes
the commit of a plain client a scheduled one, which executes in another app's
transaction. Every behaviour of run `transactions` satisfies it. `Distinct` is what gives
the properties their meaning: if two sessions ask for the same change, nobody can say whose
is in the running store.

**Stream reservation.** `TreeAssumption` says of the network what the proofs need of a tree: seen
from the talker of a stream every link leads up at one end and down at the other, and one link
leads up from every other node. `ReservationInv`: the talker of an entry is the way up and was
announced by a node that knows it (`TalkersAbove`), listeners are below and have a listener of
their own (`ListenersBelow`), frames on a link and what switch and controller tell each other are
as credible as the entries they lead to (`WiresCredible`, `ControlInv`), and the controller's
copy of a table has the talker of every frame it has handed back. An entry that would throw
would need an advertise from below or a ready from above; neither exists.
`WithinCapacity` is inductive with it: the check of the bandwidth and the entry of the listener
are one event. What `MapThenSumSet` computes is taken from the definition of the fold: two
functions that sum up agree, and adding a stream adds its bandwidth, both by a smallest
counterexample among the subsets of the finite set of streams. `RuleInv`: a ready that the controller handed back is
preceded in the same queue by its rule, or the table has the rule already; with a limited table
the rule may have been dropped.

**Ageing.** `AgingTypeOK /\ StreamsForListeners` is inductive; the work is in
`removeAgedEntriesIfNeeded`, which runs inside an update before the update announces its own
entry.

**Time-aware port.** `ShaperInv`: the next valid event is the one of the row that is read
next, and only events of the newest `configNo` count (`TimerInv`); the gates stand as the
row before it says (`GatesInv`); a frame on the wire belongs to the open gates, or was begun
before the list, or before the row and then the row is not guarded (`WireInv`); and the
MAC waits for the selection only if there is nothing to send or a self-message is pending.
The proof showed that an earlier initial state of the model (`sinceLoad = FrameTicks`) made
`GuardedWindowIsFree` false for a list with a guarded window that opens at tick 0, which no
list of the run had. The model now starts with `sinceLoad = 0`, and the run has such a list.

### Model-checked only

* Liveness: `AssignmentsTakeEffect`, `TransactionsEnd`, `HandshakesComplete`,
  `RequestsAnswered`, `SubscriptionsClimb`, `AgedEntriesGo`, `EveryClassIsServed`. The prover
  has no rule for `ENABLED`, which fairness needs.
* The fairness of `StreamUpdate` in `ImplementsStreamUpdate`, for the same reason; its safety part
  is `ImplementsInOrder`.

Every other property of the runs of section 3 has a theorem.

## 8. Not modelled

* The timers of flow table ageing: expiry happens at any time instead.
* Flow table deletion (`OFPFC_DELETE`): no application sends it.
* The integer program of the optimiser: an oracle that returns candidate paths.
* NETCONF XML, configurators and parsers: a change is valid or not, applicable or
  not. `get` and `get-config` change nothing.
* NETCONF and OpenFlow transport: reliable FIFO channels, as TCP in `inet` provides.
* AVB: removal of entries, static entries set by NETCONF and import from XML
  (`StreamReservation` only adds; entries go in `SRPTableAging`), best-effort switching by
  `AVBLearningControllerApp` and the AVB frames themselves. Rings, where the second
  advertise of a stream always throws.
* The ageing of the SRP tables together with their distribution over the network: its
  timers would multiply the states of `StreamReservation`.
* `CreditBasedShaper`: its credit grows without bound while a gate is closed, so that
  every bound on it would cut real behaviours off. Frames are selected by plain
  algorithms.
* Oscillator drift and clock corrections (`Timer`, `Oscillator`), per-stream filtering
  (IEEE 802.1Qci) and the AS6802 synchronisation of `CoRE4INET`: no reconfiguration
  depends on them.
* AVB security and TSN learning applications, Kandoo, HyperFlow, visualisation, scenario
  scripting, the rest of `CoRE4INET` and `inet`.

## 9. Plan

1. (done) `PathReconfig` and what it is built from; `TypeCorrect` and `Deployed`; the
   abstract specification and the refinement.
2. (done) `NetConfDataStores`, `NetConfServer`, `TransactionModel`.
3. (done) `TimeSynchronousTransactionApp`, `ConnectionSetup`, `StreamReservation`,
   `SRPTableAging`, `TimeAwareShaper`.
4. Left to model: the flow table's ageing timer (`OF_FlowTable.cc:242`), removal of SRP
   entries by NETCONF.
5. (done) Theorems of every invariant and of every action property of section 3, and of the
   safety part of the refinement (section 7).
