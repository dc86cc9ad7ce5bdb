---------------------- MODULE PathReconfigRefinement ----------------------
(***************************************************************************)
(* PathReconfig implements StreamUpdate as long as no stream is moved      *)
(* while a version of it is pending: a stream runs on the path of the      *)
(* version its ingress switch tags with, and the paths of its later        *)
(* versions are planned.                                                   *)
(***************************************************************************)
EXTENDS PathReconfig, FiniteSets

activePath == [s \in Streams |-> route[ActiveVersion(s)].path]

(* q lists the numbers of V in ascending order.                            *)
Lists(q, V) ==
    /\ \A v \in V : \E i \in DOMAIN q : q[i] = v
    /\ \A i, j \in DOMAIN q : i < j => q[i] < q[j]

Ascending(V) == CHOOSE q \in [1 .. Cardinality(V) -> V] : Lists(q, V)

(* The issued versions of s that its ingress switch has still to apply.    *)
LaterVersions(s) ==
    {v \in 1 .. ce.OF_match_version_number - 1 : route[v].sid = s /\ v > ActiveVersion(s)}

(* Their paths, in the order they were issued.                             *)
plannedPaths ==
    [s \in Streams |-> LET q == Ascending(LaterVersions(s)) IN
                       [i \in DOMAIN q |-> route[q[i]].path]]

Promise == INSTANCE StreamUpdate
               WITH active <- activePath, planned <- plannedPaths,
                    Paths <- UNION {CandidatePaths[s] : s \in Streams}

(* Every behaviour of the controller, the channels and the switches is a   *)
(* behaviour of StreamUpdate: no ACK, activation or reservation is lost,   *)
(* applied to another stream or applied out of order (configureDataPlane,  *)
(* receiveSignal and activateMatchVersion of ConfigurationEngine.cc,       *)
(* handleMatchVersionMessage of Edge_OF_RelayUnit.cc).                     *)
ImplementsStreamUpdate == Promise!Spec
=============================================================================
