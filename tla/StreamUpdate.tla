--------------------------- MODULE StreamUpdate ---------------------------
(***************************************************************************)
(* What path reconfiguration promises, without versions, rules, ACKs or    *)
(* messages: every stream runs on one path, the paths planned for it take  *)
(* effect one after the other in the order they were planned, none is      *)
(* skipped and none is left waiting for ever.                              *)
(***************************************************************************)
EXTENDS Sequences

CONSTANTS Streams, Paths

VARIABLES
    active,     \* stream -> the path it runs on, << >> before the first
    planned     \* stream -> the paths that have still to take effect

updateVars == << active, planned >>

Init ==
    /\ active  = [s \in Streams |-> << >>]
    /\ planned = [s \in Streams |-> << >>]

(* One answer of the optimiser plans a path for one or more streams.       *)
Plan ==
    \E S \in (SUBSET Streams) \ {{}} : \E path \in [S -> Paths] :
        /\ planned' = [s \in Streams |-> IF s \in S THEN Append(planned[s], path[s])
                                         ELSE planned[s]]
        /\ UNCHANGED active

TakeEffect(s) ==
    /\ planned[s] # << >>
    /\ active'  = [active  EXCEPT ![s] = Head(planned[s])]
    /\ planned' = [planned EXCEPT ![s] = Tail(@)]

Next == Plan \/ \E s \in Streams : TakeEffect(s)

InOrderSpec == Init /\ [][Next]_updateVars

Spec == InOrderSpec /\ \A s \in Streams : WF_updateVars(TakeEffect(s))
=============================================================================
