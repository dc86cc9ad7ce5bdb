------------------------- MODULE MCTransactionModel -------------------------
(* Two sessions, of two controllers or of a controller and a plain client. *)
(* A controller's plan for a switch has one or two changes; bad is a       *)
(* change no switch accepts.                                               *)
EXTENDS TransactionModel

CONSTANTS x, y, bad, other

MCChanges == {x, y, bad, other}
MCValid == {x, y, other}
MCOthers == {other}

PlansWith(first) ==
    {[sw \in Switches |-> IF sw = 1 THEN << first >> ELSE << first, last >>] : last \in {first, bad}}
      \cup {[sw \in Switches |-> IF sw = 1 THEN << bad >> ELSE << first >>]}

MCPlans == [c \in Sessions |-> PlansWith(IF c = 1 THEN x ELSE y) \cup {PlainClient}]
MCAcceptedPlans == [c \in Sessions |-> {[sw \in Switches |-> << IF c = 1 THEN x ELSE y >>]}]
=============================================================================
