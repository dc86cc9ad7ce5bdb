-------------------------- MODULE MCNetConfServer --------------------------
(* Two sessions, each with changes of its own; the switch accepts y but    *)
(* cannot apply it, and does not accept v.                                 *)
EXTENDS NetConfServer

CONSTANTS x, y, u, v

MCChanges == {x, y, u, v}
MCChangesOf == [c \in Sessions |-> IF c = 1 THEN {x, y} ELSE {u, v}]
MCValid == {x, y, u}
MCApplicable == {x, u}
=============================================================================
