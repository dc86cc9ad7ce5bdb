-------------------------- MODULE MCPathReconfig --------------------------
(* Instances of PathReconfig for TLC.  Stream 2 runs against the others.   *)
EXTENDS PathReconfigRefinement

CONSTANTS a, b, c, d

MCFlowOf == [s \in Streams |-> s]

(* A diamond: from a to d over b or over c.                                *)
Diamond == {a, b, c, d}
DiamondIngress == [s \in Streams |-> IF s = 2 THEN d ELSE a]
DiamondPaths ==
    [s \in Streams |-> IF s = 2 THEN {<< d, b, a >>, << d, c, a >>}
                       ELSE {<< a, b, d >>, << a, c, d >>}]

(* A triangle: from a to b directly or over c.                             *)
Triangle == {a, b, c}
TriangleIngress == [s \in Streams |-> IF s = 2 THEN b ELSE a]
TrianglePaths ==
    [s \in Streams |-> IF s = 2 THEN {<< b, a >>, << b, c, a >>}
                       ELSE {<< a, b >>, << a, c, b >>}]
=============================================================================
