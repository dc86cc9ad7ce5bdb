------------------------- MODULE MCTimeAwareShaper -------------------------
EXTENDS TimeAwareShaper

\* A window for class 2 behind a row of closed gates, then one for class 1,
\* as switch1.ini of the example tsn/medium_network lays them out; a list of
\* one row; a list that starts late in the period and has no guard; a list
\* whose guarded window opens with the period.
WithGuard == << [open |-> {1}, time |-> 0], [open |-> {}, time |-> 3], [open |-> {2}, time |-> 5] >>
Single == << [open |-> {1, 2}, time |-> 2] >>
Late == << [open |-> {2}, time |-> 1], [open |-> {1}, time |-> 4] >>
AtStart == << [open |-> {2}, time |-> 0], [open |-> {}, time |-> 5] >>

MCLists == {WithGuard, Single, Late, AtStart}
=============================================================================
