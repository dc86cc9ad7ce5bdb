------------------------ MODULE MCStreamReservation ------------------------
(* Two AVB domains, a switch with its hosts each, as in the example        *)
(* network avb_of_test; both streams cross the link between the switches.  *)
EXTENDS StreamReservation, TLC

CONSTANTS h1, h2, h3, h4, s1, s2

MCLinks == {{h1, s1}, {h3, s1}, {s1, s2}, {s2, h2}, {s2, h4}}
MCTalkerOf == (1 :> h1) @@ (2 :> h3)
MCSinksOf == (1 :> {h2, h3}) @@ (2 :> {h4})
MCBandwidth == (1 :> 2) @@ (2 :> 1)
=============================================================================
