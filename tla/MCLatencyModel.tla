---------------------------- MODULE MCLatencyModel ----------------------------
(* Two seeds, whose first draws fall in different regimes.                 *)
EXTENDS LatencyModel

CONSTANTS c1, p1, p2

TwoProfiles == {p1, p2}
Constructed == [network |-> p1, matching |-> p2, md |-> p1]
SomeTailDraws == {<<2, 0>>, <<1, 3>>}
===============================================================================
