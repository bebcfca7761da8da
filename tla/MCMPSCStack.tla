---------------------------- MODULE MCMPSCStack ----------------------------
(* Two threads push, one pops; three addresses, so that they run out.      *)
EXTENDS MPSCStack
CONSTANTS p1, p2, v1, v2, a1, a2, a3

TwoProducers == {p1, p2}
TwoValues == {v1, v2}
ThreeAddresses == {a1, a2, a3}
=============================================================================
