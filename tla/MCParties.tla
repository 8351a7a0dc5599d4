------------------------------ MODULE MCParties ------------------------------
(* Values of the constants of Parties for TLC.                               *)
EXTENDS Parties

CONSTANTS a, b, c, k, r, s

OneNode == {a}
TwoNodes == {a, b}
ThreeNodes == {a, b, c}

None == {}
OneKeyGen == {k}
OneReshare == {r}
OneSign == {s}
==============================================================================
