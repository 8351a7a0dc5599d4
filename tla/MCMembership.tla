----------------------------- MODULE MCMembership -----------------------------
(* Values of the constants of Membership for TLC.                            *)
EXTENDS Membership

CONSTANTS a, b, c

ThreeNodes == {a, b, c}

\* Two nodes add the same third one.
Pair == {<<a, b>>, <<c, b>>}
AnyFault == FaultNames
==============================================================================
