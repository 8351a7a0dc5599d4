----------------------------- MODULE MCOperation -----------------------------
(***************************************************************************)
(* Values of the constants of Operation for TLC. Peers are interchangeable *)
(* in the runs that check no liveness property.                            *)
(***************************************************************************)
EXTENDS OperationInv, TLC

CONSTANTS p1, p2, k1, k2, s1, e1

OnePeer == {p1}
TwoPeers == {p1, p2}

None == {}
OneKeyGen == {k1}
TwoKeyGens == {k1, k2}
OneSign == {s1}
OneEthSign == {e1}

NoFaults == {}
OneNode == FaultNames \ {"close", "store", "reshare"}

PeerSymmetry == Permutations(TwoPeers)

\* The bound of a run about operations that are let in one at a time.
OneAtATime == ~overlapped
==============================================================================
