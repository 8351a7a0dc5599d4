----------------------------- MODULE MCPeerStream -----------------------------
(***************************************************************************)
(* Values of the constants of PeerStream for TLC: one node sends two       *)
(* messages at the same time, of three and of two pieces, and the other    *)
(* sends one.                                                              *)
(***************************************************************************)
EXTENDS PeerStream

CONSTANTS a, b, m1, m2, m3

TwoEnds == {a, b}
ThreeCalls == {m1, m2, m3}
Sender(c) == IF c = m3 THEN b ELSE a
Length(c) == CASE c = m1 -> 3 [] c = m2 -> 2 [] c = m3 -> 1
==============================================================================
