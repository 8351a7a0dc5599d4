------------------------------ MODULE MCReshare ------------------------------
(***************************************************************************)
(* Values of the constants of Reshare for TLC.                             *)
(***************************************************************************)
EXTENDS Reshare

CONSTANTS me, p1, r0, r1

OnePeer == {p1}

None == {}
Ended == {r0}        \* what may have ended before
Joined == {r1}
Both == Ended \cup Joined

NoFaults == {}
Addressed == FaultNames \ {"broadcast"}

\* The bound of the run about late updates: when the earlier resharing has met its
\* deadline, two of its messages come, the least that makes an update block, to a
\* node that was at rest and whose own resharing meets no other fault.
LateAlone ==
  Ended \cap expired # {} =>
    /\ Cardinality({m \in posted : m.op \in Ended}) <= 2
    /\ down = {} /\ Joined \cap expired = {}
    /\ \A o \in Joined :
         /\ worker[o] \notin Errors \ {"refused"}
         /\ caller[o] \in {"idle", "offered"} => ~busy /\ ~tssBusy
==============================================================================
