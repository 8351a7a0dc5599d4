----------------------------- MODULE NodeService -----------------------------
(***************************************************************************)
(* What the API of a node promises to those who call it, without rounds,   *)
(* workers or messages: an operation is declined while another one is      *)
(* inside; one that is inside concludes once and then ends; the key        *)
(* changes only by a key generation that has not concluded, or that was    *)
(* cut off from its caller; "ok" means that the node holds the key of this *)
(* key generation, and has saved it if its storage works, or that it has   *)
(* signed with a key.                                                      *)
(***************************************************************************)
CONSTANTS
  Ops,     \* the calls of the API, and the operations that others start
  KeyGens, \* those that make a key, named by the operation
  NoKey,
  Preset,  \* the key of an earlier run of the program
  StorageFails  \* the storage may refuse a key: only the log says so

VARIABLES
  phase,   \* where an operation is: idle, inside or returned
  outcome, \* what an operation has concluded with
  key,     \* the key the node uses
  saved    \* the key in storage, if this run has stored one

svars == <<phase, outcome, key, saved>>

SomeInside == \E o \in Ops : phase[o] = "inside"

Init ==
  /\ phase = [o \in Ops |-> "idle"]
  /\ outcome = [o \in Ops |-> "none"]
  /\ key \in {NoKey, Preset} /\ saved = NoKey

\* An operation begins, and may find at once that it cannot go on.
Begin(o) ==
  /\ phase[o] = "idle" /\ ~SomeInside
  /\ phase' = [phase EXCEPT ![o] = "inside"]
  /\ \/ UNCHANGED outcome
     \/ \E r \in {"notEnough", "noKey", "noSigners"} :
          /\ r = "noKey" => key = NoKey
          /\ outcome' = [outcome EXCEPT ![o] = r]
  /\ UNCHANGED <<key, saved>>

Decline(o) ==
  /\ phase[o] = "idle" /\ SomeInside
  /\ phase' = [phase EXCEPT ![o] = "returned"]
  /\ \E r \in {"busy", "dropped"} : outcome' = [outcome EXCEPT ![o] = r]
  /\ UNCHANGED <<key, saved>>

Failures == {"refused", "noShare", "badData", "deadline", "library", "convert",
             "unknown", "sendError"}

Fail(o) ==
  /\ phase[o] = "inside" /\ outcome[o] = "none"
  /\ \E r \in Failures : outcome' = [outcome EXCEPT ![o] = r]
  /\ UNCHANGED <<phase, key, saved>>

Succeed(o) ==
  /\ phase[o] = "inside" /\ outcome[o] = "none"
  /\ outcome' = [outcome EXCEPT ![o] = "ok"]
  /\ IF o \in KeyGens THEN key = o ELSE key # NoKey
  /\ \/ o \in KeyGens /\ saved' = o
     \/ o \in KeyGens /\ StorageFails /\ UNCHANGED saved
     \/ o \notin KeyGens /\ UNCHANGED saved
  /\ UNCHANGED <<phase, key>>

End(o) ==
  /\ phase[o] = "inside" /\ outcome[o] # "none"
  /\ phase' = [phase EXCEPT ![o] = "returned"]
  /\ UNCHANGED <<outcome, key, saved>>

MakeKey(o) ==
  /\ o \in KeyGens /\ phase[o] # "idle" /\ outcome[o] \in {"none", "unknown"}
  /\ key' = o
  /\ UNCHANGED <<phase, outcome, saved>>

Next == \E o \in Ops : \/ Begin(o) \/ Decline(o) \/ Fail(o) \/ Succeed(o)
                       \/ End(o) \/ MakeKey(o)

Spec == Init /\ [][Next]_svars
==============================================================================
