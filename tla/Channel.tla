------------------------------- MODULE Channel -------------------------------
(***************************************************************************)
(* What the stream between two nodes promises to the node: in each         *)
(* direction, messages are delivered once, whole, in the order in which    *)
(* they were sent, and without gaps. The reader may stop; then nothing     *)
(* more is delivered.                                                      *)
(***************************************************************************)
EXTENDS Sequences

CONSTANTS
  Calls,   \* the messages, each sent by one call of SendMsg
  Ends,    \* the two ends of the stream
  From(_)  \* the end that sends a message

VARIABLES
  transit,   \* messages sent by an end and not yet delivered to the other
  delivered, \* messages of an end that the other has got
  reading    \* the other end still reads what an end sends

cvars == <<transit, delivered, reading>>

Put(c) ==
  /\ reading[From(c)]
  /\ \A i \in DOMAIN transit[From(c)] : transit[From(c)][i] # c
  /\ \A i \in DOMAIN delivered[From(c)] : delivered[From(c)][i] # c
  /\ transit' = [transit EXCEPT ![From(c)] = Append(@, c)]
  /\ UNCHANGED <<delivered, reading>>

Get(e) ==
  /\ transit[e] # <<>>
  /\ delivered' = [delivered EXCEPT ![e] = Append(@, Head(transit[e]))]
  /\ transit' = [transit EXCEPT ![e] = Tail(@)]
  /\ UNCHANGED reading

Stop(e) ==
  /\ reading[e]
  /\ reading' = [reading EXCEPT ![e] = FALSE]
  /\ transit' = [transit EXCEPT ![e] = <<>>]
  /\ UNCHANGED delivered

Init ==
  /\ transit = [e \in Ends |-> <<>>] /\ delivered = [e \in Ends |-> <<>>]
  /\ reading = [e \in Ends |-> TRUE]

Next == \/ \E c \in Calls : Put(c)
        \/ \E e \in Ends : Get(e) \/ Stop(e)

Spec == Init /\ [][Next]_cvars
==============================================================================
