------------------------------- MODULE Parties -------------------------------
(***************************************************************************)
(* What nodes know of each other's party: the key of a peer's party and    *)
(* whether the peer has a share of the private key.  A node learns a party *)
(* from a PartyId message, sent when a peer is launched and at the end of  *)
(* a resharing, and marks all its peers when a key generation or a         *)
(* resharing ends; the next operation takes its parties from there.        *)
(*                                                                         *)
(* Nodes run key generations, resharings and signatures together.  What    *)
(* happens inside a node is the subject of Operation and Reshare, and how  *)
(* streams are opened that of Membership: here an operation is entered,    *)
(* sends its last messages, and ends, and a peer is launched in one step.  *)
(* A Start message does not name its operation, so that nodes that start   *)
(* one at the same time may find themselves in the same or in two.         *)
(***************************************************************************)
EXTENDS Naturals, FiniteSets

CONSTANTS
  Nodes,      \* the nodes
  Network,    \* those that are connected at the start
  KeyGens,    \* identifiers of key generations,
  Reshares,   \* of resharings
  Signs,      \* and of signatures
  Callers,    \* the nodes whose API is called; the others handle Start messages
  Threshold,  \* thresholdParty
  Deadlines,  \* BOUND: how often a deadline passes
  NoOp,       \* aProcessIsRunning is false
  NoKey,      \* the PartyKey of a peer that has sent no party, Go's nil
  Absent      \* not in node.peers

Ops == KeyGens \cup Reshares \cup Signs

ASSUME NetworkAssumption == Network \subseteq Nodes /\ Callers \subseteq Nodes
ASSUME KindsAssumption ==
  /\ KeyGens \cap Reshares = {} /\ KeyGens \cap Signs = {} /\ Reshares \cap Signs = {}
  /\ NoOp \notin Ops
ASSUME KeysAssumption ==
  NoKey \notin Nat /\ Absent \notin [key : Nat \cup {NoKey}, shared : BOOLEAN]
ASSUME PartyBounds == Threshold \in Nat /\ Deadlines \in Nat

VARIABLES
  own,      \* the party of a node: GetParty
  known,    \* node.peers, and the party each of them holds
  proc,     \* the operation that holds aProcessIsRunning
  list,     \* the parties a node has given to an operation
  sent,     \* nodes whose party in an operation has sent its last messages
  ok,       \* nodes where an operation has ended well
  failed,   \* nodes where its deadline has passed
  net,      \* messages that are sent and not handled
  dropped,  \* peers a PartyId message of which a node has dropped
  panicked  \* nodes that have panicked

vars == <<own, known, proc, list, sent, ok, failed, net, dropped, panicked>>

\* A party: its PartyKey, the number of resharings that renewed it (NewPartyKey is
\* the next), and HaveSharedKey. A new peer object holds the zero Party.
Party == [key : Nat \cup {NoKey}, shared : BOOLEAN]
Zero == [key |-> NoKey, shared |-> FALSE]
Lists == [Nodes -> Party \cup {Absent}]
NoList == [p \in Nodes |-> Absent]
Members(parties) == {p \in Nodes : parties[p] # Absent}

Starts == [kind : {"keygen", "reshare"}, from : Nodes, to : Nodes]
SignStarts == [kind : {"sign"}, from : Nodes, to : Nodes, parties : Lists]
PartyIds == [kind : {"party"}, from : Nodes, to : Nodes, party : Party]

PeersOf(n) == Members(known[n])
Entered(o, n) == Members(list[o][n]) # {}
Idle(n) == proc[n] = NoOp /\ n \notin panicked

\* No node is a peer of itself.
TypeOK ==
  /\ own \in [Nodes -> [key : Nat, shared : BOOLEAN]]
  /\ known \in [Nodes -> Lists] /\ \A n \in Nodes : known[n][n] = Absent
  /\ proc \in [Nodes -> Ops \cup {NoOp}]
  /\ list \in [Ops -> [Nodes -> Lists]]
  /\ sent \subseteq Ops \X Nodes /\ ok \subseteq Ops \X Nodes
  /\ failed \subseteq Ops \X Nodes
  /\ net \subseteq Starts \cup SignStarts \cup PartyIds
  /\ dropped \subseteq Nodes \X Nodes
  /\ panicked \subseteq Nodes

\* The option SetPrivateKey gives a node a share of an earlier key; the nodes of
\* Network know each other.
Init ==
  /\ own \in [Nodes -> [key : {0}, shared : BOOLEAN]]
  /\ known = [n \in Nodes |-> [p \in Nodes |->
                IF p # n /\ {n, p} \subseteq Network THEN own[p] ELSE Absent]]
  /\ proc = [n \in Nodes |-> NoOp]
  /\ list = [o \in Ops |-> [n \in Nodes |-> NoList]]
  /\ sent = {} /\ ok = {} /\ failed = {}
  /\ net = {} /\ dropped = {} /\ panicked = {}

-----------------------------------------------------------------------------
(* Peers and PartyId messages.                                               *)

\* sendMyPartyToPeer.
MyParty(n, party, p) == [kind |-> "party", from |-> n, to |-> p, party |-> party]

\* Mutant: a peer is launched while a process runs.
LaunchAnyTime(n, p) ==
  /\ n \notin panicked /\ p # n /\ known[n][p] = Absent
  /\ known' = [known EXCEPT ![n][p] = Zero]
  /\ net' = net \cup {MyParty(n, own[n], p)}
  /\ UNCHANGED <<own, proc, list, sent, ok, failed, dropped, panicked>>

\* Mutant: the check that the new peer is another node is gone.
LaunchAnyone(n, p) ==
  /\ Idle(n) /\ known[n][p] = Absent
  /\ known' = [known EXCEPT ![n][p] = Zero]
  /\ net' = net \cup {MyParty(n, own[n], p)}
  /\ UNCHANGED <<own, proc, list, sent, ok, failed, dropped, panicked>>

\* launchNewPeer, in AddPeer, handleNewPeerJoinedMsg or handleNewConnection.
Launch(n, p) ==
  /\ Idle(n) /\ p # n /\ known[n][p] = Absent
  /\ known' = [known EXCEPT ![n][p] = Zero]
  /\ net' = net \cup {MyParty(n, own[n], p)}
  /\ UNCHANGED <<own, proc, list, sent, ok, failed, dropped, panicked>>

\* The event loop takes a message that a peer sent.
Received(n, m) ==
  /\ m \in net /\ m.to = n /\ n \notin panicked /\ known[n][m.from] # Absent
  /\ net' = net \ {m}

\* handleMessage drops what is not an update while a process runs.
Drop(n, m) ==
  /\ Received(n, m) /\ proc[n] # NoOp
  /\ dropped' = dropped \cup IF m.kind = "party" THEN {<<n, m.from>>} ELSE {}
  /\ UNCHANGED <<own, known, proc, list, sent, ok, failed, panicked>>

\* handlePartyId.
Learn(n, m) ==
  /\ Received(n, m) /\ Idle(n) /\ m.kind = "party"
  /\ known' = [known EXCEPT ![n][m.from] = m.party]
  /\ UNCHANGED <<own, proc, list, sent, ok, failed, dropped, panicked>>

-----------------------------------------------------------------------------
(* Entering an operation.                                                    *)

\* GetParty with getPeersAsParties.
MyList(n) == [known[n] EXCEPT ![n] = own[n]]

\* The worker starts: sortParties needs the PartyKey of every party and panics on a
\* nil one. BOUND: a node enters an operation once.
Enter(n, o, parties) ==
  /\ ~Entered(o, n)
  /\ \/ /\ \A p \in Members(parties) : parties[p].key # NoKey
        /\ proc' = [proc EXCEPT ![n] = o]
        /\ list' = [list EXCEPT ![o][n] = parties]
        /\ UNCHANGED panicked
     \/ /\ \E p \in Members(parties) : parties[p].key = NoKey
        /\ panicked' = panicked \cup {n}
        /\ UNCHANGED <<proc, list>>
  /\ UNCHANGED <<own, known, sent, ok, failed, dropped>>

\* doKeyGen and doReshare. With too few peers the operation ends at once.
Do(n, o) ==
  \/ Cardinality(PeersOf(n)) >= Threshold /\ Enter(n, o, MyList(n))
  \/ /\ Cardinality(PeersOf(n)) < Threshold
     /\ UNCHANGED <<own, known, proc, list, sent, ok, failed, dropped, panicked>>

Kind(o) == IF o \in KeyGens THEN "keygen" ELSE "reshare"

\* KeyGen and Reshare: the Start messages leave before the peers are counted.
Call(n, o) ==
  /\ n \in Callers /\ Idle(n) /\ o \in KeyGens \cup Reshares
  /\ net' = net \cup [kind : {Kind(o)}, from : {n}, to : PeersOf(n)]
  /\ Do(n, o)

\* handleKeyGen and handleReshare.
HandleStart(n, m) ==
  /\ Received(n, m) /\ Idle(n)
  /\ \E o \in KeyGens \cup Reshares : m.kind = Kind(o) /\ Do(n, o)

\* SignMessage: selectRandomlySignerPeer chooses among the peers marked as having
\* a share.
CallSign(n, o) ==
  /\ n \in Callers /\ Idle(n) /\ o \in Signs /\ own[n].shared
  /\ \E signers \in SUBSET {p \in PeersOf(n) : known[n][p].shared} :
       LET parties == [p \in Nodes |-> IF p \in signers \cup {n} THEN MyList(n)[p]
                                        ELSE Absent]
       IN  /\ Cardinality(signers) = Threshold
           /\ net' = net \cup [kind : {"sign"}, from : {n}, to : signers,
                               parties : {parties}]
           /\ Enter(n, o, parties)

\* handleSignMessage, whose worker needs a share and its own index: updateIndex
\* panics when no party of the list has its PartyKey.
HandleSign(n, m) ==
  /\ Received(n, m) /\ Idle(n) /\ m.kind = "sign"
  /\ \/ /\ ~own[n].shared
        /\ UNCHANGED <<own, known, proc, list, sent, ok, failed, dropped, panicked>>
     \/ /\ own[n].shared /\ m.parties[n].key # own[n].key
        /\ panicked' = panicked \cup {n}
        /\ UNCHANGED <<own, known, proc, list, sent, ok, failed, dropped>>
     \/ /\ own[n].shared /\ m.parties[n].key = own[n].key
        /\ \E o \in Signs : Enter(n, o, m.parties)

-----------------------------------------------------------------------------
(* The end of an operation.                                                  *)

\* The parties of the library understand each other when they have been given
\* the same parties; for a resharing, with the same old committee.
Agree(o, n) ==
  \A p \in Members(list[o][n]) :
    /\ Members(list[o][p]) = Members(list[o][n])
    /\ \A q \in Members(list[o][n]) :
         /\ list[o][p][q].key = list[o][n][q].key
         /\ o \in Reshares => list[o][p][q].shared = list[o][n][q].shared

\* A party has the messages it needs to send its last ones.
SendLast(o, n) ==
  /\ proc[n] = o /\ n \notin panicked /\ Agree(o, n)
  /\ o \in Reshares => \E p \in Members(list[o][n]) : list[o][n][p].shared
  /\ sent' = sent \cup {<<o, n>>}
  /\ UNCHANGED <<own, known, proc, list, ok, failed, net, dropped, panicked>>

\* SetHasPrivateKey(true) for every peer.
Mark(n) ==
  known' = [known EXCEPT ![n] = [p \in Nodes |->
              IF known[n][p] = Absent THEN Absent
              ELSE [known[n][p] EXCEPT !.shared = TRUE]]]

\* The worker has the last messages of all parties, and ends.
Ends(o, n) ==
  /\ proc[n] = o /\ n \notin panicked
  /\ \A p \in Members(list[o][n]) : <<o, p>> \in sent
  /\ proc' = [proc EXCEPT ![n] = NoOp]
  /\ ok' = ok \cup {<<o, n>>}
  /\ UNCHANGED <<list, sent, failed, dropped, panicked>>

\* Mutant: the peers are not marked.
DoneKeyGenUnmarked(o, n) ==
  /\ o \in KeyGens /\ Ends(o, n)
  /\ own' = [own EXCEPT ![n].shared = TRUE]
  /\ UNCHANGED <<known, net>>

\* doneKeyGen.
DoneKeyGen(o, n) ==
  /\ o \in KeyGens /\ Ends(o, n)
  /\ own' = [own EXCEPT ![n].shared = TRUE]
  /\ Mark(n)
  /\ UNCHANGED net

\* Mutant: the party is sent before its key is renewed.
DoneReshareEarly(o, n) ==
  /\ o \in Reshares /\ Ends(o, n) /\ own[n].shared
  /\ own' = [own EXCEPT ![n].key = @ + 1]
  /\ net' = net \cup {MyParty(n, own[n], p) : p \in PeersOf(n)}
  /\ Mark(n)

\* ReshareKey renews the PartyKey, and doneReshare sends it to the peers. A node
\* without a share does not get the last messages, as the module Reshare shows.
DoneReshare(o, n) ==
  /\ o \in Reshares /\ Ends(o, n) /\ own[n].shared
  /\ own' = [own EXCEPT ![n].key = @ + 1]
  /\ net' = net \cup {MyParty(n, own'[n], p) : p \in PeersOf(n)}
  /\ Mark(n)

DoneSign(o, n) ==
  /\ o \in Signs /\ Ends(o, n)
  /\ UNCHANGED <<own, known, net>>

\* The deadline passes first, at this node alone.
Fail(o, n) ==
  /\ Cardinality(failed) < Deadlines /\ proc[n] = o /\ n \notin panicked
  /\ proc' = [proc EXCEPT ![n] = NoOp]
  /\ failed' = failed \cup {<<o, n>>}
  /\ UNCHANGED <<own, known, list, sent, ok, net, dropped, panicked>>

-----------------------------------------------------------------------------
Next ==
  \E n \in Nodes :
    \/ \E p \in Nodes : Launch(n, p)
    \/ \E m \in net : Drop(n, m) \/ Learn(n, m) \/ HandleStart(n, m) \/ HandleSign(n, m)
    \/ \E o \in Ops : \/ Call(n, o) \/ CallSign(n, o) \/ SendLast(o, n) \/ Fail(o, n)
                      \/ DoneKeyGen(o, n) \/ DoneReshare(o, n) \/ DoneSign(o, n)

Spec == Init /\ [][Next]_vars

-----------------------------------------------------------------------------
(* Properties.                                                               *)

\* No operation and no PartyId message that somebody will handle is under way.
Quiet ==
  /\ \A n \in Nodes : Idle(n)
  /\ \A m \in net : m.kind = "party" => known[m.to][m.from] = Absent

Failed(n) == \E o \in Ops : <<o, n>> \in failed

\* At rest a node knows the party that each of its peers has now, with the
\* PartyKey of its last resharing and whether it has a share, unless it
\* dropped a PartyId message of that peer; a deadline at one of the two may
\* leave a wrong mark, but no wrong PartyKey. PartyId messages may
\* overtake each other.
PartiesCurrent ==
  Quiet =>
    \A n, p \in Nodes :
      p \in PeersOf(n) /\ n \in PeersOf(p) /\ <<n, p>> \notin dropped =>
        /\ known[n][p].key = own[p].key
        /\ known[n][p].shared = own[p].shared \/ Failed(n) \/ Failed(p)

\* A peer that is marked as having a share of the private key has one, or it
\* takes part in the operation that marked it, or its deadline has passed
\* there: doneKeyGen and doneReshare never mark a peer that joined meanwhile.
MarkedTookPart ==
  \A n \in Nodes : \A p \in PeersOf(n) :
    known[n][p].shared =>
      \/ own[p].shared
      \/ \E o \in KeyGens \cup Reshares :
                        /\ <<o, n>> \in ok /\ p \in Members(list[o][n])
                        /\ proc[p] = o \/ <<o, p>> \in failed

\* A peer that is marked as having a share has sent its party, also when the mark
\* came from doneKeyGen or doneReshare, which do not look: SignMessage never
\* gives sortParties a party without a PartyKey.
MarkedKnown ==
  \A n \in Nodes : \A p \in PeersOf(n) : known[n][p].shared => known[n][p].key # NoKey

\* The signers that SignMessage chooses find their PartyKey in the list of parties
\* they are sent: nothing panics between nodes that know each other's party.
SignersFindThemselves == panicked = {}
==============================================================================
