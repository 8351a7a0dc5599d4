----------------------------- MODULE Membership -----------------------------
(***************************************************************************)
(* How nodes come to know each other: AddPeer, the NewPeerJoined messages  *)
(* that make the other nodes connect, the streams other nodes open, the    *)
(* PartyId messages and the removal of peers of peer.go, with the event    *)
(* loop of start.go and the senders of sender.go.                          *)
(*                                                                         *)
(* A stream is named by the node that opened it and the node it reaches,   *)
(* so that the two streams of a pair can be told apart.  Each end of a     *)
(* stream has a goroutine that reads it for ever; a message is sent by a   *)
(* goroutine of its own, so messages arrive in any order.  The gap between *)
(* the load and the store of aProcessIsRunning is the subject of the       *)
(* module Operation: here the two are one step.                            *)
(***************************************************************************)
EXTENDS Naturals, FiniteSets

CONSTANTS
  Nodes,      \* the nodes
  Adds,       \* the calls of AddPeer: who calls it and whom it adds
  Faults,     \* what may go wrong, a subset of FaultNames
  NoStream    \* Go's nil

\* "loss" a stream breaks; "unreachable" a node cannot be connected to.
FaultNames == {"loss", "unreachable"}

ASSUME AddsAssumption == Adds \subseteq Nodes \X Nodes
ASSUME FaultsAssumption == Faults \subseteq FaultNames
ASSUME NoStreamAssumption == NoStream \notin Nodes \X Nodes

VARIABLES
  process,  \* what holds aProcessIsRunning, for each node
  peers,    \* node.peers: the stream of the peer object of each peer
  party,    \* peers whose object holds the party they sent
  readers,  \* readFromPeer goroutines: a node and the stream it reads
  called,   \* calls of AddPeer made so far
  overlapped, \* whether AddPeer began while another node was being added
  opened,   \* streams that were opened
  pending,  \* streams that wait in newConnectionCh
  closed,   \* streams that are closed or broken
  net,      \* messages that are sent and not taken yet
  missed    \* whether a node refused a stream, dropped a message or could not connect

vars == <<process, peers, party, readers, called, overlapped, opened, pending,
          closed, net, missed>>
memberVars == <<peers, party, readers>>
addVars == <<called, overlapped>>
streamVars == <<opened, pending, closed>>

Streams == {s \in Nodes \X Nodes : s[1] # s[2]}
OtherEnd(s, n) == IF s[1] = n THEN s[2] ELSE s[1]

\* cause is the stream whose opening made a node send the message, NoStream
\* when AddPeer did.
Messages == [kind : {"joined", "party"}, from : Nodes, to : Nodes, via : Streams,
             new : Nodes, cause : Streams \cup {NoStream}]

\* AddPeer runs in the goroutine of its caller ("api"), the handling of a
\* NewPeerJoined message in the event loop ("loop").
Idle == [by |-> "none", at |-> "idle"]
Processes == {Idle} \cup [by : {"api", "loop"}, at : {"connect", "launch", "leave"},
                          new : Nodes]

Busy(n) == process[n] # Idle
LoopFree(n) == process[n].by # "loop"
PeersOf(n) == {p \in Nodes : peers[n][p] # NoStream}

\* No node is being added: no process, stream to accept or NewPeerJoined message.
Settled ==
  /\ \A n \in Nodes : ~Busy(n)
  /\ pending = {}
  /\ \A m \in net : m.kind # "joined"

\* No node has a stream to itself, or makes a peer of itself: handling a
\* NewPeerJoined message of one's own, isValidNewPeer.
TypeOK ==
  /\ process \in [Nodes -> Processes]
  /\ peers \in [Nodes -> [Nodes -> Streams \cup {NoStream}]]
  /\ party \in [Nodes -> SUBSET Nodes]
  /\ \A n \in Nodes : n \notin PeersOf(n) /\ party[n] \subseteq PeersOf(n)
  /\ readers \subseteq Nodes \X Streams
  /\ called \subseteq Adds
  /\ opened \subseteq Streams /\ pending \subseteq opened /\ closed \subseteq opened
  /\ net \subseteq Messages
  /\ {overlapped, missed} \subseteq BOOLEAN

Init ==
  /\ process = [n \in Nodes |-> Idle]
  /\ peers = [n \in Nodes |-> [p \in Nodes |-> NoStream]]
  /\ party = [n \in Nodes |-> {}]
  /\ readers = {} /\ net = {} /\ called = {}
  /\ overlapped = FALSE /\ missed = FALSE
  /\ opened = {} /\ pending = {} /\ closed = {}

-----------------------------------------------------------------------------
\* sendNewPeerMessageToPeers: one message to each peer.
JoinedMessages(n, new, why) ==
  {[kind |-> "joined", from |-> n, to |-> p, via |-> peers[n][p],
    new |-> new, cause |-> why] : p \in PeersOf(n)}

\* sendMyPartyToPeer.
PartyMessage(n, s) ==
  [kind |-> "party", from |-> n, to |-> OtherEnd(s, n), via |-> s, new |-> n,
   cause |-> s]

\* network.NewPeer and launchNewPeer: the goroutine that reads the stream, and
\* a new object, without a party, in place of any that node.peers holds.
AddToPeers(n, s) ==
  /\ readers' = readers \cup {<<n, s>>}
  /\ peers' = [peers EXCEPT ![n][OtherEnd(s, n)] = s]
  /\ party' = [party EXCEPT ![n] = @ \ {OtherEnd(s, n)}]

\* deletePeer finds the peer by its identifier, whatever stream its object has.
DeletePeer(n, p) ==
  /\ closed' = closed \cup ({peers[n][p]} \ {NoStream})
  /\ peers' = [peers EXCEPT ![n][p] = NoStream]
  /\ party' = [party EXCEPT ![n] = @ \ {p}]

-----------------------------------------------------------------------------
\* AddPeer is refused while a process runs and for a node that is a peer
\* already or is this one; it tells the peers before it connects.
AddPeer(n, new) ==
  /\ <<n, new>> \in Adds \ called
  /\ called' = called \cup {<<n, new>>}
  /\ IF Busy(n) \/ new = n \/ new \in PeersOf(n)
     THEN UNCHANGED <<process, net, overlapped>>
     ELSE /\ overlapped' = (overlapped \/ ~Settled)
          /\ process' = [process EXCEPT ![n] =
                           [by |-> "api", at |-> "connect", new |-> new]]
          /\ net' = net \cup JoinedMessages(n, new, NoStream)
  /\ UNCHANGED <<memberVars, streamVars, missed>>

\* connectToNewPeer. BOUND: a node opens one stream to another node; a second
\* one, possible only after the first broke, fails.
Connect(n) ==
  /\ process[n].at = "connect"
  /\ LET s == <<n, process[n].new>> IN
       /\ s \notin opened
       /\ opened' = opened \cup {s}
       /\ pending' = pending \cup {s}
  /\ process' = [process EXCEPT ![n].at = "launch"]
  /\ UNCHANGED <<memberVars, addVars, closed, net, missed>>

\* The process ends; the other nodes have been told already.
ConnectFails(n) ==
  /\ process[n].at = "connect"
  /\ "unreachable" \in Faults \/ <<n, process[n].new>> \in opened
  /\ process' = [process EXCEPT ![n] = Idle]
  /\ missed' = TRUE
  /\ UNCHANGED <<memberVars, streamVars, addVars, net>>

\* Mutant: the new peer is not sent the party of this node.
LaunchSilent(n) ==
  /\ process[n].at = "launch"
  /\ AddToPeers(n, <<n, process[n].new>>)
  /\ process' = [process EXCEPT ![n].at = "leave"]
  /\ UNCHANGED <<streamVars, addVars, net, missed>>

\* launchNewPeer at the node that opened the stream.
Launch(n) ==
  /\ process[n].at = "launch"
  /\ LET s == <<n, process[n].new>> IN
       /\ AddToPeers(n, s)
       /\ net' = net \cup {PartyMessage(n, s)}
  /\ process' = [process EXCEPT ![n].at = "leave"]
  /\ UNCHANGED <<streamVars, addVars, missed>>

\* Mutant: aProcessIsRunning is never cleared.
LeaveBusy(n) == process[n].at = "leave" /\ UNCHANGED vars

\* The deferred Store(false).
Leave(n) ==
  /\ process[n].at = "leave"
  /\ process' = [process EXCEPT ![n] = Idle]
  /\ UNCHANGED <<memberVars, streamVars, addVars, net, missed>>

-----------------------------------------------------------------------------
(* The event loop.                                                           *)

\* Mutant: handleNewConnection does not tell the peers of the new one.
AcceptSilently(n, s) ==
  /\ LoopFree(n) /\ s \in pending /\ s[2] = n /\ ~Busy(n)
  /\ pending' = pending \ {s}
  /\ AddToPeers(n, s)
  /\ net' = net \cup {PartyMessage(n, s)}
  /\ UNCHANGED <<process, addVars, opened, closed, missed>>

\* Mutant: no goroutine reads the stream.
AcceptUnread(n, s) ==
  /\ LoopFree(n) /\ s \in pending /\ s[2] = n /\ ~Busy(n)
  /\ pending' = pending \ {s}
  /\ peers' = [peers EXCEPT ![n][s[1]] = s]
  /\ net' = net \cup JoinedMessages(n, s[1], s) \cup {PartyMessage(n, s)}
  /\ UNCHANGED <<process, party, readers, addVars, opened, closed, missed>>

\* handleNewConnection: the peers are told before the new one is added.
Accept(n, s) ==
  /\ LoopFree(n) /\ s \in pending /\ s[2] = n /\ ~Busy(n)
  /\ pending' = pending \ {s}
  /\ AddToPeers(n, s)
  /\ net' = net \cup JoinedMessages(n, s[1], s) \cup {PartyMessage(n, s)}
  /\ UNCHANGED <<process, addVars, opened, closed, missed>>

\* While a process runs the stream is left as it is, neither read nor closed.
Refuse(n, s) ==
  /\ LoopFree(n) /\ s \in pending /\ s[2] = n /\ Busy(n)
  /\ pending' = pending \ {s}
  /\ missed' = TRUE
  /\ UNCHANGED <<process, memberVars, addVars, opened, closed, net>>

\* A reader has passed the message to receivedMsg.
Received(n, m) == /\ LoopFree(n) /\ m \in net /\ m.to = n
                  /\ <<n, m.via>> \in readers

\* handleMessage drops the message while a process runs.
Drop(n, m) ==
  /\ Received(n, m) /\ Busy(n)
  /\ net' = net \ {m}
  /\ missed' = TRUE
  /\ UNCHANGED <<process, memberVars, streamVars, addVars>>

\* Mutant: the new peer may be this node.
JoinAnyone(n, m) ==
  /\ Received(n, m) /\ ~Busy(n) /\ m.kind = "joined"
  /\ net' = net \ {m}
  /\ process' = IF m.new \in PeersOf(n) THEN process
                ELSE [process EXCEPT ![n] =
                        [by |-> "loop", at |-> "connect", new |-> m.new]]
  /\ UNCHANGED <<memberVars, streamVars, addVars, missed>>

\* handleNewPeerJoinedMsg.
Join(n, m) ==
  /\ Received(n, m) /\ ~Busy(n) /\ m.kind = "joined"
  /\ net' = net \ {m}
  /\ process' = IF m.new \in PeersOf(n) \cup {n} THEN process
                ELSE [process EXCEPT ![n] =
                        [by |-> "loop", at |-> "connect", new |-> m.new]]
  /\ UNCHANGED <<memberVars, streamVars, addVars, missed>>

\* handlePartyId: the party is that of the peer's present object.
LearnParty(n, m) ==
  /\ Received(n, m) /\ ~Busy(n) /\ m.kind = "party"
  /\ net' = net \ {m}
  /\ party' = [party EXCEPT ![n] = @ \cup ({m.from} \cap PeersOf(n))]
  /\ UNCHANGED <<process, peers, readers, streamVars, addVars, missed>>

\* Mutant: the error of a reader deletes no peer.
ReadErrorIgnored(n, s) ==
  /\ LoopFree(n) /\ <<n, s>> \in readers /\ s \in closed
  /\ readers' = readers \ {<<n, s>>}
  /\ UNCHANGED <<process, peers, party, streamVars, addVars, net, missed>>

\* peerRErr: a reader has met the end of its stream, and ends.
ReadError(n, s) ==
  /\ LoopFree(n) /\ <<n, s>> \in readers /\ s \in closed
  /\ readers' = readers \ {<<n, s>>}
  /\ DeletePeer(n, OtherEnd(s, n))
  /\ UNCHANGED <<process, addVars, opened, pending, net, missed>>

\* peerWErr: a message could not be sent.
WriteError(n, m) ==
  /\ LoopFree(n) /\ m \in net /\ m.from = n /\ m.via \in closed
  /\ net' = net \ {m}
  /\ DeletePeer(n, m.to)
  /\ UNCHANGED <<process, readers, addVars, opened, pending, missed>>

\* A message that was written to a stream that breaks may be lost unnoticed.
Lose(m) ==
  /\ m \in net /\ m.via \in closed
  /\ net' = net \ {m}
  /\ UNCHANGED <<process, memberVars, streamVars, addVars, missed>>

\* BOUND: one stream breaks; others close when a peer is deleted.
Break(s) ==
  /\ "loss" \in Faults /\ closed = {} /\ s \in opened
  /\ closed' = closed \cup {s}
  /\ UNCHANGED <<process, memberVars, addVars, opened, pending, net, missed>>

-----------------------------------------------------------------------------
ProcessStep(n) == Connect(n) \/ ConnectFails(n) \/ Launch(n) \/ Leave(n)

LoopStep(n) ==
  \/ \E s \in Streams : Accept(n, s) \/ Refuse(n, s) \/ ReadError(n, s)
  \/ \E m \in net : \/ Drop(n, m) \/ Join(n, m) \/ LearnParty(n, m)
                    \/ WriteError(n, m)

Next ==
  \/ \E n \in Nodes : ProcessStep(n) \/ LoopStep(n)
  \/ \E a \in Adds : AddPeer(a[1], a[2])
  \/ \E m \in net : Lose(m)
  \/ \E s \in Streams : Break(s)

Spec == Init /\ [][Next]_vars

\* Every goroutine that can run runs, and what is lost is lost in the end.
Fairness ==
  /\ \A n \in Nodes : WF_vars(ProcessStep(n)) /\ WF_vars(LoopStep(n))
  /\ WF_vars(\E m \in net : Lose(m))

FairSpec == Spec /\ Fairness

-----------------------------------------------------------------------------
\* Nothing is under way: no process, no stream to accept, no message that
\* somebody will take and no error that has not been handled.
Quiet ==
  /\ \A n \in Nodes : ~Busy(n)
  /\ pending = {}
  /\ \A m \in net : <<m.to, m.via>> \notin readers /\ m.via \notin closed
  /\ \A r \in readers : r[2] \notin closed

\* When nodes are added one after the other and nobody had to refuse or drop
\* anything, the nodes that are connected form a full mesh: AddPeer,
\* handleNewConnection and handleNewPeerJoinedMsg together have told everybody of
\* everybody. When two calls overlap they may not: each of two connected nodes
\* that add a node makes the other connect to it, and nobody tells the two new
\* nodes of each other.
Mesh ==
  Settled /\ ~missed /\ ~overlapped /\ closed = {} =>
    \A p, q, r \in Nodes :
      q \in PeersOf(p) /\ r \in PeersOf(q) /\ p # r => r \in PeersOf(p)

\* When nothing was refused or dropped, two nodes are each other's peers or
\* neither is, though streams break and are closed by whoever deletes a peer.
\* A pair that opened a stream from both ends is different once one of them
\* breaks: the other stays open and read, but deletePeer has forgotten it.
Symmetric ==
  Quiet /\ ~missed =>
    \A p, q \in Nodes :
      closed = {} \/ ~({<<p, q>>, <<q, p>>} \subseteq opened) =>
        (q \in PeersOf(p) <=> p \in PeersOf(q))

\* At rest no node keeps a peer whose stream is closed: each object in
\* node.peers has a reader that reports its end.
NoDeadPeer ==
  Quiet => \A n \in Nodes, p \in Nodes : peers[n][p] \notin closed

\* At rest a node knows the party of each of its peers, also when a second
\* stream has replaced the peer's object, unless something was dropped.
PartyKnown ==
  Quiet /\ ~missed /\ closed = {} => \A n \in Nodes : party[n] = PeersOf(n)

\* The messages that nodes send because of each other's messages come to an
\* end.
Settles == <>[]Quiet
==============================================================================
