--------------------------- MODULE MembershipProofs ---------------------------
(***************************************************************************)
(* Theorems about Membership and their proofs: the types, that no dead     *)
(* peer is kept, that links have two sides, that parties are known, and    *)
(* that nodes added one after the other form a full mesh.                  *)
(***************************************************************************)
EXTENDS Membership, TLAPS

\* The two streams that can link two nodes.
Pair(p, q) == {<<p, q>>, <<q, p>>}

\* A process that connects has a node in view that is not a peer: until it has
\* added that one itself, no stream is accepted.
Toward(p, q) == process[p].at \in {"connect", "launch"} /\ process[p].new = q

ProcessShape ==
  \A n \in Nodes, q \in Nodes : Toward(n, q) =>
    /\ q # n /\ q \notin PeersOf(n)
    /\ process[n].at = "launch" => <<n, q>> \in opened /\ <<n, <<n, q>>>> \notin readers

StreamShape ==
  /\ \A r \in readers : r[2] \in opened /\ r[1] \in {r[2][1], r[2][2]}
  /\ \A s \in pending : <<s[2], s>> \notin readers
  /\ \A m \in net : m.via \in opened /\ m.via \in Pair(m.from, m.to)

\* The object of a peer has a stream between the two nodes, which is read.
ObjectRead ==
  \A n, p \in Nodes : p \in PeersOf(n) =>
    peers[n][p] \in Pair(n, p) /\ <<n, peers[n][p]>> \in readers

\* Unless a stream was refused, both ends read it or will.
StreamTaken ==
  ~missed => \A s \in opened \ closed :
    /\ <<s[1], s>> \in readers \/ (process[s[1]].at = "launch" /\ Toward(s[1], s[2]))
    /\ <<s[2], s>> \in readers \/ s \in pending

\* A stream that is open and read is that of a peer, unless deletePeer has
\* forgotten it because of the other stream of the pair.
ReaderHasPeer ==
  \A n \in Nodes, s \in Streams :
    /\ <<n, s>> \in readers /\ s \notin closed
    /\ closed = {} \/ ~(Pair(s[1], s[2]) \subseteq opened)
    => OtherEnd(s, n) \in PeersOf(n)

\* The party of a peer is known, or it is on its way or will be sent.
PartySent(p, s) == <<p, s>> \in readers => PartyMessage(p, s) \in net

PartyDue ==
  ~missed /\ closed = {} => \A n, p \in Nodes :
    /\ \A s \in opened \cap Pair(n, p) : <<n, s>> \notin readers => PartySent(p, s)
    /\ p \in PeersOf(n) \ party[n] => PartySent(p, peers[n][p])

-----------------------------------------------------------------------------
(* Two groups of nodes that meet: those that know the caller of AddPeer and  *)
(* those that know the node it adds, the hub.                                *)

Linked(p, q) == Pair(p, q) \cap opened # {}
Told(p, q) == \E m \in net : m.kind = "joined" /\ m.to = p /\ m.new = q

\* Two nodes are linked or will be.
Due(p, q) ==
  Linked(p, q) \/ Told(p, q) \/ Told(q, p) \/ Toward(p, q) \/ Toward(q, p)

Full(S) == \A p, q \in S : p # q => q \in PeersOf(p)

Opposite(p, q, G, H) == (p \in G /\ q \in H) \/ (p \in H /\ q \in G)

\* The other nodes are in full meshes that do not take part.
Apart(M) ==
  /\ \A p, q \in Nodes : q \in PeersOf(p) => (p \in M <=> q \in M)
  /\ \A p, q, r \in Nodes \ M :
       q \in PeersOf(p) /\ r \in PeersOf(q) /\ p # r => r \in PeersOf(p)

Meeting(G, H, hub) ==
  /\ G \cap H = {} /\ (G # {} => hub \in H)
  /\ Full(G) /\ Full(H) /\ Apart(G \cup H)
  /\ \A s \in pending : Opposite(s[1], s[2], G, H)
  /\ \A p, q \in Nodes : Toward(p, q) => Opposite(p, q, G, H)
  /\ \A p, q \in Nodes : Told(p, q) => {p, q} \subseteq G \cup H
  /\ \A g \in G : Due(g, hub)
     \* Whoever hears of a node of the first group heard it from one that has
     \* told the whole second group.
  /\ \A h \in H, g \in G : g \in PeersOf(h) \/ Told(h, g) \/ Toward(h, g) =>
       \A k \in H : Due(k, g)

Clean == ~missed /\ ~overlapped /\ closed = {}

MeetingInv ==
  Clean => \E G, H \in SUBSET Nodes, hub \in Nodes : Meeting(G, H, hub)

ShapeInv == TypeOK /\ ProcessShape /\ StreamShape /\ ObjectRead
MemberInv == ShapeInv /\ StreamTaken /\ ReaderHasPeer /\ PartyDue

-----------------------------------------------------------------------------
(* What a step does to the process of a node, to the entries of node.peers   *)
(* and to the goroutines that read.                                          *)

LEMMA PeersOfDef ==
  ASSUME NEW n \in Nodes, NEW p \in Nodes
  PROVE  /\ p \in PeersOf(n) <=> peers[n][p] # NoStream
         /\ (p \in PeersOf(n))' <=> peers'[n][p] # NoStream
BY DEF PeersOf

LEMMA NoStreamIsNone == NoStream \notin Streams
BY NoStreamAssumption DEF Streams

LEMMA PairStreams ==
  ASSUME NEW n \in Nodes, NEW p \in Nodes, n # p
  PROVE  /\ Pair(n, p) \subseteq Streams
         /\ \A s \in Pair(n, p) : OtherEnd(s, n) = p /\ OtherEnd(s, p) = n
BY DEF Pair, Streams, OtherEnd

LEMMA EndsOf ==
  ASSUME NEW s \in Streams, NEW n \in {s[1], s[2]}
  PROVE  /\ n \in Nodes /\ OtherEnd(s, n) \in Nodes \ {n}
         /\ s \in Pair(n, OtherEnd(s, n)) /\ s = <<s[1], s[2]>>
BY DEF Streams, OtherEnd, Pair

LEMMA Types ==
  ASSUME TypeOK
  PROVE  /\ process \in [Nodes -> Processes]
         /\ \A n \in Nodes : process[n].at \in {"idle", "connect", "launch", "leave"}
         /\ \A n \in Nodes : process[n].at # "idle" =>
              process[n].new \in Nodes /\ process[n].by \in {"api", "loop"}
         /\ \A n \in Nodes : process[n].at = "idle" <=> process[n] = Idle
BY DEF TypeOK, Processes, Idle

\* AddToPeers, entry by entry.
Added(n, s) ==
  /\ n \in {s[1], s[2]} /\ s \in opened /\ <<n, s>> \notin readers
  /\ AddToPeers(n, s)
  /\ PartyMessage(n, s) \in net' /\ net \subseteq net'
  /\ \/ /\ Launch(n) /\ process[n].at = "launch" /\ process[n].new = s[2]
        /\ s = <<n, s[2]>> /\ process' = [process EXCEPT ![n].at = "leave"]
     \/ Accept(n, s) /\ s = <<s[1], n>> /\ ~Busy(n) /\ UNCHANGED process

LEMMA AddedEntries ==
  ASSUME TypeOK, NEW n \in Nodes, NEW s \in Streams, Added(n, s)
  PROVE  LET p == OtherEnd(s, n)
         IN  /\ p \in Nodes \ {n} /\ s \in Pair(n, p)
             /\ peers' \in [Nodes -> [Nodes -> Streams \cup {NoStream}]]
             /\ peers'[n][p] = s
             /\ \A x, y \in Nodes : x # n \/ y # p => peers'[x][y] = peers[x][y]
             /\ party' \in [Nodes -> SUBSET Nodes] /\ party'[n] = party[n] \ {p}
             /\ \A x \in Nodes \ {n} : party'[x] = party[x]
             /\ readers' = readers \cup {<<n, s>>}
<1> DEFINE p == OtherEnd(s, n)
<1>1. p \in Nodes \ {n} /\ s \in Pair(n, p)
  BY EndsOf DEF Added
<1>2. /\ peers \in [Nodes -> [Nodes -> Streams \cup {NoStream}]]
      /\ party \in [Nodes -> SUBSET Nodes]
  BY DEF TypeOK
<1>3. /\ peers' = [peers EXCEPT ![n][p] = s]
      /\ party' = [party EXCEPT ![n] = party[n] \ {p}]
      /\ readers' = readers \cup {<<n, s>>}
  BY DEF Added, AddToPeers
<1> HIDE DEF p
<1>4. /\ peers' \in [Nodes -> [Nodes -> Streams \cup {NoStream}]]
      /\ peers'[n][p] = s
      /\ \A x, y \in Nodes : x # n \/ y # p => peers'[x][y] = peers[x][y]
  BY <1>1, <1>2, <1>3
<1>5. /\ party' \in [Nodes -> SUBSET Nodes] /\ party'[n] = party[n] \ {p}
      /\ \A x \in Nodes \ {n} : party'[x] = party[x]
  BY <1>1, <1>2, <1>3
<1> QED
  BY <1>1, <1>3, <1>4, <1>5 DEF p

\* deletePeer.
LEMMA DeletedEntries ==
  ASSUME TypeOK, NEW n \in Nodes, NEW p \in Nodes, DeletePeer(n, p)
  PROVE  /\ peers' \in [Nodes -> [Nodes -> Streams \cup {NoStream}]]
         /\ peers'[n][p] = NoStream
         /\ \A x, y \in Nodes : x # n \/ y # p => peers'[x][y] = peers[x][y]
         /\ party' \in [Nodes -> SUBSET Nodes] /\ party'[n] = party[n] \ {p}
         /\ \A x \in Nodes \ {n} : party'[x] = party[x]
         /\ closed' = closed \cup ({peers[n][p]} \ {NoStream})
<1>1. /\ peers \in [Nodes -> [Nodes -> Streams \cup {NoStream}]]
      /\ party \in [Nodes -> SUBSET Nodes]
  BY DEF TypeOK
<1>2. /\ peers' = [peers EXCEPT ![n][p] = NoStream]
      /\ party' = [party EXCEPT ![n] = party[n] \ {p}]
      /\ closed' = closed \cup ({peers[n][p]} \ {NoStream})
  BY DEF DeletePeer
<1>3. /\ peers' \in [Nodes -> [Nodes -> Streams \cup {NoStream}]]
      /\ peers'[n][p] = NoStream
      /\ \A x, y \in Nodes : x # n \/ y # p => peers'[x][y] = peers[x][y]
  BY <1>1, <1>2
<1>4. /\ party' \in [Nodes -> SUBSET Nodes] /\ party'[n] = party[n] \ {p}
      /\ \A x \in Nodes \ {n} : party'[x] = party[x]
  BY <1>1, <1>2
<1> QED
  BY <1>2, <1>3, <1>4

\* A process begins: a call of AddPeer or a NewPeerJoined message.
Begins(n, b, q) ==
  /\ ~Busy(n) /\ b \in {"api", "loop"} /\ q \in Nodes \ (PeersOf(n) \cup {n})
  /\ process' = [process EXCEPT ![n] = [by |-> b, at |-> "connect", new |-> q]]

LEMMA Beginning ==
  ASSUME TypeOK, NEW n \in Nodes, NEW b, NEW q, Begins(n, b, q)
  PROVE  /\ process' \in [Nodes -> Processes]
         /\ process'[n].at = "connect" /\ process'[n].new = q
         /\ \A x \in Nodes \ {n} : process'[x] = process[x]
<1>1. [by |-> b, at |-> "connect", new |-> q] \in Processes
  BY DEF Begins, Processes
<1> QED
  BY <1>1, Types DEF Begins

\* A process goes on.
LEMMA GoingOn ==
  ASSUME TypeOK, NEW n \in Nodes, NEW a \in {"connect", "launch", "leave"},
         process[n].at # "idle", process' = [process EXCEPT ![n].at = a]
  PROVE  /\ process' \in [Nodes -> Processes]
         /\ process'[n].at = a /\ process'[n].new = process[n].new
         /\ \A x \in Nodes \ {n} : process'[x] = process[x]
<1>1. process[n] \in [by : {"api", "loop"}, at : {"connect", "launch", "leave"}, new : Nodes]
  BY Types DEF Processes, Idle
<1> DEFINE r == [process[n] EXCEPT !.at = a]
<1>2. r \in Processes /\ r.at = a /\ r.new = process[n].new
  BY <1>1 DEF Processes
<1>3. process' = [process EXCEPT ![n] = r]
  OBVIOUS
<1> HIDE DEF r
<1> QED
  BY <1>2, <1>3, Types

\* A process ends.
LEMMA Ending ==
  ASSUME TypeOK, NEW n \in Nodes, process' = [process EXCEPT ![n] = Idle]
  PROVE  /\ process' \in [Nodes -> Processes]
         /\ process'[n] = Idle /\ process'[n].at = "idle"
         /\ \A x \in Nodes \ {n} : process'[x] = process[x]
BY Types DEF Processes, Idle

\* What the two ways to add a peer have in common.
LEMMA LaunchAdds ==
  ASSUME ShapeInv, NEW n \in Nodes, Launch(n)
  PROVE  /\ process[n].new \in Nodes \ {n} /\ <<n, process[n].new>> \in Streams
         /\ Added(n, <<n, process[n].new>>)
<1>1. process[n].new \in Nodes /\ Toward(n, process[n].new)
  BY Types DEF ShapeInv, Launch, Toward
<1>2. /\ process[n].new # n /\ <<n, process[n].new>> \in opened
      /\ <<n, <<n, process[n].new>>>> \notin readers
  BY <1>1 DEF ShapeInv, ProcessShape, Launch
<1> QED
  BY <1>1, <1>2 DEF Streams, Launch, Added

LEMMA AcceptAdds ==
  ASSUME ShapeInv, NEW n \in Nodes, NEW s \in Streams, Accept(n, s)
  PROVE  Added(n, s) /\ s = <<s[1], n>>
<1>1. s \in opened /\ <<n, s>> \notin readers /\ s[2] = n
  BY DEF ShapeInv, TypeOK, StreamShape, Accept
<1>2. s = <<s[1], n>>
  BY <1>1 DEF Streams
<1> QED
  BY <1>1, <1>2 DEF Accept, Added

-----------------------------------------------------------------------------
(* Types and shapes.                                                         *)

MemberType ==
  /\ peers \in [Nodes -> [Nodes -> Streams \cup {NoStream}]]
  /\ party \in [Nodes -> SUBSET Nodes]
  /\ \A n \in Nodes : n \notin PeersOf(n) /\ party[n] \subseteq PeersOf(n)
  /\ readers \subseteq Nodes \X Streams

LEMMA AddedType ==
  ASSUME TypeOK, NEW n \in Nodes, NEW s \in Streams, Added(n, s)
  PROVE  MemberType'
<1> DEFINE p == OtherEnd(s, n)
<1>1. /\ p \in Nodes \ {n}
      /\ peers' \in [Nodes -> [Nodes -> Streams \cup {NoStream}]]
      /\ peers'[n][p] = s
      /\ \A x, y \in Nodes : x # n \/ y # p => peers'[x][y] = peers[x][y]
      /\ party' \in [Nodes -> SUBSET Nodes] /\ party'[n] = party[n] \ {p}
      /\ \A x \in Nodes \ {n} : party'[x] = party[x]
      /\ readers' = readers \cup {<<n, s>>}
  BY AddedEntries
<1> HIDE DEF p
<1>2. \A x, y \in Nodes : y \in PeersOf(x)' <=> y \in PeersOf(x) \/ (x = n /\ y = p)
  BY <1>1, PeersOfDef, NoStreamIsNone
<1>3. \A x \in Nodes : x \notin PeersOf(x)' /\ party'[x] \subseteq PeersOf(x)'
  BY <1>1, <1>2 DEF TypeOK
<1>4. readers' \subseteq Nodes \X Streams
  BY <1>1 DEF TypeOK
<1> QED
  BY <1>1, <1>3, <1>4 DEF MemberType

LEMMA DeletedType ==
  ASSUME TypeOK, NEW n \in Nodes, NEW p \in Nodes, DeletePeer(n, p),
         readers' \subseteq readers
  PROVE  /\ MemberType'
         /\ \A x, y \in Nodes :
              y \in PeersOf(x)' <=> y \in PeersOf(x) /\ (x # n \/ y # p)
<1>1. /\ peers' \in [Nodes -> [Nodes -> Streams \cup {NoStream}]]
      /\ peers'[n][p] = NoStream
      /\ \A x, y \in Nodes : x # n \/ y # p => peers'[x][y] = peers[x][y]
      /\ party' \in [Nodes -> SUBSET Nodes] /\ party'[n] = party[n] \ {p}
      /\ \A x \in Nodes \ {n} : party'[x] = party[x]
  BY DeletedEntries
<1>2. \A x, y \in Nodes : y \in PeersOf(x)' <=> y \in PeersOf(x) /\ (x # n \/ y # p)
  BY <1>1, PeersOfDef
<1>3. \A x \in Nodes : x \notin PeersOf(x)' /\ party'[x] \subseteq PeersOf(x)'
  BY <1>1, <1>2 DEF TypeOK
<1>4. readers' \subseteq Nodes \X Streams
  BY DEF TypeOK
<1> QED
  BY <1>1, <1>2, <1>3, <1>4 DEF MemberType

LEMMA AddedPeers ==
  ASSUME TypeOK, NEW n \in Nodes, NEW s \in Streams, Added(n, s)
  PROVE  \A x, y \in Nodes :
           y \in PeersOf(x)' <=> y \in PeersOf(x) \/ (x = n /\ y = OtherEnd(s, n))
BY AddedEntries, PeersOfDef, NoStreamIsNone

\* The other steps leave node.peers and the readers as they are.
LEMMA SameType ==
  ASSUME TypeOK, UNCHANGED memberVars
  PROVE  /\ MemberType' /\ UNCHANGED <<peers, party, readers>>
         /\ \A n \in Nodes : PeersOf(n)' = PeersOf(n)
BY DEF TypeOK, memberVars, MemberType, PeersOf

LEMMA Joined ==
  ASSUME ShapeInv, NEW n \in Nodes, NEW q \in Nodes, NEW why \in Streams \cup {NoStream},
         NEW m \in JoinedMessages(n, q, why)
  PROVE  /\ m \in Messages /\ m.kind = "joined" /\ m.from = n /\ m.new = q
         /\ m.to \in PeersOf(n) /\ m.via \in Pair(n, m.to) /\ m.via \in opened
<1>1. PICK p \in PeersOf(n) : m = [kind |-> "joined", from |-> n, to |-> p,
                                   via |-> peers[n][p], new |-> q, cause |-> why]
  BY DEF JoinedMessages
<1>2. p \in Nodes /\ peers[n][p] \in Pair(n, p) /\ <<n, peers[n][p]>> \in readers
  BY <1>1 DEF ShapeInv, ObjectRead, PeersOf
<1>3. peers[n][p] \in opened
  BY <1>2 DEF ShapeInv, StreamShape
<1>4. opened \subseteq Streams
  BY DEF ShapeInv, TypeOK
<1> QED
  BY <1>1, <1>2, <1>3, <1>4 DEF Messages

LEMMA PartySentShape ==
  ASSUME ShapeInv, NEW n \in Nodes, NEW s \in Streams, Added(n, s)
  PROVE  LET m == PartyMessage(n, s)
         IN  /\ m \in Messages /\ m.kind = "party" /\ m.from = n
             /\ m.to = OtherEnd(s, n) /\ m.via = s /\ s \in opened
             /\ s \in Pair(n, m.to)
BY EndsOf DEF Added, PartyMessage, Messages

StreamType ==
  opened \subseteq Streams /\ pending \subseteq opened /\ closed \subseteq opened

LEMMA ReaderOpened ==
  ASSUME StreamShape, NEW n, NEW s, <<n, s>> \in readers
  PROVE  s \in opened /\ n \in {s[1], s[2]}
<1> DEFINE r == <<n, s>>
<1>1. r[2] \in opened /\ r[1] \in {r[2][1], r[2][2]}
  BY DEF StreamShape
<1> QED
  BY <1>1

LEMMA ObjectOpened ==
  ASSUME ShapeInv, NEW n \in Nodes, NEW p \in Nodes
  PROVE  peers[n][p] \in {NoStream} \cup opened
BY PeersOfDef, ReaderOpened DEF ShapeInv, ObjectRead

LEMMA TypeStep ==
  ASSUME ShapeInv, [Next]_vars
  PROVE  TypeOK'
<1> DEFINE Goal == /\ process' \in [Nodes -> Processes] /\ MemberType' /\ StreamType'
                   /\ called' \subseteq Adds /\ net' \subseteq Messages
                   /\ {overlapped', missed'} \subseteq BOOLEAN
<1>t. /\ TypeOK /\ process \in [Nodes -> Processes] /\ StreamType
      /\ called \subseteq Adds /\ net \subseteq Messages
      /\ {overlapped, missed} \subseteq BOOLEAN
  BY DEF ShapeInv, TypeOK, StreamType
<1>g. SUFFICES Goal
  BY DEF MemberType, StreamType, TypeOK
<1>1. ASSUME NEW n \in Nodes, NEW q \in Nodes, AddPeer(n, q)
      PROVE  Goal
  <2>1. CASE Busy(n) \/ q = n \/ q \in PeersOf(n)
    BY <1>t, <1>1, <2>1, SameType DEF AddPeer, StreamType, streamVars
  <2>2. CASE ~(Busy(n) \/ q = n \/ q \in PeersOf(n))
    <3>1. /\ Begins(n, "api", q) /\ net' = net \cup JoinedMessages(n, q, NoStream)
          /\ UNCHANGED <<memberVars, streamVars, missed>>
          /\ called' = called \cup {<<n, q>>} /\ <<n, q>> \in Adds
          /\ overlapped' = (overlapped \/ ~Settled)
      BY <1>1, <2>2 DEF AddPeer, Begins
    <3>2. net' \subseteq Messages
      BY <1>t, <3>1, Joined
    <3> QED
      BY <1>t, <3>1, <3>2, Beginning, SameType DEF StreamType, streamVars
  <2> QED
    BY <2>1, <2>2
<1>2. ASSUME NEW n \in Nodes, Connect(n)
      PROVE  Goal
  <2>1. /\ process[n].at = "connect" /\ process[n].new \in Nodes
        /\ Toward(n, process[n].new)
    BY <1>t, <1>2, Types DEF Connect, Toward
  <2>2. <<n, process[n].new>> \in Streams
    BY <2>1 DEF ShapeInv, ProcessShape, Streams
  <2>3. process' \in [Nodes -> Processes]
    BY <1>t, <1>2, <2>1, GoingOn DEF Connect
  <2> QED
    BY <1>t, <1>2, <2>2, <2>3, SameType DEF Connect, StreamType, addVars
<1>3. ASSUME NEW n \in Nodes, ConnectFails(n)
      PROVE  Goal
  BY <1>t, <1>3, Ending, SameType DEF ConnectFails, StreamType, streamVars, addVars
<1>4. ASSUME NEW n \in Nodes, Launch(n)
      PROVE  Goal
  <2> DEFINE s == <<n, process[n].new>>
  <2>1. /\ s \in Streams /\ Added(n, s) /\ process[n].at = "launch"
        /\ process' = [process EXCEPT ![n].at = "leave"]
        /\ UNCHANGED <<streamVars, addVars, missed>>
        /\ net' = net \cup {PartyMessage(n, s)}
    BY <1>4, LaunchAdds DEF Launch
  <2> HIDE DEF s
  <2>2. process' \in [Nodes -> Processes]
    BY <1>t, <2>1, GoingOn
  <2>3. MemberType'
    BY <1>t, <2>1, AddedType
  <2>4. net' \subseteq Messages
    BY <1>t, <2>1, PartySentShape
  <2> QED
    BY <1>t, <2>1, <2>2, <2>3, <2>4 DEF StreamType, streamVars, addVars
<1>5. ASSUME NEW n \in Nodes, Leave(n)
      PROVE  Goal
  BY <1>t, <1>5, Ending, SameType DEF Leave, StreamType, streamVars, addVars
<1>6. ASSUME NEW n \in Nodes, NEW s \in Streams, Accept(n, s)
      PROVE  Goal
  <2>1. /\ Added(n, s) /\ s[1] \in Nodes /\ UNCHANGED <<process, addVars, opened, closed, missed>>
        /\ pending' \subseteq pending
        /\ net' = net \cup JoinedMessages(n, s[1], s) \cup {PartyMessage(n, s)}
    BY <1>6, AcceptAdds DEF Accept, Streams
  <2>2. MemberType'
    BY <1>t, <2>1, AddedType
  <2>3. net' \subseteq Messages
    BY <1>t, <2>1, PartySentShape, Joined
  <2> QED
    BY <1>t, <2>1, <2>2, <2>3 DEF StreamType, addVars
<1>7. ASSUME NEW n \in Nodes, NEW s \in Streams, Refuse(n, s)
      PROVE  Goal
  BY <1>t, <1>7, SameType DEF Refuse, StreamType, addVars
<1>8. ASSUME NEW n \in Nodes, NEW s \in Streams, ReadError(n, s)
      PROVE  Goal
  <2>1. /\ OtherEnd(s, n) \in Nodes /\ DeletePeer(n, OtherEnd(s, n)) /\ readers' \subseteq readers
        /\ UNCHANGED <<process, addVars, opened, pending, net, missed>>
    BY <1>8, EndsOf DEF ReadError, ShapeInv, StreamShape
  <2>2. peers[n][OtherEnd(s, n)] \in {NoStream} \cup opened
    BY <2>1, ObjectOpened
  <2>3. closed' \subseteq opened
    BY <1>t, <2>1, <2>2 DEF DeletePeer, StreamType
  <2> QED
    BY <1>t, <2>1, <2>3, DeletedType DEF StreamType, addVars
<1>9. ASSUME NEW n \in Nodes, NEW m \in net, Drop(n, m)
      PROVE  Goal
  BY <1>t, <1>9, SameType DEF Drop, StreamType, streamVars, addVars
<1>10. ASSUME NEW n \in Nodes, NEW m \in net, Join(n, m)
       PROVE  Goal
  <2>1. /\ ~Busy(n) /\ net' \subseteq net /\ m.new \in Nodes
        /\ UNCHANGED <<memberVars, streamVars, addVars, missed>>
    BY <1>t, <1>10 DEF Join, Messages
  <2>2. UNCHANGED process \/ Begins(n, "loop", m.new)
    BY <1>10, <2>1 DEF Join, Begins
  <2>3. process' \in [Nodes -> Processes]
    BY <1>t, <2>2, Beginning
  <2> QED
    BY <1>t, <2>1, <2>3, SameType DEF StreamType, streamVars, addVars
<1>11. ASSUME NEW n \in Nodes, NEW m \in net, LearnParty(n, m)
       PROVE  Goal
  <2>1. /\ UNCHANGED <<process, peers, readers, streamVars, addVars, missed>>
        /\ net' \subseteq net
        /\ party' = [party EXCEPT ![n] = @ \cup ({m.from} \cap PeersOf(n))]
    BY <1>11 DEF LearnParty
  <2>2. \A x \in Nodes : PeersOf(x)' = PeersOf(x) /\ PeersOf(x) \subseteq Nodes
    BY <2>1 DEF PeersOf
  <2>3. MemberType'
    BY <2>1, <2>2 DEF ShapeInv, TypeOK, MemberType
  <2> QED
    BY <1>t, <2>1, <2>3 DEF StreamType, streamVars, addVars
<1>12. ASSUME NEW n \in Nodes, NEW m \in net, WriteError(n, m)
       PROVE  Goal
  <2>1. /\ m.to \in Nodes /\ DeletePeer(n, m.to) /\ net' \subseteq net
        /\ UNCHANGED <<process, readers, addVars, opened, pending, missed>>
    BY <1>t, <1>12 DEF WriteError, Messages
  <2>2. peers[n][m.to] \in {NoStream} \cup opened
    BY <2>1, ObjectOpened
  <2>3. closed' \subseteq opened
    BY <1>t, <2>1, <2>2 DEF DeletePeer, StreamType
  <2> QED
    BY <1>t, <2>1, <2>3, DeletedType DEF StreamType, addVars
<1>13. ASSUME NEW m \in net, Lose(m)
       PROVE  Goal
  BY <1>t, <1>13, SameType DEF Lose, StreamType, streamVars, addVars
<1>14. ASSUME NEW s \in Streams, Break(s)
       PROVE  Goal
  BY <1>t, <1>14, SameType DEF Break, StreamType, addVars
<1>15. ASSUME UNCHANGED vars
       PROVE  Goal
  BY <1>t, <1>15, SameType DEF vars, StreamType, memberVars
<1>16. \A a \in Adds : a[1] \in Nodes /\ a[2] \in Nodes
  BY AddsAssumption
<1> QED
  BY <1>1, <1>2, <1>3, <1>4, <1>5, <1>6, <1>7, <1>8, <1>9, <1>10, <1>11, <1>12,
     <1>13, <1>14, <1>15, <1>16 DEF Next, ProcessStep, LoopStep

\* What a step may do to node.peers and to the readers.
LEMMA MemberMoves ==
  ASSUME ShapeInv, [Next]_vars
  PROVE  \/ UNCHANGED <<peers, readers>>
         \/ \E n \in Nodes, s \in Streams : Added(n, s) \/ ReadError(n, s)
         \/ \E n \in Nodes, m \in net : WriteError(n, m)
<1>1. ASSUME NEW n \in Nodes, ProcessStep(n)
      PROVE  UNCHANGED <<peers, readers>> \/ \E s \in Streams : Added(n, s)
  BY <1>1, LaunchAdds DEF ProcessStep, Connect, ConnectFails, Leave, memberVars
<1>2. ASSUME NEW n \in Nodes, NEW s \in Streams, Accept(n, s) \/ Refuse(n, s)
      PROVE  UNCHANGED <<peers, readers>> \/ Added(n, s)
  BY <1>2, AcceptAdds DEF Refuse, memberVars
<1>3. ASSUME NEW n \in Nodes, NEW m \in net, Drop(n, m) \/ Join(n, m) \/ LearnParty(n, m)
      PROVE  UNCHANGED <<peers, readers>>
  BY <1>3 DEF Drop, Join, LearnParty, memberVars
<1>4. ASSUME NEW n \in Nodes, NEW q \in Nodes, AddPeer(n, q)
      PROVE  UNCHANGED <<peers, readers>>
  BY <1>4 DEF AddPeer, memberVars
<1>5. ASSUME \/ \E m \in net : Lose(m)
             \/ \E s \in Streams : Break(s)
             \/ UNCHANGED vars
      PROVE  UNCHANGED <<peers, readers>>
  BY <1>5 DEF Lose, Break, vars, memberVars
<1>6. \A a \in Adds : a[1] \in Nodes /\ a[2] \in Nodes
  BY AddsAssumption
<1> QED
  BY <1>1, <1>2, <1>3, <1>4, <1>5, <1>6 DEF Next, LoopStep

\* What a step may do to the process of a node.
LEMMA ProcessMoves ==
  ASSUME ShapeInv, [Next]_vars, NEW n \in Nodes
  PROVE  \/ process'[n] = process[n] /\ ~Launch(n) /\ ~Connect(n)
         \/ /\ \E b, q : Begins(n, b, q)
            /\ UNCHANGED <<peers, readers, streamVars>>
         \/ Connect(n)
         \/ process'[n].at \in {"idle", "leave"}
<1>t. TypeOK
  BY DEF ShapeInv
<1>1. ASSUME NEW x \in Nodes, NEW q \in Nodes, AddPeer(x, q)
      PROVE  \/ UNCHANGED process
             \/ Begins(x, "api", q) /\ UNCHANGED <<peers, readers, streamVars>>
  BY <1>1 DEF AddPeer, Begins, memberVars
<1>2. ASSUME NEW x \in Nodes, NEW m \in net, Join(x, m)
      PROVE  \/ UNCHANGED process
             \/ Begins(x, "loop", m.new) /\ UNCHANGED <<peers, readers, streamVars>>
  BY <1>t, <1>2 DEF Join, Begins, memberVars, TypeOK, Messages
<1>3. ASSUME NEW x \in Nodes, NEW b, NEW q, Begins(x, b, q), UNCHANGED <<peers, readers, streamVars>>
      PROVE  \/ process'[n] = process[n]
             \/ (\E c, r : Begins(n, c, r)) /\ UNCHANGED <<peers, readers, streamVars>>
  BY <1>t, <1>3, Beginning
<1>4. ASSUME NEW x \in Nodes, Connect(x) \/ Launch(x)
      PROVE  \/ process'[n] = process[n]
             \/ Connect(n)
             \/ process'[n].at = "leave"
  BY <1>t, <1>4, GoingOn DEF Connect, Launch
<1>5. ASSUME NEW x \in Nodes, ConnectFails(x) \/ Leave(x)
      PROVE  process'[n] = process[n] \/ process'[n].at = "idle"
  BY <1>t, <1>5, Ending DEF ConnectFails, Leave
<1>6. ASSUME NEW x \in Nodes, NEW s \in Streams, Accept(x, s) \/ Refuse(x, s) \/ ReadError(x, s)
      PROVE  process'[n] = process[n]
  BY <1>6 DEF Accept, Refuse, ReadError
<1>7. ASSUME NEW x \in Nodes, NEW m \in net, Drop(x, m) \/ LearnParty(x, m) \/ WriteError(x, m)
      PROVE  process'[n] = process[n]
  BY <1>7 DEF Drop, LearnParty, WriteError
<1>8. ASSUME \/ \E m \in net : Lose(m)
             \/ \E s \in Streams : Break(s)
             \/ UNCHANGED vars
      PROVE  process'[n] = process[n]
  BY <1>8 DEF Lose, Break, vars
<1>9. \A a \in Adds : a[1] \in Nodes /\ a[2] \in Nodes
  BY AddsAssumption
<1>10. \/ process'[n] = process[n]
       \/ (\E b, q : Begins(n, b, q)) /\ UNCHANGED <<peers, readers, streamVars>>
       \/ Connect(n)
       \/ process'[n].at \in {"idle", "leave"}
  BY <1>1, <1>2, <1>3, <1>4, <1>5, <1>6, <1>7, <1>8, <1>9 DEF Next, ProcessStep, LoopStep
<1>11. Launch(n) => process'[n].at = "leave"
  BY <1>t, GoingOn DEF Launch
<1> QED
  BY <1>10, <1>11

\* What only grows.
LEMMA Grows ==
  ASSUME ShapeInv, [Next]_vars
  PROVE  /\ opened \subseteq opened' /\ closed \subseteq closed' /\ (missed => missed')
         /\ (overlapped => overlapped')
<1>1. ASSUME NEW n \in Nodes, ProcessStep(n)
      PROVE  opened \subseteq opened' /\ UNCHANGED <<closed, overlapped>> /\ (missed => missed')
  BY <1>1 DEF ProcessStep, Connect, ConnectFails, Launch, Leave, streamVars, addVars
<1>2. ASSUME NEW n \in Nodes, LoopStep(n)
      PROVE  UNCHANGED <<opened, overlapped>> /\ closed \subseteq closed' /\ (missed => missed')
  <2>1. ASSUME NEW s \in Streams, Accept(n, s) \/ Refuse(n, s)
        PROVE  UNCHANGED <<opened, overlapped, closed>> /\ (missed => missed')
    BY <2>1 DEF Accept, Refuse, addVars
  <2>2. ASSUME NEW m \in net, Drop(n, m) \/ Join(n, m) \/ LearnParty(n, m)
        PROVE  UNCHANGED <<opened, overlapped, closed>> /\ (missed => missed')
    BY <2>2 DEF Drop, Join, LearnParty, addVars, streamVars
  <2>3. ASSUME \/ \E s \in Streams : ReadError(n, s)
               \/ \E m \in net : WriteError(n, m)
        PROVE  UNCHANGED <<opened, overlapped, missed>> /\ closed \subseteq closed'
    BY <2>3 DEF ReadError, WriteError, DeletePeer, addVars
  <2> QED
    BY <1>2, <2>1, <2>2, <2>3 DEF LoopStep
<1>3. ASSUME NEW a \in Adds, AddPeer(a[1], a[2])
      PROVE  UNCHANGED <<opened, closed, missed>> /\ (overlapped => overlapped')
  BY <1>3 DEF AddPeer, streamVars
<1>4. ASSUME \/ \E m \in net : Lose(m)
             \/ \E s \in Streams : Break(s)
             \/ UNCHANGED vars
      PROVE  UNCHANGED <<opened, overlapped, missed>> /\ closed \subseteq closed'
  BY <1>4 DEF Lose, Break, vars, streamVars, addVars
<1> QED
  BY <1>1, <1>2, <1>3, <1>4 DEF Next

\* A peer is new, or a stream is read for the first time, by one of the two ways
\* to add a peer.
LEMMA NewEntries ==
  ASSUME ShapeInv, [Next]_vars
  PROVE  /\ \A x, y \in Nodes : y \in PeersOf(x)' =>
              y \in PeersOf(x) \/ \E s \in Streams : Added(x, s) /\ y = OtherEnd(s, x)
         /\ \A r \in readers' : r \in readers \/
              \E x \in Nodes, s \in Streams : Added(x, s) /\ r = <<x, s>>
<1>t. TypeOK
  BY DEF ShapeInv
<1>1. CASE UNCHANGED <<peers, readers>>
  BY <1>1 DEF PeersOf
<1>2. ASSUME NEW n \in Nodes, NEW s \in Streams, Added(n, s)
      PROVE  /\ \A x, y \in Nodes : y \in PeersOf(x)' =>
                  y \in PeersOf(x) \/ (x = n /\ y = OtherEnd(s, n))
             /\ readers' = readers \cup {<<n, s>>}
  BY <1>t, <1>2, AddedPeers, AddedEntries
<1>3. ASSUME NEW n \in Nodes, NEW s \in Streams, ReadError(n, s)
      PROVE  /\ \A x, y \in Nodes : y \in PeersOf(x)' => y \in PeersOf(x)
             /\ readers' \subseteq readers
  <2>1. /\ OtherEnd(s, n) \in Nodes /\ DeletePeer(n, OtherEnd(s, n))
        /\ readers' \subseteq readers
    BY <1>3, EndsOf, ReaderOpened DEF ReadError, ShapeInv
  <2> QED
    BY <1>t, <2>1, DeletedType
<1>4. ASSUME NEW n \in Nodes, NEW m \in net, WriteError(n, m)
      PROVE  /\ \A x, y \in Nodes : y \in PeersOf(x)' => y \in PeersOf(x)
             /\ readers' = readers
  <2>1. m.to \in Nodes /\ DeletePeer(n, m.to) /\ readers' = readers
    BY <1>t, <1>4 DEF WriteError, TypeOK, Messages
  <2> QED
    BY <1>t, <2>1, DeletedType
<1> QED
  BY <1>1, <1>2, <1>3, <1>4, MemberMoves

LEMMA AddedLeaves ==
  ASSUME TypeOK, NEW n \in Nodes, NEW s \in Streams, Added(n, s)
  PROVE  process'[n].at \in {"idle", "leave"}
BY GoingOn DEF Added, Busy, Idle

LEMMA ProcessShapeStep ==
  ASSUME ShapeInv, [Next]_vars
  PROVE  ProcessShape'
<1>t. TypeOK /\ ProcessShape /\ TypeOK'
  BY TypeStep DEF ShapeInv
<1> SUFFICES ASSUME NEW n \in Nodes, NEW q \in Nodes, Toward(n, q)'
             PROVE  /\ q # n /\ q \notin PeersOf(n)'
                    /\ process'[n].at = "launch" =>
                         <<n, q>> \in opened' /\ <<n, <<n, q>>>> \notin readers'
  BY DEF ProcessShape
<1>1. /\ process'[n].at \in {"connect", "launch"} /\ process'[n].new = q
      /\ \A s \in Streams : ~Added(n, s)
  BY <1>t, AddedLeaves DEF Toward
<1>2. /\ q \in PeersOf(n)' => q \in PeersOf(n)
      /\ <<n, <<n, q>>>> \in readers' => <<n, <<n, q>>>> \in readers
  BY <1>1, NewEntries
<1>3. CASE process'[n] = process[n] /\ ~Launch(n) /\ ~Connect(n)
  BY <1>t, <1>1, <1>2, <1>3, Grows DEF Toward, ProcessShape
<1>4. CASE \E b, r : Begins(n, b, r)
  BY <1>t, <1>1, <1>2, <1>4, Beginning DEF Begins
<1>5. CASE Connect(n)
  <2>1. process'[n].new = process[n].new /\ Toward(n, q)
    BY <1>t, <1>1, <1>5, GoingOn DEF Connect, Toward
  <2>2. <<n, q>> \notin opened /\ <<n, q>> \in opened'
    BY <1>5, <2>1 DEF Toward, Connect
  <2>3. <<n, <<n, q>>>> \notin readers
    BY <1>5, <2>1, <2>2, ReaderOpened DEF ShapeInv
  <2> QED
    BY <1>t, <1>2, <2>1, <2>2, <2>3 DEF ProcessShape
<1> QED
  BY <1>1, <1>3, <1>4, <1>5, ProcessMoves

\* Who sends a message.
LEMMA NewMessages ==
  ASSUME ShapeInv, [Next]_vars, NEW m \in net', m \notin net
  PROVE  \/ \E n, q \in Nodes : /\ AddPeer(n, q) /\ Begins(n, "api", q)
                                /\ m \in JoinedMessages(n, q, NoStream)
         \/ \E n \in Nodes, s \in Streams :
              Accept(n, s) /\ m \in JoinedMessages(n, s[1], s)
         \/ \E n \in Nodes, s \in Streams : Added(n, s) /\ m = PartyMessage(n, s)
<1>1. ASSUME NEW n \in Nodes, NEW q \in Nodes, AddPeer(n, q)
      PROVE  /\ AddPeer(n, q) /\ Begins(n, "api", q)
             /\ m \in JoinedMessages(n, q, NoStream)
  BY <1>1 DEF AddPeer, Begins
<1>2. ASSUME NEW n \in Nodes, ProcessStep(n)
      PROVE  \E s \in Streams : Added(n, s) /\ m = PartyMessage(n, s)
  <2>1. Launch(n)
    BY <1>2 DEF ProcessStep, Connect, ConnectFails, Leave
  <2> QED
    BY <2>1, LaunchAdds DEF Launch
<1>3. ASSUME NEW n \in Nodes, NEW s \in Streams, Accept(n, s) \/ Refuse(n, s) \/ ReadError(n, s)
      PROVE  \/ Accept(n, s) /\ m \in JoinedMessages(n, s[1], s)
             \/ Added(n, s) /\ m = PartyMessage(n, s)
  <2>1. Accept(n, s)
    BY <1>3 DEF Refuse, ReadError
  <2> QED
    BY <2>1, AcceptAdds DEF Accept
<1>4. ASSUME NEW n \in Nodes, NEW w \in net,
             Drop(n, w) \/ Join(n, w) \/ LearnParty(n, w) \/ WriteError(n, w)
      PROVE  FALSE
  BY <1>4 DEF Drop, Join, LearnParty, WriteError
<1>5. ASSUME \/ \E w \in net : Lose(w)
             \/ \E s \in Streams : Break(s)
             \/ UNCHANGED vars
      PROVE  FALSE
  BY <1>5 DEF Lose, Break, vars
<1>6. \A a \in Adds : a[1] \in Nodes /\ a[2] \in Nodes
  BY AddsAssumption
<1> QED
  BY <1>1, <1>2, <1>3, <1>4, <1>5, <1>6 DEF Next, LoopStep

\* A stream waits from the time it is opened until it is accepted.
LEMMA PendingMoves ==
  ASSUME ShapeInv, [Next]_vars, NEW s \in Streams
  PROVE  /\ s \in pending' =>
              \/ s \in pending /\ ~Accept(s[2], s)
              \/ /\ s \notin opened /\ UNCHANGED readers
                 /\ \E n \in Nodes : Connect(n) /\ s = <<n, process[n].new>>
         /\ s \in pending => \/ s \in pending'
                             \/ missed'
                             \/ s[2] \in Nodes /\ Accept(s[2], s)
         /\ s \in opened' \ opened =>
              \E n \in Nodes : Connect(n) /\ s = <<n, process[n].new>> /\ s \in pending'
<1>1. ASSUME NEW n \in Nodes, Connect(n)
      PROVE  /\ pending' = pending \cup {<<n, process[n].new>>}
             /\ opened' = opened \cup {<<n, process[n].new>>}
             /\ <<n, process[n].new>> \notin opened
             /\ UNCHANGED readers
             /\ \A r \in Streams : ~Accept(r[2], r)
  <2>1. ASSUME NEW r \in Streams, Accept(r[2], r)
        PROVE  FALSE
    BY <1>1, <2>1 DEF Connect, Accept
  <2> QED
    BY <1>1, <2>1 DEF Connect, memberVars
<1>2. ASSUME NEW n \in Nodes, NEW r \in Streams, Accept(n, r)
      PROVE  n = r[2] /\ pending' = pending \ {r} /\ UNCHANGED opened
  BY <1>2 DEF Accept
<1>3. ASSUME NEW n \in Nodes, NEW r \in Streams, Refuse(n, r)
      PROVE  pending' = pending \ {r} /\ missed' /\ UNCHANGED opened
  BY <1>3 DEF Refuse
<1>4. ASSUME NEW n \in Nodes, ConnectFails(n) \/ Launch(n) \/ Leave(n)
      PROVE  UNCHANGED <<opened, pending>>
  BY <1>4 DEF ConnectFails, Launch, Leave, streamVars
<1>5. ASSUME NEW n \in Nodes, NEW m \in net,
             Drop(n, m) \/ Join(n, m) \/ LearnParty(n, m) \/ WriteError(n, m)
      PROVE  UNCHANGED <<opened, pending>>
  BY <1>5 DEF Drop, Join, LearnParty, WriteError, streamVars
<1>6. ASSUME NEW n \in Nodes, NEW r \in Streams, ReadError(n, r)
      PROVE  UNCHANGED <<opened, pending>>
  BY <1>6 DEF ReadError
<1>7. ASSUME \/ \E a \in Adds : AddPeer(a[1], a[2])
             \/ \E m \in net : Lose(m)
             \/ \E r \in Streams : Break(r)
             \/ UNCHANGED vars
      PROVE  UNCHANGED <<opened, pending>>
  BY <1>7 DEF AddPeer, Lose, Break, vars, streamVars
<1>8. UNCHANGED pending /\ s \in pending => ~Accept(s[2], s)
  BY DEF Accept
<1>9. pending \subseteq opened
  BY DEF ShapeInv, TypeOK
<1>10. ASSUME NEW n \in Nodes, NEW r \in Streams, Accept(n, r) \/ Refuse(n, r), Accept(s[2], s)
       PROVE  s = r \/ s \notin pending
  BY <1>2, <1>3, <1>10 DEF Accept
<1> QED
  BY ZenonT(30), <1>1, <1>2, <1>3, <1>4, <1>5, <1>6, <1>7, <1>8, <1>9, <1>10
     DEF Next, ProcessStep, LoopStep

LEMMA StreamShapeStep ==
  ASSUME ShapeInv, [Next]_vars
  PROVE  StreamShape'
<1>t. /\ TypeOK /\ StreamShape /\ TypeOK' /\ pending' \subseteq Streams
      /\ opened \subseteq opened'
  BY TypeStep, Grows DEF ShapeInv, TypeOK
<1>1. ASSUME NEW r \in readers'
      PROVE  r[2] \in opened' /\ r[1] \in {r[2][1], r[2][2]}
  <2>1. CASE r \in readers
    BY <1>t, <2>1 DEF StreamShape
  <2>2. ASSUME NEW n \in Nodes, NEW s \in Streams, Added(n, s), r = <<n, s>>
        PROVE  r[2] \in opened' /\ r[1] \in {r[2][1], r[2][2]}
    BY <1>t, <2>2 DEF Added
  <2> QED
    BY <2>1, <2>2, NewEntries
<1>2. ASSUME NEW s \in pending'
      PROVE  <<s[2], s>> \notin readers'
  <2>1. CASE s \in pending /\ ~Accept(s[2], s)
    <3>1. <<s[2], s>> \notin readers
      BY <1>t, <2>1 DEF StreamShape
    <3>2. ASSUME NEW x \in Nodes, NEW r \in Streams, Added(x, r), <<s[2], s>> = <<x, r>>
          PROVE  FALSE
      <4>1. x = s[2] /\ r = s /\ s[1] # s[2]
        BY <1>t, <3>2 DEF Streams
      <4>2. CASE s = <<x, s[2]>>
        BY <4>1, <4>2
      <4>3. CASE Accept(x, r)
        BY <2>1, <4>1, <4>3
      <4> QED
        BY <3>2, <4>1, <4>2, <4>3 DEF Added
    <3> QED
      BY <3>1, <3>2, NewEntries
  <2>2. CASE s \notin opened /\ UNCHANGED readers
    BY <2>2, ReaderOpened DEF ShapeInv
  <2> QED
    BY <1>t, <2>1, <2>2, PendingMoves
<1>3. ASSUME NEW m \in net'
      PROVE  m.via \in opened' /\ m.via \in Pair(m.from, m.to)
  <2>1. CASE m \in net
    BY <1>t, <2>1 DEF StreamShape
  <2>2. ASSUME NEW n \in Nodes, NEW q \in Nodes, NEW why \in Streams \cup {NoStream},
               m \in JoinedMessages(n, q, why)
        PROVE  m.via \in opened /\ m.via \in Pair(m.from, m.to)
    BY <2>2, Joined
  <2>3. ASSUME NEW n \in Nodes, NEW s \in Streams, Added(n, s), m = PartyMessage(n, s)
        PROVE  m.via \in opened /\ m.via \in Pair(m.from, m.to)
    BY <2>3, PartySentShape
  <2>4. \A s \in Streams : s[1] \in Nodes
    BY DEF Streams
  <2> QED
    BY <1>t, <2>1, <2>2, <2>3, <2>4, NewMessages
<1> QED
  BY <1>1, <1>2, <1>3 DEF StreamShape

LEMMA ObjectReadStep ==
  ASSUME ShapeInv, [Next]_vars
  PROVE  ObjectRead'
<1>t. TypeOK /\ ObjectRead
  BY DEF ShapeInv
<1> SUFFICES ASSUME NEW x \in Nodes, NEW y \in Nodes, y \in PeersOf(x)'
             PROVE  peers'[x][y] \in Pair(x, y) /\ <<x, peers'[x][y]>> \in readers'
  BY DEF ObjectRead, Pair
<1>1. CASE UNCHANGED <<peers, readers>>
  BY <1>t, <1>1 DEF ObjectRead, PeersOf
<1>2. ASSUME NEW n \in Nodes, NEW s \in Streams, Added(n, s)
      PROVE  peers'[x][y] \in Pair(x, y) /\ <<x, peers'[x][y]>> \in readers'
  <2>1. CASE x = n /\ y = OtherEnd(s, n)
    BY <1>t, <1>2, <2>1, AddedEntries
  <2>2. CASE ~(x = n /\ y = OtherEnd(s, n))
    BY <1>t, <1>2, <2>2, AddedEntries, AddedPeers DEF ObjectRead
  <2> QED
    BY <2>1, <2>2
<1>3. ASSUME NEW n \in Nodes, NEW s \in Streams, ReadError(n, s)
      PROVE  peers'[x][y] \in Pair(x, y) /\ <<x, peers'[x][y]>> \in readers'
  <2> DEFINE p == OtherEnd(s, n)
  <2>1. /\ n \in {s[1], s[2]} /\ readers' = readers \ {<<n, s>>} /\ DeletePeer(n, p)
    BY <1>3, ReaderOpened DEF ReadError, ShapeInv
  <2>2. p \in Nodes /\ p # n /\ \A q \in Nodes : q # n /\ s \in Pair(n, q) => q = p
    BY <2>1, EndsOf, PairStreams
  <2>3. (x # n \/ y # p) /\ peers'[x][y] = peers[x][y] /\ y \in PeersOf(x)
    BY <1>t, <2>1, <2>2, DeletedEntries, DeletedType
  <2>4. peers[x][y] \in Pair(x, y) /\ <<x, peers[x][y]>> \in readers /\ y # x
    BY <1>t, <2>3 DEF ObjectRead, TypeOK
  <2>5. <<x, peers[x][y]>> # <<n, s>>
    BY <2>2, <2>3, <2>4
  <2> QED
    BY <2>1, <2>3, <2>4, <2>5
<1>4. ASSUME NEW n \in Nodes, NEW m \in net, WriteError(n, m)
      PROVE  peers'[x][y] \in Pair(x, y) /\ <<x, peers'[x][y]>> \in readers'
  <2>1. m.to \in Nodes /\ DeletePeer(n, m.to) /\ readers' = readers
    BY <1>t, <1>4 DEF WriteError, TypeOK, Messages
  <2>2. peers'[x][y] = peers[x][y] /\ y \in PeersOf(x)
    BY <1>t, <2>1, DeletedEntries, DeletedType
  <2> QED
    BY <1>t, <2>1, <2>2 DEF ObjectRead
<1> QED
  BY <1>1, <1>2, <1>3, <1>4, MemberMoves

LEMMA ShapeInit == Init => ShapeInv
<1> SUFFICES ASSUME Init
             PROVE  ShapeInv
  OBVIOUS
<1>1. \A n \in Nodes : PeersOf(n) = {} /\ process[n].at = "idle"
  BY DEF Init, PeersOf, Idle
<1>2. process \in [Nodes -> Processes]
  BY DEF Init, Processes
<1>3. peers \in [Nodes -> [Nodes -> Streams \cup {NoStream}]]
  BY DEF Init
<1>4. TypeOK
  BY <1>1, <1>2, <1>3 DEF Init, TypeOK
<1>5. ProcessShape /\ StreamShape /\ ObjectRead
  BY <1>1 DEF Init, ProcessShape, StreamShape, ObjectRead, Toward
<1> QED
  BY <1>4, <1>5 DEF ShapeInv

LEMMA ShapeStep == ShapeInv /\ [Next]_vars => ShapeInv'
BY TypeStep, ProcessShapeStep, StreamShapeStep, ObjectReadStep DEF ShapeInv

LEMMA ShapeAlways == Spec => []ShapeInv
BY ShapeInit, ShapeStep, PTL DEF Spec

\* Whatever breaks and whatever is refused, no node has a stream to itself, makes
\* a peer of itself, holds the party of a node that is not a peer, or sends a
\* message on anything but a stream of its own.
THEOREM MemberTypeCorrect == Spec => []TypeOK
<1>1. ShapeInv => TypeOK
  BY DEF ShapeInv
<1> QED
  BY <1>1, ShapeAlways, PTL

\* At rest every peer object has a stream that is not closed: the goroutine that
\* reads it would have reported its end, and deletePeer would have removed it.
THEOREM DeadPeersDeleted == Spec => []NoDeadPeer
<1>1. ShapeInv => NoDeadPeer
  <2> SUFFICES ASSUME ShapeInv, Quiet, NEW n \in Nodes, NEW p \in Nodes,
                      peers[n][p] \in closed
               PROVE  FALSE
    BY DEF NoDeadPeer
  <2>1. peers[n][p] # NoStream
    BY NoStreamIsNone DEF ShapeInv, TypeOK
  <2>2. <<n, peers[n][p]>> \in readers
    BY <2>1, PeersOfDef DEF ShapeInv, ObjectRead
  <2> DEFINE r == <<n, peers[n][p]>>
  <2>3. r[2] \notin closed
    BY <2>2 DEF Quiet
  <2> QED
    BY <2>3
<1> QED
  BY <1>1, ShapeAlways, PTL

-----------------------------------------------------------------------------
(* Both ends of a stream take it, and read it until it is closed.            *)

\* A process only goes on by itself.
LEMMA BusyMoves ==
  ASSUME ShapeInv, [Next]_vars, NEW n \in Nodes, Busy(n)
  PROVE  process'[n] = process[n] \/ ProcessStep(n)
<1>t. TypeOK
  BY DEF ShapeInv
<1>1. ASSUME NEW x \in Nodes, ProcessStep(x)
      PROVE  process'[n] = process[n] \/ ProcessStep(n)
  <2>1. CASE x = n
    BY <1>1, <2>1
  <2>2. CASE x # n
    BY <1>t, <1>1, <2>2 DEF ProcessStep, Connect, ConnectFails, Launch, Leave, TypeOK
  <2> QED
    BY <2>1, <2>2
<1>2. ASSUME NEW x \in Nodes, NEW b, NEW q, Begins(x, b, q)
      PROVE  process'[n] = process[n]
  BY <1>t, <1>2, Beginning DEF Begins
<1>3. ASSUME NEW x \in Nodes, NEW q \in Nodes, AddPeer(x, q)
      PROVE  UNCHANGED process \/ Begins(x, "api", q)
  BY <1>3 DEF AddPeer, Begins
<1>4. ASSUME NEW x \in Nodes, NEW m \in net, Join(x, m)
      PROVE  UNCHANGED process \/ Begins(x, "loop", m.new)
  BY <1>t, <1>4 DEF Join, Begins, TypeOK, Messages
<1>5. ASSUME NEW x \in Nodes, NEW s \in Streams, Accept(x, s) \/ Refuse(x, s) \/ ReadError(x, s)
      PROVE  UNCHANGED process
  BY <1>5 DEF Accept, Refuse, ReadError
<1>6. ASSUME NEW x \in Nodes, NEW m \in net, Drop(x, m) \/ LearnParty(x, m) \/ WriteError(x, m)
      PROVE  UNCHANGED process
  BY <1>6 DEF Drop, LearnParty, WriteError
<1>7. ASSUME \/ \E m \in net : Lose(m)
             \/ \E s \in Streams : Break(s)
             \/ UNCHANGED vars
      PROVE  UNCHANGED process
  BY <1>7 DEF Lose, Break, vars
<1>8. \A a \in Adds : a[1] \in Nodes /\ a[2] \in Nodes
  BY AddsAssumption
<1> QED
  BY <1>1, <1>2, <1>3, <1>4, <1>5, <1>6, <1>7, <1>8 DEF Next, LoopStep

LEMMA LaunchMoves ==
  ASSUME ShapeInv, [Next]_vars, NEW n \in Nodes, process[n].at = "launch"
  PROVE  process'[n] = process[n] \/ Launch(n)
<1>1. Busy(n) /\ ~Connect(n) /\ ~ConnectFails(n) /\ ~Leave(n)
  BY DEF Busy, Idle, Connect, ConnectFails, Leave
<1> QED
  BY <1>1, BusyMoves DEF ProcessStep

LEMMA ReadersStay ==
  ASSUME ShapeInv, [Next]_vars, NEW n \in Nodes, NEW s \in Streams,
         <<n, s>> \in readers, s \notin closed
  PROVE  <<n, s>> \in readers'
<1>t. TypeOK
  BY DEF ShapeInv
<1>1. ASSUME NEW x \in Nodes, NEW r \in Streams, Added(x, r)
      PROVE  readers \subseteq readers'
  BY <1>t, <1>1, AddedEntries
<1>2. ASSUME NEW x \in Nodes, NEW r \in Streams, ReadError(x, r)
      PROVE  <<n, s>> \in readers'
  BY <1>2 DEF ReadError
<1>3. ASSUME NEW x \in Nodes, NEW m \in net, WriteError(x, m)
      PROVE  readers' = readers
  BY <1>3 DEF WriteError
<1> QED
  BY <1>1, <1>2, <1>3, MemberMoves

LEMMA StreamTakenStep ==
  ASSUME ShapeInv, StreamTaken, [Next]_vars
  PROVE  StreamTaken'
<1>t. TypeOK /\ TypeOK'
  BY TypeStep DEF ShapeInv
<1> SUFFICES ASSUME ~missed', NEW s \in opened', s \notin closed'
             PROVE  /\ \/ <<s[1], s>> \in readers'
                       \/ process'[s[1]].at = "launch" /\ Toward(s[1], s[2])'
                    /\ <<s[2], s>> \in readers' \/ s \in pending'
  BY DEF StreamTaken
<1>s. s \in Streams /\ s[1] \in Nodes /\ s[2] \in Nodes
  BY <1>t DEF TypeOK, Streams
<1>1. CASE s \notin opened
  <2>1. PICK n \in Nodes : Connect(n) /\ s = <<n, process[n].new>> /\ s \in pending'
    BY <1>s, <1>1, PendingMoves
  <2>2. process'[n].at = "launch" /\ process'[n].new = process[n].new
    BY <1>t, <2>1, GoingOn DEF Connect
  <2> QED
    BY <2>1, <2>2 DEF Toward
<1>2. CASE s \in opened
  <2>1. s \notin closed /\ ~missed
    BY Grows
  <2>2. ASSUME process[s[1]].at = "launch", Toward(s[1], s[2])
        PROVE  \/ <<s[1], s>> \in readers'
               \/ process'[s[1]].at = "launch" /\ Toward(s[1], s[2])'
    <3>1. CASE Launch(s[1])
      <4>1. s = <<s[1], process[s[1]].new>> /\ Added(s[1], s)
        BY <1>s, <2>2, <3>1, LaunchAdds DEF Toward, Streams
      <4> QED
        BY <1>t, <1>s, <4>1, AddedEntries
    <3>2. CASE process'[s[1]] = process[s[1]]
      BY <2>2, <3>2 DEF Toward
    <3> QED
      BY <1>s, <2>2, <3>1, <3>2, LaunchMoves
  <2>3. ASSUME s \in pending
        PROVE  <<s[2], s>> \in readers' \/ s \in pending'
    <3>1. ASSUME Accept(s[2], s)
          PROVE  <<s[2], s>> \in readers'
      BY <1>t, <1>s, <3>1, AcceptAdds, AddedEntries
    <3> QED
      BY <1>s, <2>3, <3>1, PendingMoves
  <2> QED
    BY <1>s, <1>2, <2>1, <2>2, <2>3, ReadersStay DEF StreamTaken
<1> QED
  BY <1>1, <1>2

LEMMA ReaderHasPeerStep ==
  ASSUME ShapeInv, ReaderHasPeer, [Next]_vars
  PROVE  ReaderHasPeer'
<1>t. TypeOK /\ TypeOK' /\ StreamShape /\ StreamShape'
  BY TypeStep, StreamShapeStep DEF ShapeInv
<1> SUFFICES ASSUME NEW x \in Nodes, NEW s \in Streams, <<x, s>> \in readers', s \notin closed',
                    closed' = {} \/ ~(Pair(s[1], s[2]) \subseteq opened')
             PROVE  OtherEnd(s, x) \in PeersOf(x)'
  BY DEF ReaderHasPeer, OtherEnd, Pair
<1> DEFINE y == OtherEnd(s, x)
<1>y. y \in Nodes /\ y # x /\ s \in Pair(x, y) /\ x \in {s[1], s[2]} /\ s \in opened'
  <2> DEFINE r == <<x, s>>
  <2>1. r[2] \in opened' /\ r[1] \in {r[2][1], r[2][2]}
    BY <1>t DEF StreamShape
  <2> QED
    BY <2>1, EndsOf
<1>c. s \notin closed /\ (closed = {} \/ ~(Pair(s[1], s[2]) \subseteq opened))
  BY Grows
<1>o. <<x, s>> \in readers => y \in PeersOf(x)
  BY <1>c DEF ReaderHasPeer
<1> HIDE DEF y
<1>1. CASE UNCHANGED <<peers, readers>>
  BY <1>1, <1>o DEF PeersOf, y
<1>2. ASSUME NEW n \in Nodes, NEW r \in Streams, Added(n, r)
      PROVE  y \in PeersOf(x)'
  BY <1>t, <1>2, <1>o, <1>y, AddedEntries, AddedPeers DEF y
\* A peer is deleted because of a closed stream: it is not this one, and no other
\* stream links the two.
<1>3. ASSUME NEW n \in Nodes, NEW p \in Nodes, NEW r \in Streams, DeletePeer(n, p),
             r \in closed, r \in Pair(n, p), n # p, readers' \subseteq readers
      PROVE  y \in PeersOf(x)'
  <2>1. y \in PeersOf(x)
    BY <1>3, <1>o
  <2>2. ~(x = n /\ y = p)
    <3>1. closed' # {} /\ r \in opened'
      BY <1>t, <1>3, Grows DEF TypeOK
    <3>2. ASSUME x = n, y = p
          PROVE  Pair(s[1], s[2]) \subseteq opened'
      BY <1>3, <1>y, <1>c, <3>1, <3>2 DEF Pair
    <3> QED
      BY <3>1, <3>2
  <2> QED
    BY <1>t, <1>3, <1>y, <2>1, <2>2, DeletedType
<1>4. ASSUME NEW n \in Nodes, NEW r \in Streams, ReadError(n, r)
      PROVE  y \in PeersOf(x)'
  <2>1. /\ n \in {r[1], r[2]} /\ r \in closed /\ readers' \subseteq readers
        /\ DeletePeer(n, OtherEnd(r, n))
    BY <1>t, <1>4, ReaderOpened DEF ReadError
  <2> QED
    BY <2>1, <1>3, EndsOf
<1>5. ASSUME NEW n \in Nodes, NEW m \in net, WriteError(n, m)
      PROVE  y \in PeersOf(x)'
  <2>1. /\ m.from = n /\ m.to \in Nodes /\ m.via \in closed /\ m.via \in Pair(n, m.to)
        /\ DeletePeer(n, m.to) /\ readers' = readers /\ m.via \in Streams
    BY <1>t, <1>5 DEF WriteError, TypeOK, Messages, StreamShape
  <2>2. n # m.to
    BY <2>1 DEF Pair, Streams
  <2> QED
    BY <2>1, <2>2, <1>3
<1> QED
  BY <1>1, <1>2, <1>4, <1>5, MemberMoves DEF y

LEMMA LinksAlways == Spec => [](ShapeInv /\ StreamTaken /\ ReaderHasPeer)
<1>1. Init => StreamTaken /\ ReaderHasPeer
  BY DEF Init, StreamTaken, ReaderHasPeer
<1> QED
  BY <1>1, ShapeInit, ShapeStep, StreamTakenStep, ReaderHasPeerStep, PTL DEF Spec

\* When nothing waits, a stream that is open is read at both ends.
LEMMA BothRead ==
  ASSUME ShapeInv, StreamTaken, ~missed, NEW s \in opened, s \notin closed,
         pending = {}, \A n \in Nodes : ~Busy(n)
  PROVE  <<s[1], s>> \in readers /\ <<s[2], s>> \in readers
<1>1. s[1] \in Nodes /\ s[2] \in Nodes
  BY DEF ShapeInv, TypeOK, Streams
<1>2. process[s[1]].at # "launch"
  BY <1>1 DEF Busy, Idle
<1> QED
  BY <1>1, <1>2 DEF StreamTaken

\* Unless a stream was refused or could not be opened, a link has two sides at
\* rest, whichever streams broke: each end reads a stream until it is closed, and
\* both ends delete the peer when they find it closed.
THEOREM LinksSymmetric == Spec => []Symmetric
<1>1. ShapeInv /\ StreamTaken /\ ReaderHasPeer => Symmetric
  <2> SUFFICES ASSUME ShapeInv, StreamTaken, ReaderHasPeer, Quiet, ~missed,
                      NEW p \in Nodes, NEW q \in Nodes,
                      closed = {} \/ ~({<<p, q>>, <<q, p>>} \subseteq opened),
                      q \in PeersOf(p)
               PROVE  p \in PeersOf(q)
    BY DEF Symmetric
  <2> DEFINE s == peers[p][q]
  <2>1. s \in Pair(p, q) /\ <<p, s>> \in readers /\ p # q
    BY DEF ShapeInv, ObjectRead, TypeOK
  <2>2. s \in opened /\ s \in Streams /\ s \notin closed
    <3> DEFINE r == <<p, s>>
    <3>1. r[2] \notin closed
      BY <2>1 DEF Quiet
    <3> QED
      BY <2>1, <3>1, ReaderOpened, PairStreams DEF ShapeInv
  <2>3. <<q, s>> \in readers
    BY <2>1, <2>2, BothRead DEF Pair, Quiet
  <2>4. OtherEnd(s, q) = p
    BY <2>1, PairStreams
  <2>5. Pair(s[1], s[2]) = {<<p, q>>, <<q, p>>}
    BY <2>1 DEF Pair
  <2> QED
    BY <2>2, <2>3, <2>4, <2>5 DEF ReaderHasPeer
<1> QED
  BY <1>1, LinksAlways, PTL

-----------------------------------------------------------------------------
(* The party of a peer is on its way.                                        *)

\* As long as no stream breaks, a message leaves the network only to be handled.
LEMMA MessagesStay ==
  ASSUME ShapeInv, [Next]_vars, closed = {}, ~missed', NEW m \in net
  PROVE  m \in net' \/ \E n \in Nodes : Join(n, m) \/ LearnParty(n, m)
<1>1. ASSUME NEW n \in Nodes, ProcessStep(n)
      PROVE  net \subseteq net'
  BY <1>1 DEF ProcessStep, Connect, ConnectFails, Launch, Leave
<1>2. ASSUME NEW n \in Nodes, NEW s \in Streams, Accept(n, s) \/ Refuse(n, s) \/ ReadError(n, s)
      PROVE  net \subseteq net'
  BY <1>2 DEF Accept, Refuse, ReadError
<1>3. ASSUME NEW n \in Nodes, NEW w \in net,
             Drop(n, w) \/ Join(n, w) \/ LearnParty(n, w) \/ WriteError(n, w)
      PROVE  net' = net \ {w} /\ (Join(n, w) \/ LearnParty(n, w))
  BY <1>3 DEF Drop, Join, LearnParty, WriteError
<1>4. ASSUME \/ \E a \in Adds : AddPeer(a[1], a[2])
             \/ \E w \in net : Lose(w)
             \/ \E s \in Streams : Break(s)
             \/ UNCHANGED vars
      PROVE  net \subseteq net'
  BY <1>4 DEF AddPeer, Lose, Break, vars
<1> QED
  BY <1>1, <1>2, <1>3, <1>4 DEF Next, LoopStep

LEMMA PartyMoves ==
  ASSUME ShapeInv, [Next]_vars
  PROVE  \/ UNCHANGED party
         \/ \E n \in Nodes, s \in Streams : Added(n, s) \/ ReadError(n, s)
         \/ \E n \in Nodes, m \in net : WriteError(n, m) \/ LearnParty(n, m)
<1>1. ASSUME NEW n \in Nodes, ProcessStep(n)
      PROVE  UNCHANGED party \/ \E s \in Streams : Added(n, s)
  BY <1>1, LaunchAdds DEF ProcessStep, Connect, ConnectFails, Leave, memberVars
<1>2. ASSUME NEW n \in Nodes, NEW s \in Streams, Accept(n, s) \/ Refuse(n, s)
      PROVE  UNCHANGED party \/ Added(n, s)
  BY <1>2, AcceptAdds DEF Refuse, memberVars
<1>3. ASSUME NEW n \in Nodes, NEW m \in net, Drop(n, m) \/ Join(n, m)
      PROVE  UNCHANGED party
  BY <1>3 DEF Drop, Join, memberVars
<1>4. ASSUME \/ \E a \in Adds : AddPeer(a[1], a[2])
             \/ \E m \in net : Lose(m)
             \/ \E s \in Streams : Break(s)
             \/ UNCHANGED vars
      PROVE  UNCHANGED party
  BY <1>4 DEF AddPeer, Lose, Break, vars, memberVars
<1> QED
  BY <1>1, <1>2, <1>3, <1>4 DEF Next, LoopStep

\* While no stream breaks, peers are only added.
LEMMA OnlyAdded ==
  ASSUME ShapeInv, [Next]_vars, closed = {}
  PROVE  /\ UNCHANGED <<peers, readers>> \/ \E n \in Nodes, s \in Streams : Added(n, s)
         /\ \/ UNCHANGED party
            \/ \E n \in Nodes, s \in Streams : Added(n, s)
            \/ \E n \in Nodes, m \in net : LearnParty(n, m)
<1>1. ASSUME NEW n \in Nodes, NEW s \in Streams, ReadError(n, s)
      PROVE  FALSE
  BY <1>1 DEF ReadError
<1>2. ASSUME NEW n \in Nodes, NEW m \in net, WriteError(n, m)
      PROVE  FALSE
  BY <1>2 DEF WriteError
<1> QED
  BY <1>1, <1>2, MemberMoves, PartyMoves

LEMMA LearnsParty ==
  ASSUME ShapeInv, NEW n \in Nodes, NEW m \in net, LearnParty(n, m)
  PROVE  /\ \A x \in Nodes : party[x] \subseteq party'[x]
         /\ m.to = n /\ <<n, m.via>> \in readers
         /\ m.from \in PeersOf(n) => m.from \in party'[n]
BY DEF LearnParty, Received, ShapeInv, TypeOK

LEMMA PartyStays ==
  ASSUME ShapeInv, [Next]_vars, closed = {}, ~missed',
         NEW n \in Nodes, NEW p \in Nodes, NEW s \in Pair(n, p), n # p,
         PartyMessage(p, s) \in net
  PROVE  \/ PartyMessage(p, s) \in net'
         \/ /\ LearnParty(n, PartyMessage(p, s)) /\ <<n, s>> \in readers
            /\ p \in PeersOf(n) => p \in party'[n]
<1> DEFINE m == PartyMessage(p, s)
<1>1. m.to = n /\ m.via = s /\ m.from = p /\ m.kind = "party"
  BY PairStreams DEF PartyMessage
<1>2. m \in net
  OBVIOUS
<1> HIDE DEF m
<1>3. ASSUME NEW x \in Nodes, Join(x, m)
      PROVE  FALSE
  BY <1>1, <1>3 DEF Join
<1>4. ASSUME NEW x \in Nodes, LearnParty(x, m)
      PROVE  /\ LearnParty(n, m) /\ <<n, s>> \in readers
             /\ p \in PeersOf(n) => p \in party'[n]
  BY <1>1, <1>2, <1>4, LearnsParty
<1>5. m \in net' \/ \E x \in Nodes : LearnParty(x, m)
  BY <1>2, <1>3, MessagesStay
<1> QED
  BY <1>4, <1>5 DEF m

LEMMA PartyDueStep ==
  ASSUME ShapeInv, PartyDue, [Next]_vars
  PROVE  PartyDue'
<1>t. TypeOK /\ TypeOK' /\ ObjectRead /\ ObjectRead'
  BY TypeStep, ObjectReadStep DEF ShapeInv
<1> SUFFICES ASSUME ~missed', closed' = {}, NEW n \in Nodes, NEW p \in Nodes
             PROVE  /\ \A s \in opened' \cap Pair(n, p) :
                         <<n, s>> \notin readers' => PartySent(p, s)'
                    /\ (p \in PeersOf(n) \ party[n] => PartySent(p, peers[n][p]))'
  BY DEF PartyDue, Pair, PartySent, PartyMessage, OtherEnd
<1>c. ~missed /\ closed = {}
  BY Grows
<1>d. /\ \A s \in opened \cap Pair(n, p) : <<n, s>> \notin readers => PartySent(p, s)
      /\ p \in PeersOf(n) \ party[n] => PartySent(p, peers[n][p])
  BY <1>c DEF PartyDue
<1>new. ASSUME NEW s \in Streams, <<p, s>> \in readers', <<p, s>> \notin readers
        PROVE  PartyMessage(p, s) \in net'
  <2>1. Added(p, s)
    BY <1>new, NewEntries
  <2> QED
    BY <2>1 DEF Added
<1>1. ASSUME NEW s \in opened' \cap Pair(n, p), <<n, s>> \notin readers', <<p, s>> \in readers'
      PROVE  PartyMessage(p, s) \in net'
  <2>s. s \in Streams /\ s \in Pair(n, p) /\ n # p
    BY <1>t DEF TypeOK, Pair, Streams
  <2>1. CASE s \notin opened
    <3>1. UNCHANGED readers
      BY <1>t, <2>s, <2>1, <1>1, PendingMoves DEF TypeOK
    <3> QED
      BY <1>1, <2>1, <3>1, ReaderOpened DEF ShapeInv
  <2>2. CASE s \in opened /\ <<p, s>> \in readers
    <3>1. <<n, s>> \notin readers
      BY <1>c, <1>1, <2>s, ReadersStay
    <3>2. PartyMessage(p, s) \in net
      BY <1>d, <2>s, <2>2, <3>1 DEF PartySent
    <3> QED
      BY <1>c, <2>s, <3>1, <3>2, PartyStays
  <2> QED
    BY <1>1, <1>new, <2>s, <2>1, <2>2
<1>2. ASSUME p \in PeersOf(n)', p \notin party'[n], <<p, peers'[n][p]>> \in readers'
      PROVE  PartyMessage(p, peers'[n][p]) \in net'
  <2> DEFINE s == peers'[n][p]
  <2>s. s \in Streams /\ s \in Pair(n, p) /\ n # p
    <3>1. n # p /\ s \in Pair(n, p)
      BY <1>t, <1>2 DEF TypeOK, ObjectRead
    <3> QED
      BY <3>1, PairStreams
  <2>1. CASE UNCHANGED <<peers, readers>>
    <3>1. p \in PeersOf(n) /\ s = peers[n][p] /\ <<p, s>> \in readers
      BY <1>2, <2>1 DEF PeersOf
    <3>2. p \notin party[n]
      <4>1. ASSUME NEW x \in Nodes, NEW r \in Streams, Added(x, r)
            PROVE  FALSE
        BY <1>t, <2>1, <4>1, AddedEntries DEF Added
      <4>2. UNCHANGED party \/ \E x \in Nodes, m \in net : LearnParty(x, m)
        BY <1>c, <4>1, OnlyAdded
      <4>3. party[n] \subseteq party'[n]
        BY <4>2, LearnsParty
      <4> QED
        BY <1>2, <4>3
    <3>3. PartyMessage(p, s) \in net
      BY <1>d, <3>1, <3>2 DEF PartySent
    <3> QED
      BY <1>c, <1>2, <2>s, <3>1, <3>3, PartyStays
  <2>2. ASSUME NEW x \in Nodes, NEW r \in Streams, Added(x, r)
        PROVE  PartyMessage(p, s) \in net'
    <3>1. CASE x = n /\ p = OtherEnd(r, n)
      <4>1. s = r /\ <<p, s>> # <<x, r>> /\ <<n, s>> \notin readers /\ s \in opened
        BY ZenonT(30), <1>t, <2>2, <2>s, <3>1, AddedEntries DEF Added
      <4>2. <<p, s>> \in readers /\ net \subseteq net'
        BY <1>t, <1>2, <2>2, <4>1, AddedEntries DEF Added
      <4> QED
        BY <1>d, <2>s, <4>1, <4>2 DEF PartySent
    <3>2. CASE ~(x = n /\ p = OtherEnd(r, n))
      <4>1. /\ p \in PeersOf(n) /\ s = peers[n][p] /\ net \subseteq net'
            /\ p \notin party[n]
        BY <1>t, <1>2, <2>2, <3>2, AddedEntries, AddedPeers DEF Added
      <4>2. CASE <<p, s>> \in readers
        BY <1>d, <4>1, <4>2 DEF PartySent
      <4> QED
        BY <1>2, <1>new, <2>s, <4>2
    <3> QED
      BY <3>1, <3>2
  <2> QED
    BY <1>c, <2>1, <2>2, OnlyAdded
<1> QED
  BY <1>1, <1>2 DEF PartySent

LEMMA PartyDueAlways == Spec => []PartyDue
<1>1. Init => PartyDue
  BY DEF Init, PartyDue, PeersOf, PartySent
<1> QED
  BY <1>1, ShapeAlways, PartyDueStep, PTL DEF Spec

\* At rest a node holds the party of each of its peers, also when a second stream
\* has replaced the peer's object: a node sends its party on each stream that it
\* takes, and the one that is sent on the stream of the present object is still on
\* its way or has been learnt.
THEOREM PartiesKnown == Spec => []PartyKnown
<1>1. ShapeInv /\ StreamTaken /\ PartyDue => PartyKnown
  <2> SUFFICES ASSUME ShapeInv, StreamTaken, PartyDue, Quiet, ~missed, closed = {},
                      NEW n \in Nodes, NEW p \in PeersOf(n), p \notin party[n]
               PROVE  FALSE
    BY DEF PartyKnown, ShapeInv, TypeOK
  <2> DEFINE s == peers[n][p]
             m == PartyMessage(p, s)
  <2>1. p \in Nodes /\ s \in Pair(n, p) /\ <<n, s>> \in readers /\ p # n
    BY DEF ShapeInv, ObjectRead, TypeOK, PeersOf
  <2>2. s \in opened
    BY <2>1, ReaderOpened DEF ShapeInv
  <2>3. <<p, s>> \in readers
    BY <2>1, <2>2, BothRead DEF Pair, Quiet
  <2>4. m \in net
    BY <2>1, <2>3 DEF PartyDue, PartySent
  <2>5. m.to = n /\ m.via = s
    BY <2>1, PairStreams DEF PartyMessage
  <2>6. <<m.to, m.via>> \notin readers
    BY <2>4 DEF Quiet
  <2> QED
    BY <2>1, <2>5, <2>6
<1> QED
  BY <1>1, LinksAlways, PartyDueAlways, PTL

-----------------------------------------------------------------------------
(* The mesh.                                                                 *)

LEMMA PeersLinked ==
  ASSUME ShapeInv, NEW p \in Nodes, NEW q \in Nodes, q \in PeersOf(p)
  PROVE  Linked(p, q) /\ Linked(q, p) /\ p # q
<1>1. /\ peers[p][q] \in Pair(p, q) /\ <<p, peers[p][q]>> \in readers
      /\ p # q
  BY DEF ShapeInv, ObjectRead, TypeOK
<1>2. peers[p][q] \in opened
  BY <1>1, ReaderOpened DEF ShapeInv
<1> QED
  BY <1>1, <1>2 DEF Linked, Pair

\* Nodes that are linked or will be stay so, unless something is refused,
\* dropped or fails.
LEMMA DueStays ==
  ASSUME ShapeInv, [Next]_vars, closed = {}, ~missed',
         NEW p \in Nodes, NEW q \in Nodes, p # q, Due(p, q)
  PROVE  Due(p, q)'
<1>t. TypeOK
  BY DEF ShapeInv
<1>1. ASSUME NEW x \in Nodes, NEW y \in Nodes, Linked(x, y)
      PROVE  Linked(x, y)'
  BY <1>1, Grows DEF Linked, Pair
<1>2. ASSUME NEW x \in Nodes, NEW y \in Nodes, x # y, Told(x, y)
      PROVE  Told(x, y)' \/ Toward(x, y)' \/ Linked(x, y)'
  <2>1. PICK m \in net : m.kind = "joined" /\ m.to = x /\ m.new = y
    BY <1>2 DEF Told
  <2>2. CASE m \in net'
    BY <2>1, <2>2 DEF Told
  <2>3. ASSUME NEW n \in Nodes, Join(n, m)
        PROVE  Told(x, y)' \/ Toward(x, y)' \/ Linked(x, y)'
    <3>1. n = x
      BY <2>1, <2>3 DEF Join, Received
    <3>2. CASE y \in PeersOf(x)
      BY <1>1, <3>2, PeersLinked
    <3>3. CASE y \notin PeersOf(x)
      <4>1. Begins(x, "loop", y)
        BY <1>2, <2>1, <2>3, <3>1, <3>3 DEF Join, Begins
      <4> QED
        BY <1>t, <4>1, Beginning DEF Toward
    <3> QED
      BY <3>2, <3>3
  <2>4. \A n \in Nodes : ~LearnParty(n, m)
    BY <2>1 DEF LearnParty
  <2> QED
    BY <2>2, <2>3, <2>4, MessagesStay
<1>3. ASSUME NEW x \in Nodes, NEW y \in Nodes, Toward(x, y)
      PROVE  Toward(x, y)' \/ Linked(x, y)'
  <2>1. CASE process'[x] = process[x]
    BY <1>3, <2>1 DEF Toward
  <2>2. CASE Connect(x)
    BY <1>t, <1>3, <2>2, GoingOn DEF Connect, Toward
  <2>3. CASE Launch(x)
    <3>1. <<x, y>> \in opened
      BY <1>3, <2>3 DEF ShapeInv, ProcessShape, Launch
    <3> QED
      BY <1>1, <3>1 DEF Linked, Pair
  <2>4. Busy(x) /\ ~ConnectFails(x) /\ ~Leave(x)
    BY <1>3 DEF Toward, Busy, Idle, ConnectFails, Leave
  <2> QED
    BY <2>1, <2>2, <2>3, <2>4, BusyMoves DEF ProcessStep
<1> QED
  BY <1>1, <1>2, <1>3 DEF Due, Linked, Pair

\* A call of AddPeer that is not refused.
Adding == \E n, q \in Nodes : AddPeer(n, q) /\ Begins(n, "api", q)

LEMMA NewToward ==
  ASSUME ShapeInv, [Next]_vars, ~Adding, NEW p \in Nodes, NEW q \in Nodes, Toward(p, q)'
  PROVE  Toward(p, q) \/ (Told(p, q) /\ q \notin PeersOf(p) /\ q # p)
<1>t. TypeOK
  BY DEF ShapeInv
<1>1. CASE process'[p] = process[p]
  BY <1>1 DEF Toward
<1>2. CASE Connect(p)
  BY <1>t, <1>2, GoingOn DEF Connect, Toward
<1>3. ASSUME NEW b, NEW r, Begins(p, b, r)
      PROVE  Told(p, q) /\ q \notin PeersOf(p) /\ q # p
  <2>1. q = r /\ ~Busy(p) /\ process'[p] # process[p]
    <3>1. process'[p].at = "connect" /\ process'[p].new = r
      BY <1>t, <1>3, Beginning
    <3>2. ~Busy(p) /\ process[p].at = "idle"
      BY <1>3 DEF Begins, Busy, Idle
    <3> QED
      BY <3>1, <3>2 DEF Toward
  <2>2. ASSUME NEW x \in Nodes, NEW m \in net, Join(x, m)
        PROVE  Told(p, q)
    <3>1. UNCHANGED process \/ Begins(x, "loop", m.new)
      BY <1>t, <2>2 DEF Join, Begins, TypeOK, Messages
    <3>2. x = p /\ m.new = q
      BY <1>t, <2>1, <3>1, Beginning DEF Toward
    <3> QED
      BY <2>2, <3>2 DEF Join, Received, Told
  <2>3. ASSUME NEW x \in Nodes, ProcessStep(x)
        PROVE  FALSE
    <3>1. x # p
      BY <2>1, <2>3 DEF ProcessStep, Connect, ConnectFails, Launch, Leave, Busy, Idle
    <3> QED
      BY <1>t, <2>1, <2>3, <3>1 DEF ProcessStep, Connect, ConnectFails, Launch, Leave, TypeOK
  <2>4. ASSUME NEW x \in Nodes, NEW y \in Nodes, AddPeer(x, y)
        PROVE  FALSE
    <3>1. UNCHANGED process \/ Begins(x, "api", y)
      BY <2>4 DEF AddPeer, Begins
    <3> QED
      BY <2>1, <2>4, <3>1 DEF Adding
  <2>5. ASSUME NEW x \in Nodes, NEW s \in Streams, Accept(x, s) \/ Refuse(x, s) \/ ReadError(x, s)
        PROVE  FALSE
    BY <2>1, <2>5 DEF Accept, Refuse, ReadError
  <2>6. ASSUME NEW x \in Nodes, NEW m \in net, Drop(x, m) \/ LearnParty(x, m) \/ WriteError(x, m)
        PROVE  FALSE
    BY <2>1, <2>6 DEF Drop, LearnParty, WriteError
  <2>7. ASSUME \/ \E m \in net : Lose(m)
               \/ \E s \in Streams : Break(s)
               \/ UNCHANGED vars
        PROVE  FALSE
    BY <2>1, <2>7 DEF Lose, Break, vars
  <2>8. \A a \in Adds : a[1] \in Nodes /\ a[2] \in Nodes
    BY AddsAssumption
  <2>9. Told(p, q)
    BY <2>2, <2>3, <2>4, <2>5, <2>6, <2>7, <2>8 DEF Next, LoopStep
  <2> QED
    BY <1>3, <2>1, <2>9 DEF Begins
<1> QED
  BY <1>1, <1>2, <1>3, ProcessMoves DEF Toward

LEMMA NewTold ==
  ASSUME ShapeInv, [Next]_vars, ~Adding, NEW p \in Nodes, NEW q \in Nodes, Told(p, q)'
  PROVE  \/ Told(p, q)
         \/ \E n \in Nodes, s \in Streams : Accept(n, s) /\ q = s[1] /\ p \in PeersOf(n)
<1>1. PICK m \in net' : m.kind = "joined" /\ m.to = p /\ m.new = q
  BY DEF Told
<1>2. CASE m \in net
  BY <1>1, <1>2 DEF Told
<1>3. ASSUME NEW n \in Nodes, NEW s \in Streams, Accept(n, s), m \in JoinedMessages(n, s[1], s)
      PROVE  Accept(n, s) /\ q = s[1] /\ p \in PeersOf(n)
  BY <1>1, <1>3, Joined DEF Streams
<1>4. ASSUME NEW n \in Nodes, NEW s \in Streams, m = PartyMessage(n, s)
      PROVE  FALSE
  BY <1>1, <1>4 DEF PartyMessage
<1> QED
  BY <1>2, <1>3, <1>4, NewMessages DEF Adding

\* The node that accepts one of the first group tells the whole second group.
LEMMA AcceptTells ==
  ASSUME ShapeInv, [Next]_vars, NEW H \in SUBSET Nodes, Full(H),
         NEW n \in H, NEW s \in Streams, Accept(n, s), NEW k \in H, k # s[1]
  PROVE  Due(k, s[1])'
<1>1. s[2] = n /\ s \in opened /\ s[1] \in Nodes
  BY DEF Accept, ShapeInv, TypeOK, Streams
<1>2. CASE k = n
  BY <1>1, <1>2, Grows DEF Due, Linked, Pair, Streams
<1>3. CASE k # n
  <2> DEFINE m == [kind |-> "joined", from |-> n, to |-> k, via |-> peers[n][k],
                   new |-> s[1], cause |-> s]
  <2>1. k \in PeersOf(n)
    BY <1>3 DEF Full
  <2>2. m \in JoinedMessages(n, s[1], s)
    BY <2>1 DEF JoinedMessages
  <2>3. m \in net' /\ m.kind = "joined" /\ m.to = k /\ m.new = s[1]
    BY <2>2 DEF Accept
  <2> HIDE DEF m
  <2> QED
    BY <2>3 DEF Due, Told
<1> QED
  BY <1>2, <1>3

\* A meeting goes on.
LEMMA MeetingGoesOn ==
  ASSUME ShapeInv, [Next]_vars, ~Adding, closed = {}, ~missed',
         NEW G \in SUBSET Nodes, NEW H \in SUBSET Nodes, NEW hub \in Nodes,
         Meeting(G, H, hub)
  PROVE  Meeting(G, H, hub)'
<1>t. TypeOK /\ TypeOK'
  BY TypeStep DEF ShapeInv
<1>m. /\ G \cap H = {} /\ (G # {} => hub \in H)
      /\ Full(G) /\ Full(H) /\ Apart(G \cup H)
      /\ \A s \in pending : Opposite(s[1], s[2], G, H)
      /\ \A p, q \in Nodes : Toward(p, q) => Opposite(p, q, G, H)
      /\ \A p, q \in Nodes : Told(p, q) => {p, q} \subseteq G \cup H
      /\ \A g \in G : Due(g, hub)
      /\ \A h \in H, g \in G : g \in PeersOf(h) \/ Told(h, g) \/ Toward(h, g) =>
           \A k \in H : Due(k, g)
  BY DEF Meeting
<1>1. \A x, y \in Nodes : y \in PeersOf(x) => y \in PeersOf(x)'
  <2>1. CASE UNCHANGED <<peers, readers>>
    BY <2>1 DEF PeersOf
  <2>2. ASSUME NEW n \in Nodes, NEW s \in Streams, Added(n, s)
        PROVE  \A x, y \in Nodes : y \in PeersOf(x) => y \in PeersOf(x)'
    BY <1>t, <2>2, AddedPeers
  <2> QED
    BY <2>1, <2>2, OnlyAdded
\* A new peer is on the other side.
<1>2. ASSUME NEW x \in Nodes, NEW y \in Nodes, y \in PeersOf(x)'
      PROVE  \/ y \in PeersOf(x)
             \/ /\ Opposite(x, y, G, H)
                /\ \/ Toward(x, y)
                   \/ \E s \in Streams : Accept(x, s) /\ y = s[1]
  <2>1. ASSUME NEW s \in Streams, Added(x, s), y = OtherEnd(s, x), Launch(x)
        PROVE  Toward(x, y)
    <3>1. s = <<x, s[2]>> /\ process[x].at = "launch" /\ process[x].new = s[2]
      BY <2>1 DEF Added, Accept, Busy, Idle, Launch
    <3> QED
      BY <2>1, <3>1 DEF Toward, OtherEnd
  <2>2. ASSUME NEW s \in Streams, Added(x, s), y = OtherEnd(s, x), Accept(x, s)
        PROVE  Opposite(x, y, G, H) /\ Accept(x, s) /\ y = s[1]
    BY <1>m, <2>2 DEF Accept, Opposite, OtherEnd, Streams
  <2> QED
    BY <1>m, <1>2, <2>1, <2>2, NewEntries DEF Added
<1>3. Full(G)' /\ Full(H)'
  BY <1>m, <1>1 DEF Full
<1>4. Apart(G \cup H)'
  <2>1. \A x, y \in Nodes : y \in PeersOf(x)' => y \in PeersOf(x) \/ {x, y} \subseteq G \cup H
    BY <1>2 DEF Opposite
  <2> QED
    BY <1>m, <1>1, <2>1 DEF Apart
<1>5. ASSUME NEW s \in pending'
      PROVE  Opposite(s[1], s[2], G, H)
  <2>1. s \in Streams
    BY <1>t DEF TypeOK
  <2>2. ASSUME NEW n \in Nodes, Connect(n), s = <<n, process[n].new>>
        PROVE  Opposite(s[1], s[2], G, H)
    BY <1>m, <1>t, <2>2, Types DEF Connect, Toward
  <2> QED
    BY <1>m, <2>1, <2>2, PendingMoves
<1>6. ASSUME NEW p \in Nodes, NEW q \in Nodes, Toward(p, q)'
      PROVE  Opposite(p, q, G, H)
  BY <1>m, <1>6, NewToward DEF Full, Opposite
<1>7. ASSUME NEW p \in Nodes, NEW q \in Nodes, Told(p, q)'
      PROVE  {p, q} \subseteq G \cup H
  <2>1. ASSUME NEW n \in Nodes, NEW s \in Streams, Accept(n, s), q = s[1], p \in PeersOf(n)
        PROVE  {p, q} \subseteq G \cup H
    <3>1. Opposite(q, n, G, H)
      BY <1>m, <2>1 DEF Accept
    <3> QED
      BY <1>m, <2>1, <3>1 DEF Opposite, Apart
  <2> QED
    BY <1>m, <1>7, <2>1, NewTold
<1>8. \A g \in G : Due(g, hub)'
  BY <1>m, DueStays
<1>9. ASSUME NEW h \in H, NEW g \in G, (g \in PeersOf(h) \/ Told(h, g) \/ Toward(h, g))',
             NEW k \in H
      PROVE  Due(k, g)'
  <2>1. CASE g \in PeersOf(h) \/ Told(h, g) \/ Toward(h, g)
    BY <1>m, <2>1, DueStays
  <2>2. ASSUME NEW n \in Nodes, NEW s \in Streams, Accept(n, s), g = s[1]
        PROVE  Due(k, g)'
    <3>1. n \in H /\ k # g
      BY <1>m, <2>2 DEF Accept, Opposite
    <3> QED
      BY <1>m, <2>2, <3>1, AcceptTells
  <2> QED
    BY <1>2, <1>9, <2>1, <2>2, NewTold, NewToward
<1> QED
  BY <1>m, <1>3, <1>4, <1>5, <1>6, <1>7, <1>8, <1>9 DEF Meeting

\* When nothing is under way, whoever is linked or was to be is a peer.
LEMMA SettledLinks ==
  ASSUME ShapeInv, StreamTaken, ReaderHasPeer, Settled, ~missed, closed = {},
         NEW p \in Nodes, NEW q \in Nodes, p # q, Due(p, q)
  PROVE  q \in PeersOf(p) /\ p \in PeersOf(q)
<1>1. ASSUME NEW x \in Nodes, NEW y \in Nodes
      PROVE  ~Toward(x, y) /\ ~Told(x, y)
  BY DEF Settled, Busy, Idle, Toward, Told
<1>2. PICK s \in Pair(p, q) \cap opened : TRUE
  BY <1>1 DEF Due, Linked, Pair
<1>3. <<p, s>> \in readers /\ <<q, s>> \in readers
  BY <1>2, BothRead DEF Settled, Pair
<1>4. s \in Streams /\ OtherEnd(s, p) = q /\ OtherEnd(s, q) = p
  BY <1>2, PairStreams
<1> QED
  BY <1>3, <1>4 DEF ReaderHasPeer

LEMMA SettledMesh ==
  ASSUME ShapeInv, StreamTaken, ReaderHasPeer, MeetingInv, Settled, Clean,
         NEW p \in Nodes, NEW q \in Nodes, NEW r \in Nodes,
         q \in PeersOf(p), r \in PeersOf(q), p # r
  PROVE  r \in PeersOf(p)
<1>1. PICK G \in SUBSET Nodes, H \in SUBSET Nodes, hub \in Nodes : Meeting(G, H, hub)
  BY DEF MeetingInv
<1>2. ASSUME NEW g \in G, NEW h \in H
      PROVE  g \in PeersOf(h) /\ h \in PeersOf(g)
  <2>1. g # hub /\ g # h /\ hub \in H /\ Due(g, hub)
    BY <1>1 DEF Meeting
  <2>2. g \in PeersOf(hub)
    BY <2>1, SettledLinks DEF Clean
  <2>3. Due(h, g)
    BY <1>1, <2>1, <2>2 DEF Meeting
  <2> QED
    BY <2>1, <2>3, SettledLinks DEF Clean
<1>3. CASE p \in G \cup H
  <2>1. r \in G \cup H
    BY <1>1, <1>3 DEF Meeting, Apart
  <2> QED
    BY <1>1, <1>2, <1>3, <2>1 DEF Meeting, Full
<1>4. CASE p \notin G \cup H
  BY <1>1, <1>4 DEF Meeting, Apart
<1> QED
  BY <1>3, <1>4

\* A meeting begins when nothing else is under way: the two groups are what the
\* caller and the node it adds are connected to.
LEMMA MeetingBegins ==
  ASSUME ShapeInv, StreamTaken, ReaderHasPeer, MeetingInv, Settled, Clean, [Next]_vars,
         NEW n \in Nodes, NEW q \in Nodes, AddPeer(n, q), Begins(n, "api", q),
         NEW G, NEW H, G = {n} \cup PeersOf(n), H = {q} \cup PeersOf(q)
  PROVE  Meeting(G, H, q)'
<1>t. TypeOK
  BY DEF ShapeInv
<1>p. /\ \A x \in Nodes : PeersOf(x)' = PeersOf(x) /\ PeersOf(x) \subseteq Nodes /\ x \notin PeersOf(x)
      /\ n # q /\ q \notin PeersOf(n) /\ UNCHANGED <<pending, opened>>
      /\ net' = net \cup JoinedMessages(n, q, NoStream)
  BY DEF AddPeer, Begins, memberVars, streamVars, PeersOf, Busy, ShapeInv, TypeOK
<1>s. \A x, y \in Nodes : y \in PeersOf(x) => x \in PeersOf(y)
  BY PeersLinked, SettledLinks DEF Clean, Due
<1>f. \A x, y, z \in Nodes : y \in PeersOf(x) /\ z \in PeersOf(y) /\ x # z => z \in PeersOf(x)
  BY SettledMesh
<1>1. G \cap H = {}
  BY <1>p, <1>s, <1>f
<1>2. Full(G)' /\ Full(H)'
  BY <1>p, <1>s, <1>f DEF Full
<1>3. Apart(G \cup H)'
  BY <1>p, <1>s, <1>f DEF Apart
<1>4. pending' = {}
  BY <1>p DEF Settled
<1>5. ASSUME NEW x \in Nodes, NEW y \in Nodes
      PROVE  Toward(x, y)' <=> x = n /\ y = q
  BY <1>t, Beginning DEF Settled, Busy, Idle, Toward
<1>6. ASSUME NEW x \in Nodes, NEW y \in Nodes
      PROVE  Told(x, y)' <=> x \in PeersOf(n) /\ y = q
  <2>1. ASSUME NEW m \in net', m.kind = "joined"
        PROVE  m.to \in PeersOf(n) /\ m.new = q
    <3>1. m \in JoinedMessages(n, q, NoStream)
      BY <1>p, <2>1 DEF Settled
    <3> QED
      BY <3>1, Joined
  <2>2. ASSUME x \in PeersOf(n)
        PROVE  Told(x, q)'
    <3> DEFINE m == [kind |-> "joined", from |-> n, to |-> x, via |-> peers[n][x],
                     new |-> q, cause |-> NoStream]
    <3>1. m \in net' /\ m.kind = "joined" /\ m.to = x /\ m.new = q
      BY <1>p, <2>2 DEF JoinedMessages
    <3> HIDE DEF m
    <3> QED
      BY <3>1 DEF Told
  <2> QED
    BY <2>1, <2>2 DEF Told
<1>7. \A g \in G : Due(g, q)'
  BY <1>p, <1>5, <1>6 DEF Due
<1>8. \A h \in H, g \in G : ~(g \in PeersOf(h) \/ Told(h, g) \/ Toward(h, g))'
  BY <1>p, <1>s, <1>f, <1>1, <1>5, <1>6
<1>9. /\ \A x, y \in Nodes : Toward(x, y)' => Opposite(x, y, G, H)
      /\ \A x, y \in Nodes : Told(x, y)' => {x, y} \subseteq G \cup H
  BY <1>5, <1>6 DEF Opposite
<1> QED
  BY <1>1, <1>2, <1>3, <1>4, <1>7, <1>8, <1>9 DEF Meeting

LEMMA MeetingStep ==
  ASSUME ShapeInv, StreamTaken, ReaderHasPeer, MeetingInv, [Next]_vars
  PROVE  MeetingInv'
<1> SUFFICES ASSUME Clean'
             PROVE  \E G, H \in SUBSET Nodes, hub \in Nodes : Meeting(G, H, hub)'
  BY DEF MeetingInv
<1>1. Clean /\ ~missed'
  BY Grows DEF Clean
<1>2. CASE ~Adding
  <2>1. PICK G \in SUBSET Nodes, H \in SUBSET Nodes, hub \in Nodes : Meeting(G, H, hub)
    BY <1>1 DEF MeetingInv
  <2> QED
    BY <1>1, <1>2, <2>1, MeetingGoesOn DEF Clean
<1>3. ASSUME NEW n \in Nodes, NEW q \in Nodes, AddPeer(n, q), Begins(n, "api", q)
      PROVE  \E G, H \in SUBSET Nodes, hub \in Nodes : Meeting(G, H, hub)'
  <2>1. Settled
    BY <1>1, <1>3 DEF AddPeer, Begins, Clean
  <2>2. PeersOf(n) \subseteq Nodes /\ PeersOf(q) \subseteq Nodes
    BY DEF PeersOf
  <2>3. PICK G \in SUBSET Nodes, H \in SUBSET Nodes :
          G = {n} \cup PeersOf(n) /\ H = {q} \cup PeersOf(q)
    BY <2>2
  <2>4. Meeting(G, H, q)'
    BY <1>1, <1>3, <2>1, <2>3, MeetingBegins
  <2> QED
    BY <2>4
<1> QED
  BY <1>2, <1>3 DEF Adding

\* At first nobody is connected: every node is a mesh of its own, and nothing
\* takes part in a meeting. (Without nodes there are no calls of AddPeer either.)
LEMMA MeetingInit ==
  ASSUME Init, Nodes # {}
  PROVE  MeetingInv
<1>1. PICK hub \in Nodes : TRUE
  OBVIOUS
<1>2. \A p, q \in Nodes : q \notin PeersOf(p) /\ ~Toward(p, q) /\ ~Told(p, q)
  BY DEF Init, PeersOf, Toward, Told, Idle
<1>3. Meeting({}, {}, hub)
  BY <1>2 DEF Init, Meeting, Full, Apart
<1> QED
  BY <1>1, <1>3 DEF MeetingInv

\* When nodes are added one after the other and nobody refuses, drops or fails,
\* the nodes that are connected form a full mesh whenever nothing is under way:
\* each node that the caller has told connects to the new one, and the new one
\* tells those that it knows before it adds it.
THEOREM MeshComplete == Spec => []Mesh
<1>1. CASE Nodes = {}
  <2>1. Nodes = {} => Mesh
    BY DEF Mesh
  <2>2. (Nodes = {}) => []Mesh
    BY <1>1, <2>1, PTL
  <2> QED
    BY <1>1, <2>2, PTL
<1>2. CASE Nodes # {}
  <2>1. Init => MeetingInv
    BY <1>2, MeetingInit
  <2>2. ShapeInv /\ StreamTaken /\ ReaderHasPeer /\ MeetingInv => Mesh
    BY SettledMesh DEF Mesh, Clean
  <2> QED
    BY <2>1, <2>2, MeetingStep, LinksAlways, PTL DEF Spec
<1> QED
  BY <1>1, <1>2
==============================================================================
