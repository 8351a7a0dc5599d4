---------------------------- MODULE PartiesProofs ----------------------------
(***************************************************************************)
(* Theorems about Parties and their proofs: the types; that a node marks   *)
(* no peer as having a share that did not take part in the operation that  *)
(* gave it one; that a marked peer has a PartyKey; and that at rest a node *)
(* knows the party its peers have now.                                     *)
(***************************************************************************)
EXTENDS Parties, TLAPS

KeyOps == KeyGens \cup Reshares

\* A PartyId message does not claim a share that its sender has not.
Truthful == \A m \in net : m.kind = "party" /\ m.party.shared => own[m.from].shared

\* While a key generation or a resharing runs at a node, its peers are parties of it.
PeersTakePart ==
  \A n \in Nodes, o \in KeyOps : proc[n] = o => PeersOf(n) \subseteq Members(list[o][n])

\* Who has sent its last messages is in the operation, or has left it.
SentInside ==
  \A o \in Ops, p \in Nodes :
    <<o, p>> \in sent => proc[p] = o \/ <<o, p>> \in ok \/ <<o, p>> \in failed

\* Who has ended a key generation or a resharing well has a share.
OkHasShare == \A o \in KeyOps, p \in Nodes : <<o, p>> \in ok => own[p].shared

MarkInv == Truthful /\ PeersTakePart /\ SentInside /\ OkHasShare /\ MarkedTookPart

\* A PartyId message has a PartyKey.
SentKnown == \A m \in net : m.kind = "party" => m.party.key # NoKey

\* While a key generation or a resharing runs at a node, it knows its peers' PartyKeys:
\* sortParties has seen them, and peers are launched and learned by an idle node.
KnownInside ==
  \A n \in Nodes, o \in KeyOps, p \in Nodes :
    proc[n] = o /\ p \in PeersOf(n) => known[n][p].key # NoKey

KnownInv == SentKnown /\ KnownInside /\ MarkedKnown

InFlight(p, n) == \E m \in net : m.kind = "party" /\ m.from = p /\ m.to = n

\* A PartyId message says what its sender is now: before it changes, its peers have
\* taken part in an operation with it, and have learned what it was.
SentCurrent ==
  \A m \in net : m.kind = "party" => m.party = own[m.from] /\ m.to \in PeersOf(m.from)

\* A PartyId message is on its way, or has been dropped, or the PartyKey is known.
KeyLearned ==
  \A n, p \in Nodes : n \in PeersOf(p) =>
    <<n, p>> \in dropped \/ InFlight(p, n) \/ (p \in PeersOf(n) /\ known[n][p].key = own[p].key)

\* A PartyKey on its way is not known yet, and has not been given to an operation.
KeyNew ==
  \A n, p \in Nodes : InFlight(p, n) =>
    /\ p \in PeersOf(n) => known[n][p].key # own[p].key
    /\ \A o \in KeyOps : p \in Members(list[o][n]) => list[o][n][p].key # own[p].key

\* The PartyKeys a node has are its peers' present or earlier ones, and come from nodes
\* that have launched it.
KeyOld ==
  \A n, p \in Nodes :
    /\ p \in PeersOf(n) /\ known[n][p].key # NoKey =>
         n \in PeersOf(p) /\ known[n][p].key <= own[p].key
    /\ \A o \in KeyOps : p \in Members(list[o][n]) =>
         /\ list[o][n][p].key \in Nat /\ list[o][n][p].key <= own[p].key
         /\ p # n => n \in PeersOf(p)

\* What a node drops comes from a peer, and its PartyKey stays while it is inside.
KeyHeld ==
  /\ \A n, p \in Nodes : <<n, p>> \in dropped => p \in PeersOf(n)
  /\ \A o \in KeyOps, p \in Nodes : proc[p] = o =>
       p \in Members(list[o][p]) /\ list[o][p][p].key = own[p].key

\* Who has sent its last messages has the same parties as the others, and who has
\* ended well has those of all; the parties are itself and its peers.
AgreeInv ==
  \A o \in KeyOps, n \in Nodes :
    /\ Members(list[o][n]) \subseteq PeersOf(n) \cup {n}
    /\ Entered(o, n) => n \in Members(list[o][n])
    /\ <<o, n>> \in sent => Entered(o, n) /\ \A p \in Members(list[o][n]) :
         /\ Members(list[o][p]) = Members(list[o][n])
         /\ \A q \in Members(list[o][n]) : list[o][p][q].key = list[o][n][q].key
    /\ <<o, n>> \in ok => <<o, n>> \in sent /\ \A p \in Members(list[o][n]) : <<o, p>> \in sent

\* Who has ended an operation has marked those that have not.
OthersMarked ==
  \A o \in KeyOps, n, p \in Nodes :
    <<o, n>> \in ok /\ p \in Members(list[o][n]) /\ p # n /\ proc[p] = o =>
      known[n][p].shared

\* A peer with a share is marked, or will be when a message arrives or an operation ends.
ShareLearned ==
  \A n, p \in Nodes :
    p \in PeersOf(n) /\ n \in PeersOf(p) /\ own[p].shared /\ ~known[n][p].shared =>
      \/ <<n, p>> \in dropped \/ InFlight(p, n) \/ Failed(n)
      \/ \E o \in KeyOps : proc[n] = o /\ p \in Members(list[o][n])

CurrentInv ==
  /\ SentCurrent /\ KeyLearned /\ KeyNew /\ KeyOld /\ KeyHeld
  /\ AgreeInv /\ OthersMarked /\ ShareLearned

-----------------------------------------------------------------------------
(* Types.                                                                    *)

LEMMA PartyTypes ==
  /\ Zero \in Party
  /\ \A r \in [key : Nat, shared : BOOLEAN] : r \in Party
BY DEF Zero, Party

LEMMA EnterTypes ==
  ASSUME TypeOK, NEW n \in Nodes, NEW o \in Ops, NEW parties \in Lists,
         Enter(n, o, parties), net' \subseteq Starts \cup SignStarts \cup PartyIds
  PROVE  TypeOK'
<1>1. CASE /\ proc' = [proc EXCEPT ![n] = o]
           /\ list' = [list EXCEPT ![o][n] = parties]
           /\ UNCHANGED panicked
  BY <1>1 DEF TypeOK, Enter
<1>2. CASE panicked' = panicked \cup {n} /\ UNCHANGED <<proc, list>>
  BY <1>2 DEF TypeOK, Enter
<1> QED
  BY <1>1, <1>2 DEF Enter

LEMMA MyListType ==
  ASSUME TypeOK, NEW n \in Nodes
  PROVE  MyList(n) \in Lists
<1>1. own[n] \in Party
  BY PartyTypes DEF TypeOK
<1>2. known[n] \in Lists
  BY DEF TypeOK
<1> QED
  BY <1>1, <1>2 DEF MyList, Lists

LEMMA DoTypes ==
  ASSUME TypeOK, NEW n \in Nodes, NEW o \in KeyOps, Do(n, o),
         net' \subseteq Starts \cup SignStarts \cup PartyIds
  PROVE  TypeOK'
<1>1. CASE Enter(n, o, MyList(n))
  BY <1>1, MyListType, EnterTypes DEF Ops, KeyOps
<1>2. CASE UNCHANGED <<own, known, proc, list, sent, ok, failed, dropped, panicked>>
  BY <1>2 DEF TypeOK
<1> QED
  BY <1>1, <1>2 DEF Do

LEMMA MarkTypes ==
  ASSUME TypeOK, NEW n \in Nodes, Mark(n)
  PROVE  /\ known' \in [Nodes -> Lists]
         /\ \A q \in Nodes : known'[q][q] = Absent
<1>1. \A p \in Nodes : known[n][p] # Absent => [known[n][p] EXCEPT !.shared = TRUE] \in Party
  <2> SUFFICES ASSUME NEW p \in Nodes, known[n][p] # Absent
               PROVE  [known[n][p] EXCEPT !.shared = TRUE] \in Party
    OBVIOUS
  <2>1. known[n][p] \in Party
    BY DEF TypeOK, Lists
  <2> QED
    BY <2>1 DEF Party
<1>2. known'[n] \in Lists /\ known'[n][n] = Absent
  BY <1>1 DEF TypeOK, Mark, Lists
<1> QED
  BY <1>2 DEF TypeOK, Mark

LEMMA ReceivedTypes ==
  ASSUME TypeOK, NEW n \in Nodes, NEW m \in net, Received(n, m)
  PROVE  /\ net' \subseteq Starts \cup SignStarts \cup PartyIds
         /\ m.from \in Nodes /\ m.to = n
         /\ m.kind = "party" => m.party \in Party
         /\ m.kind = "sign" => m.parties \in Lists
BY DEF TypeOK, Received, Starts, SignStarts, PartyIds

LEMMA TypeStep ==
  ASSUME TypeOK, [Next]_vars
  PROVE  TypeOK'
<1>1. CASE UNCHANGED vars
  BY <1>1 DEF TypeOK, vars
<1>2. ASSUME NEW n \in Nodes, NEW p \in Nodes, Launch(n, p)
      PROVE  TypeOK'
  <2>1. known' \in [Nodes -> Lists] /\ \A q \in Nodes : known'[q][q] = Absent
    BY <1>2, PartyTypes DEF TypeOK, Launch, Lists
  <2>2. MyParty(n, own[n], p) \in PartyIds
    BY PartyTypes DEF TypeOK, MyParty, PartyIds
  <2> QED
    BY <1>2, <2>1, <2>2 DEF TypeOK, Launch
<1>3. ASSUME NEW n \in Nodes, NEW m \in net, Drop(n, m)
      PROVE  TypeOK'
  BY <1>3, ReceivedTypes DEF TypeOK, Drop
<1>4. ASSUME NEW n \in Nodes, NEW m \in net, Learn(n, m)
      PROVE  TypeOK'
  <2>1. /\ m.from \in Nodes /\ m.party \in Party
        /\ net' \subseteq Starts \cup SignStarts \cup PartyIds
        /\ m.from # n
    BY <1>4, ReceivedTypes DEF Learn, Received, TypeOK
  <2>2. known' \in [Nodes -> Lists] /\ \A q \in Nodes : known'[q][q] = Absent
    BY <1>4, <2>1 DEF TypeOK, Learn, Lists
  <2> QED
    BY <1>4, <2>1, <2>2 DEF TypeOK, Learn
<1>5. ASSUME NEW n \in Nodes, NEW m \in net, HandleStart(n, m)
      PROVE  TypeOK'
  BY <1>5, ReceivedTypes, DoTypes DEF HandleStart, KeyOps
<1>6. ASSUME NEW n \in Nodes, NEW m \in net, HandleSign(n, m)
      PROVE  TypeOK'
  <2>1. m.parties \in Lists /\ net' \subseteq Starts \cup SignStarts \cup PartyIds
    BY <1>6, ReceivedTypes DEF HandleSign
  <2>2. CASE \E o \in Signs : Enter(n, o, m.parties)
    BY <2>1, <2>2, EnterTypes DEF Ops
  <2>3. CASE UNCHANGED <<own, known, proc, list, sent, ok, failed, dropped, panicked>>
    BY <2>1, <2>3 DEF TypeOK
  <2>4. CASE /\ panicked' = panicked \cup {n}
             /\ UNCHANGED <<own, known, proc, list, sent, ok, failed, dropped>>
    BY <2>1, <2>4 DEF TypeOK
  <2> QED
    BY <1>6, <2>2, <2>3, <2>4 DEF HandleSign
<1>7. ASSUME NEW n \in Nodes, NEW o \in Ops, Call(n, o)
      PROVE  TypeOK'
  <2>1. [kind : {Kind(o)}, from : {n}, to : PeersOf(n)] \subseteq Starts
    BY DEF Kind, PeersOf, Members, Starts
  <2> QED
    BY <1>7, <2>1, DoTypes DEF Call, KeyOps, TypeOK
<1>8. ASSUME NEW n \in Nodes, NEW o \in Ops, CallSign(n, o)
      PROVE  TypeOK'
  <2>1. PICK signers \in SUBSET PeersOf(n) :
          LET parties == [p \in Nodes |-> IF p \in signers \cup {n} THEN MyList(n)[p]
                                          ELSE Absent]
          IN  /\ net' = net \cup [kind : {"sign"}, from : {n}, to : signers,
                                  parties : {parties}]
              /\ Enter(n, o, parties)
    BY <1>8 DEF CallSign
  <2> DEFINE parties == [p \in Nodes |-> IF p \in signers \cup {n} THEN MyList(n)[p]
                                         ELSE Absent]
  <2>2. parties \in Lists
    BY MyListType DEF Lists
  <2>3. signers \subseteq Nodes
    BY DEF PeersOf, Members
  <2>4. [kind : {"sign"}, from : {n}, to : signers, parties : {parties}] \subseteq SignStarts
    BY <2>2, <2>3 DEF SignStarts
  <2> QED
    BY <2>1, <2>2, <2>4, EnterTypes DEF TypeOK
<1>9. ASSUME NEW n \in Nodes, NEW o \in Ops, SendLast(o, n) \/ Fail(o, n) \/ DoneSign(o, n)
      PROVE  TypeOK'
  BY <1>9 DEF TypeOK, SendLast, Fail, DoneSign, Ends
<1>10. ASSUME NEW n \in Nodes, NEW o \in Ops, DoneKeyGen(o, n)
       PROVE  TypeOK'
  <2>1. own' \in [Nodes -> [key : Nat, shared : BOOLEAN]]
    BY <1>10 DEF TypeOK, DoneKeyGen
  <2> QED
    BY <1>10, <2>1, MarkTypes DEF TypeOK, DoneKeyGen, Ends
<1>11. ASSUME NEW n \in Nodes, NEW o \in Ops, DoneReshare(o, n)
       PROVE  TypeOK'
  <2>1. own' \in [Nodes -> [key : Nat, shared : BOOLEAN]]
    BY <1>11 DEF TypeOK, DoneReshare
  <2>2. {MyParty(n, own'[n], p) : p \in PeersOf(n)} \subseteq PartyIds
    BY <2>1, PartyTypes DEF MyParty, PartyIds, PeersOf, Members
  <2>3. net' \subseteq Starts \cup SignStarts \cup PartyIds
    BY <1>11, <2>2 DEF TypeOK, DoneReshare
  <2>4. known' \in [Nodes -> Lists] /\ \A q \in Nodes : known'[q][q] = Absent
    BY <1>11, MarkTypes DEF DoneReshare
  <2>5. proc' \in [Nodes -> Ops \cup {NoOp}] /\ ok' \subseteq Ops \X Nodes
    BY <1>11 DEF TypeOK, DoneReshare, Ends
  <2> QED
    BY <1>11, <2>1, <2>3, <2>4, <2>5 DEF TypeOK, DoneReshare, Ends
<1> QED
  BY <1>1, <1>2, <1>3, <1>4, <1>5, <1>6, <1>7, <1>8, <1>9, <1>10, <1>11 DEF Next

LEMMA InitTypes == Init => TypeOK
<1> SUFFICES ASSUME Init PROVE TypeOK
  OBVIOUS
<1>1. own \in [Nodes -> [key : Nat, shared : BOOLEAN]]
  BY DEF Init
<1>2. \A p \in Nodes : own[p] \in Party
  BY <1>1, PartyTypes
<1>3. known \in [Nodes -> Lists] /\ \A n \in Nodes : known[n][n] = Absent
  BY <1>2 DEF Init, Lists
<1>4. list \in [Ops -> [Nodes -> Lists]]
  BY DEF Init, Lists, NoList
<1> QED
  BY <1>1, <1>3, <1>4 DEF Init, TypeOK

\* Every variable of the model keeps its type, and no node becomes its own peer.
THEOREM PartiesTypeCorrect == Spec => []TypeOK
BY InitTypes, TypeStep, PTL DEF Spec

-----------------------------------------------------------------------------
(* Who is marked.                                                            *)

\* What the steps that enter an operation, or refuse to, have in common.
Entering(n) ==
  /\ UNCHANGED <<own, known, sent, ok, failed, dropped>>
  /\ \A m \in net \cup net' : m.kind = "party" => m \in net /\ m \in net'
  /\ \/ UNCHANGED <<proc, list>>
     \/ \E o \in Ops, parties \in Lists :
          /\ proc[n] = NoOp /\ ~Entered(o, n)
          /\ o \in KeyOps => parties = MyList(n)
          /\ \A p \in Members(parties) : parties[p].key # NoKey
          /\ proc' = [proc EXCEPT ![n] = o]
          /\ list' = [list EXCEPT ![o][n] = parties]

LEMMA DoEnters ==
  ASSUME TypeOK, NEW n \in Nodes, NEW o \in KeyOps, Do(n, o), Idle(n),
         \A m \in net \cup net' : m.kind = "party" => m \in net /\ m \in net'
  PROVE  Entering(n)
<1>1. CASE Enter(n, o, MyList(n))
  BY <1>1, MyListType DEF Enter, Entering, Idle, Ops, KeyOps
<1>2. CASE UNCHANGED <<own, known, proc, list, sent, ok, failed, dropped, panicked>>
  BY <1>2 DEF Entering
<1> QED
  BY <1>1, <1>2 DEF Do

LEMMA StartEnters ==
  ASSUME TypeOK, NEW n \in Nodes, NEW m \in net, HandleStart(n, m)
  PROVE  Entering(n)
<1>1. \A l \in net \cup net' : l.kind = "party" => l \in net /\ l \in net'
  BY DEF HandleStart, Received, Kind
<1> QED
  BY <1>1, DoEnters DEF HandleStart, KeyOps

LEMMA CallEnters ==
  ASSUME TypeOK, NEW n \in Nodes, NEW o \in Ops, Call(n, o)
  PROVE  Entering(n)
<1>1. \A l \in net \cup net' : l.kind = "party" => l \in net /\ l \in net'
  BY DEF Call, Kind
<1> QED
  BY <1>1, DoEnters DEF Call, KeyOps

LEMMA SignEnters ==
  ASSUME TypeOK, NEW n \in Nodes, NEW m \in net, HandleSign(n, m)
  PROVE  Entering(n)
<1>1. \A l \in net \cup net' : l.kind = "party" => l \in net /\ l \in net'
  BY DEF HandleSign, Received
<1>2. m.parties \in Lists
  BY ReceivedTypes DEF HandleSign
<1>3. ASSUME NEW o \in Signs, Enter(n, o, m.parties)
      PROVE  Entering(n)
  BY <1>1, <1>2, <1>3, KindsAssumption DEF HandleSign, Enter, Entering, Idle, Ops, KeyOps
<1>4. CASE UNCHANGED <<own, known, proc, list, sent, ok, failed, dropped>>
  BY <1>1, <1>4 DEF Entering
<1> QED
  BY <1>3, <1>4 DEF HandleSign

LEMMA CallSignEnters ==
  ASSUME TypeOK, NEW n \in Nodes, NEW o \in Ops, CallSign(n, o)
  PROVE  Entering(n)
<1>1. PICK signers \in SUBSET PeersOf(n) :
        LET parties == [p \in Nodes |-> IF p \in signers \cup {n} THEN MyList(n)[p]
                                        ELSE Absent]
        IN  /\ net' = net \cup [kind : {"sign"}, from : {n}, to : signers,
                                parties : {parties}]
            /\ Enter(n, o, parties)
  BY DEF CallSign
<1> DEFINE parties == [p \in Nodes |-> IF p \in signers \cup {n} THEN MyList(n)[p]
                                       ELSE Absent]
<1>2. parties \in Lists
  BY MyListType DEF Lists
<1>3. \A l \in net \cup net' : l.kind = "party" => l \in net /\ l \in net'
  BY <1>1
<1> QED
  BY <1>1, <1>2, <1>3, KindsAssumption DEF CallSign, Enter, Entering, Idle, Ops, KeyOps

\* Entering an operation disturbs nothing: the parties of a key generation or a
\* resharing are the peers, and an operation that somebody has ended well was
\* entered before.
LEMMA EnteringKeeps ==
  ASSUME TypeOK, MarkInv, NEW n \in Nodes, Entering(n)
  PROVE  MarkInv'
<1>1. Truthful'
  BY DEF MarkInv, Truthful, Entering
<1>2. OkHasShare'
  BY DEF MarkInv, OkHasShare, Entering
<1>3. CASE UNCHANGED <<proc, list>>
  <2>1. PeersTakePart' /\ SentInside'
    BY <1>3 DEF MarkInv, Entering, PeersTakePart, SentInside, PeersOf, Members
  <2>2. MarkedTookPart'
    BY <1>3 DEF MarkInv, Entering, MarkedTookPart, PeersOf, Members
  <2> QED
    BY <1>1, <1>2, <2>1, <2>2 DEF MarkInv
<1>4. CASE ~UNCHANGED <<proc, list>>
  <2>1. PICK o \in Ops, parties \in Lists :
          /\ proc[n] = NoOp /\ ~Entered(o, n)
          /\ o \in KeyOps => parties = MyList(n)
          /\ \A p \in Members(parties) : parties[p].key # NoKey
          /\ proc' = [proc EXCEPT ![n] = o]
          /\ list' = [list EXCEPT ![o][n] = parties]
    BY <1>4 DEF Entering
  <2>2. /\ \A q \in Nodes : proc'[q] = IF q = n THEN o ELSE proc[q]
        /\ \A e \in Ops, q \in Nodes :
             list'[e][q] = IF e = o /\ q = n THEN parties ELSE list[e][q]
    BY <2>1 DEF TypeOK
  <2>3. PeersTakePart'
    <3> SUFFICES ASSUME NEW q \in Nodes, NEW e \in KeyOps, proc'[q] = e,
                        NEW p \in Nodes, known[q][p] # Absent
                 PROVE  list'[e][q][p] # Absent
      BY DEF PeersTakePart, PeersOf, Members, Entering
    <3>1. CASE q = n
      <4>1. e = o /\ list'[e][q] = MyList(n)
        BY <3>1, <2>1, <2>2 DEF KeyOps, Ops
      <4>2. p # n /\ known[n] \in Lists
        BY <3>1 DEF TypeOK
      <4> QED
        BY <4>1, <4>2, <3>1 DEF MyList, Lists
    <3>2. CASE q # n
      <4>1. proc[q] = e /\ list'[e][q] = list[e][q]
        BY <3>2, <2>2 DEF KeyOps, Ops
      <4> QED
        BY <4>1 DEF MarkInv, PeersTakePart, PeersOf, Members
    <3> QED
      BY <3>1, <3>2
  <2>4. SentInside'
    BY <2>1, <2>2, KindsAssumption DEF MarkInv, SentInside, Entering
  <2>5. MarkedTookPart'
    <3> SUFFICES ASSUME NEW q \in Nodes, NEW p \in PeersOf(q), known[q][p].shared,
                        ~own[p].shared
                 PROVE  \E e \in KeyOps : /\ <<e, q>> \in ok /\ p \in Members(list'[e][q])
                                          /\ proc'[p] = e \/ <<e, p>> \in failed
      BY DEF MarkedTookPart, Entering, KeyOps, PeersOf, Members
    <3>1. PICK e \in KeyOps : /\ <<e, q>> \in ok /\ p \in Members(list[e][q])
                              /\ proc[p] = e \/ <<e, p>> \in failed
      BY DEF MarkInv, MarkedTookPart, KeyOps
    <3>2. e \in Ops /\ p \in Nodes
      BY DEF KeyOps, Ops, PeersOf, Members
    <3>3. list'[e][q] = list[e][q]
      BY <3>1, <3>2, <2>1, <2>2 DEF Entered
    <3>4. proc[p] = e => proc'[p] = e
      BY <3>2, <2>1, <2>2, KindsAssumption
    <3> QED
      BY <3>1, <3>3, <3>4
  <2> QED
    BY <1>1, <1>2, <2>3, <2>4, <2>5 DEF MarkInv
<1> QED
  BY <1>3, <1>4

\* A peer that is launched is not marked, and its party says what its sender has.
LEMMA LaunchKeeps ==
  ASSUME TypeOK, MarkInv, NEW n \in Nodes, NEW p \in Nodes, Launch(n, p)
  PROVE  MarkInv'
<1>1. Truthful'
  BY DEF MarkInv, Truthful, Launch, MyParty
<1>2. known' = [known EXCEPT ![n][p] = Zero] /\ proc[n] = NoOp
  BY DEF Launch, Idle
<1>3. \A q, r \in Nodes : known'[q][r] = IF q = n /\ r = p THEN Zero ELSE known[q][r]
  BY <1>2 DEF TypeOK, Lists
<1>4. PeersTakePart'
  <2> SUFFICES ASSUME NEW q \in Nodes, NEW o \in KeyOps, proc[q] = o,
                      NEW r \in Nodes, known'[q][r] # Absent
               PROVE  r \in Members(list[o][q])
    BY DEF PeersTakePart, PeersOf, Members, Launch
  <2>1. q # n
    BY <1>2, KindsAssumption DEF KeyOps, Ops
  <2>2. known[q][r] # Absent
    BY <1>3, <2>1
  <2> QED
    BY <2>2 DEF MarkInv, PeersTakePart, PeersOf, Members
<1>5. SentInside' /\ OkHasShare'
  BY DEF MarkInv, SentInside, OkHasShare, Launch
<1>6. MarkedTookPart'
  <2> SUFFICES ASSUME NEW q \in Nodes, NEW r \in Nodes, known'[q][r] # Absent,
                      known'[q][r].shared, ~own[r].shared
               PROVE  \E o \in KeyOps : /\ <<o, q>> \in ok /\ r \in Members(list[o][q])
                                        /\ proc[r] = o \/ <<o, r>> \in failed
    BY DEF MarkedTookPart, PeersOf, Members, Launch, KeyOps
  <2>1. known'[q][r] = known[q][r]
    BY <1>3 DEF Zero
  <2> QED
    BY <2>1 DEF MarkInv, MarkedTookPart, PeersOf, Members, KeyOps
<1> QED
  BY <1>1, <1>4, <1>5, <1>6 DEF MarkInv

\* A PartyId message marks a peer that has a share.
LEMMA LearnKeeps ==
  ASSUME TypeOK, MarkInv, NEW n \in Nodes, NEW m \in net, Learn(n, m)
  PROVE  MarkInv'
<1>1. Truthful'
  BY DEF MarkInv, Truthful, Learn, Received
<1>2. /\ known' = [known EXCEPT ![n][m.from] = m.party] /\ proc[n] = NoOp
      /\ known[n][m.from] # Absent
      /\ m.party.shared => own[m.from].shared
  BY DEF Learn, Idle, Received, MarkInv, Truthful
<1>3. m.from \in Nodes
  BY ReceivedTypes DEF Learn
<1>4. \A q, r \in Nodes : known'[q][r] = IF q = n /\ r = m.from THEN m.party ELSE known[q][r]
  BY <1>2, <1>3 DEF TypeOK, Lists
<1>5. PeersTakePart'
  <2> SUFFICES ASSUME NEW q \in Nodes, NEW o \in KeyOps, proc[q] = o,
                      NEW r \in Nodes, known'[q][r] # Absent
               PROVE  r \in Members(list[o][q])
    BY DEF PeersTakePart, PeersOf, Members, Learn
  <2>1. q # n
    BY <1>2, KindsAssumption DEF KeyOps, Ops
  <2>2. known[q][r] # Absent
    BY <1>4, <2>1
  <2> QED
    BY <2>2 DEF MarkInv, PeersTakePart, PeersOf, Members
<1>6. SentInside' /\ OkHasShare'
  BY DEF MarkInv, SentInside, OkHasShare, Learn
<1>7. MarkedTookPart'
  <2> SUFFICES ASSUME NEW q \in Nodes, NEW r \in Nodes, known'[q][r] # Absent,
                      known'[q][r].shared, ~own[r].shared
               PROVE  \E o \in KeyOps : /\ <<o, q>> \in ok /\ r \in Members(list[o][q])
                                        /\ proc[r] = o \/ <<o, r>> \in failed
    BY DEF MarkedTookPart, PeersOf, Members, Learn, KeyOps
  <2>1. known'[q][r] = known[q][r]
    BY <1>2, <1>4
  <2> QED
    BY <2>1 DEF MarkInv, MarkedTookPart, PeersOf, Members, KeyOps
<1> QED
  BY <1>1, <1>5, <1>6, <1>7 DEF MarkInv

\* Sending, dropping and failing mark nobody.
LEMMA OthersKeep ==
  ASSUME TypeOK, MarkInv, NEW n \in Nodes,
         \/ \E m \in net : Drop(n, m)
         \/ \E o \in Ops : SendLast(o, n) \/ Fail(o, n) \/ DoneSign(o, n)
  PROVE  MarkInv'
<1>1. CASE \E m \in net : Drop(n, m)
  <2>1. net' \subseteq net /\ UNCHANGED <<own, known, proc, list, sent, ok, failed>>
    BY <1>1 DEF Drop, Received
  <2>2. Truthful' /\ PeersTakePart' /\ SentInside' /\ OkHasShare'
    BY <2>1 DEF MarkInv, Truthful, PeersTakePart, SentInside, OkHasShare, PeersOf, Members
  <2>3. MarkedTookPart'
    BY <2>1 DEF MarkInv, MarkedTookPart, PeersOf, Members
  <2> QED
    BY <2>2, <2>3 DEF MarkInv
<1>2. ASSUME NEW o \in Ops, SendLast(o, n)
      PROVE  MarkInv'
  BY <1>2 DEF MarkInv, SendLast, Truthful, PeersTakePart, SentInside, OkHasShare,
              MarkedTookPart, PeersOf, Members
<1>3. ASSUME NEW o \in Ops, Fail(o, n)
      PROVE  MarkInv'
  <2>1. /\ \A q \in Nodes : proc'[q] = IF q = n THEN NoOp ELSE proc[q]
        /\ proc[n] = o /\ failed' = failed \cup {<<o, n>>}
        /\ UNCHANGED <<own, known, list, sent, ok, net>>
    BY <1>3 DEF TypeOK, Fail
  <2>2. Truthful' /\ OkHasShare'
    BY <2>1 DEF MarkInv, Truthful, OkHasShare
  <2>3. PeersTakePart' /\ SentInside'
    BY <2>1, KindsAssumption DEF MarkInv, PeersTakePart, SentInside, PeersOf, Members,
                                 KeyOps, Ops
  <2>4. MarkedTookPart'
    <3> SUFFICES ASSUME NEW q \in Nodes, NEW p \in Nodes, known[q][p] # Absent,
                        known[q][p].shared, ~own[p].shared
                 PROVE  \E e \in KeyOps : /\ <<e, q>> \in ok /\ p \in Members(list[e][q])
                                          /\ proc'[p] = e \/ <<e, p>> \in failed'
      BY <2>1 DEF MarkedTookPart, PeersOf, Members, KeyOps
    <3>1. PICK e \in KeyOps : /\ <<e, q>> \in ok /\ p \in Members(list[e][q])
                              /\ proc[p] = e \/ <<e, p>> \in failed
      BY DEF MarkInv, MarkedTookPart, PeersOf, Members, KeyOps
    <3>2. proc'[p] = e \/ <<e, p>> \in failed'
      BY <2>1, <3>1
    <3> QED
      BY <3>1, <3>2
  <2> QED
    BY <2>2, <2>3, <2>4 DEF MarkInv
<1>4. ASSUME NEW o \in Ops, DoneSign(o, n)
      PROVE  MarkInv'
  <2>1. /\ \A q \in Nodes : proc'[q] = IF q = n THEN NoOp ELSE proc[q]
        /\ proc[n] = o /\ ok' = ok \cup {<<o, n>>} /\ o \notin KeyOps
        /\ UNCHANGED <<own, known, list, sent, failed, net>>
    BY <1>4, KindsAssumption DEF TypeOK, DoneSign, Ends, KeyOps
  <2>2. Truthful' /\ OkHasShare'
    BY <2>1 DEF MarkInv, Truthful, OkHasShare
  <2>3. PeersTakePart' /\ SentInside'
    BY <2>1, KindsAssumption DEF MarkInv, PeersTakePart, SentInside, PeersOf, Members,
                                 KeyOps, Ops
  <2>4. MarkedTookPart'
    <3> SUFFICES ASSUME NEW q \in Nodes, NEW p \in Nodes, known[q][p] # Absent,
                        known[q][p].shared, ~own[p].shared
                 PROVE  \E e \in KeyOps : /\ <<e, q>> \in ok' /\ p \in Members(list[e][q])
                                          /\ proc'[p] = e \/ <<e, p>> \in failed
      <4>1. UNCHANGED <<own, known, list, failed>>
        BY <2>1
      <4> QED
        BY <4>1 DEF MarkedTookPart, PeersOf, Members, KeyOps
    <3>1. PICK e \in KeyOps : /\ <<e, q>> \in ok /\ p \in Members(list[e][q])
                              /\ proc[p] = e \/ <<e, p>> \in failed
      BY DEF MarkInv, MarkedTookPart, PeersOf, Members, KeyOps
    <3>2. proc[p] = e => proc'[p] = e
      BY <2>1
    <3> QED
      BY <2>1, <3>1, <3>2
  <2> QED
    BY <2>2, <2>3, <2>4 DEF MarkInv
<1> QED
  BY <1>1, <1>2, <1>3, <1>4

\* The end of a key generation or a resharing: every peer is a party of it that
\* has sent its last messages, so that it is inside, has failed, or has a share.
LEMMA DoneKeeps ==
  ASSUME TypeOK, MarkInv, NEW n \in Nodes, NEW o \in KeyOps,
         DoneKeyGen(o, n) \/ DoneReshare(o, n)
  PROVE  MarkInv'
<1>1. /\ proc[n] = o /\ ok' = ok \cup {<<o, n>>}
      /\ \A p \in Members(list[o][n]) : <<o, p>> \in sent
      /\ UNCHANGED <<list, sent, failed>>
      /\ Mark(n)
  BY DEF DoneKeyGen, DoneReshare, Ends
<1>2. \A q \in Nodes : proc'[q] = IF q = n THEN NoOp ELSE proc[q]
  BY DEF TypeOK, DoneKeyGen, DoneReshare, Ends
<1>3. /\ own'[n].shared
      /\ \A q \in Nodes : own[q].shared => own'[q].shared
      /\ \A q \in Nodes \ {n} : own'[q] = own[q]
  BY DEF TypeOK, DoneKeyGen, DoneReshare
<1>4. \A q, p \in Nodes :
        known'[q][p] = IF q = n /\ known[n][p] # Absent
                       THEN [known[n][p] EXCEPT !.shared = TRUE] ELSE known[q][p]
  BY <1>1 DEF TypeOK, Lists, Mark
<1>5. \A q, p \in Nodes : known'[q][p] # Absent => known[q][p] # Absent
  BY <1>4
<1>6. Truthful'
  <2> SUFFICES ASSUME NEW m \in net', m.kind = "party", m.party.shared
               PROVE  own'[m.from].shared
    BY DEF Truthful
  <2>1. CASE m \in net
    <3>1. own[m.from].shared /\ m.from \in Nodes
      BY <2>1 DEF MarkInv, Truthful, TypeOK, Starts, SignStarts, PartyIds
    <3> QED
      BY <3>1, <1>3
  <2>2. CASE m \notin net
    BY <2>2, <1>3 DEF DoneKeyGen, DoneReshare, MyParty
  <2> QED
    BY <2>1, <2>2
<1>7. PeersTakePart'
  BY <1>1, <1>2, <1>5, KindsAssumption DEF MarkInv, PeersTakePart, PeersOf, Members,
                                           KeyOps, Ops
<1>8. SentInside'
  BY <1>1, <1>2 DEF MarkInv, SentInside
<1>9. OkHasShare'
  BY <1>1, <1>3 DEF MarkInv, OkHasShare
<1>10. MarkedTookPart'
  <2> SUFFICES ASSUME NEW q \in Nodes, NEW p \in Nodes, known'[q][p] # Absent,
                      known'[q][p].shared, ~own'[p].shared
               PROVE  \E e \in KeyOps : /\ <<e, q>> \in ok' /\ p \in Members(list[e][q])
                                        /\ proc'[p] = e \/ <<e, p>> \in failed
    BY <1>1 DEF MarkedTookPart, PeersOf, Members, KeyOps
  <2>1. known[q][p] # Absent /\ p # n /\ ~own[p].shared /\ proc'[p] = proc[p]
    BY <1>2, <1>3, <1>5
  <2>2. CASE q = n
    <3>1. p \in Members(list[o][n])
      BY <1>1, <2>1, <2>2 DEF MarkInv, PeersTakePart, PeersOf, Members
    <3>2. <<o, p>> \in sent /\ o \in Ops
      BY <1>1, <3>1 DEF KeyOps, Ops
    <3>3. <<o, p>> \notin ok
      BY <2>1 DEF MarkInv, OkHasShare
    <3>4. proc[p] = o \/ <<o, p>> \in failed
      BY <3>2, <3>3 DEF MarkInv, SentInside
    <3> QED
      BY <1>1, <2>1, <2>2, <3>1, <3>4
  <2>3. CASE q # n
    <3>1. known[q][p].shared
      BY <1>4, <2>3
    <3>2. PICK e \in KeyOps : /\ <<e, q>> \in ok /\ p \in Members(list[e][q])
                              /\ proc[p] = e \/ <<e, p>> \in failed
      BY <2>1, <3>1 DEF MarkInv, MarkedTookPart, PeersOf, Members, KeyOps
    <3> QED
      BY <1>1, <2>1, <3>2
  <2> QED
    BY <2>2, <2>3
<1> QED
  BY <1>6, <1>7, <1>8, <1>9, <1>10 DEF MarkInv

LEMMA MarkStep ==
  ASSUME TypeOK, MarkInv, [Next]_vars
  PROVE  MarkInv'
<1>1. CASE UNCHANGED vars
  BY <1>1 DEF vars, MarkInv, Truthful, PeersTakePart, SentInside, OkHasShare,
              MarkedTookPart, PeersOf, Members
<1>2. CASE Next
  <2>1. PICK n \in Nodes :
          \/ \E p \in Nodes : Launch(n, p)
          \/ \E m \in net : Drop(n, m) \/ Learn(n, m) \/ HandleStart(n, m) \/ HandleSign(n, m)
          \/ \E o \in Ops : \/ Call(n, o) \/ CallSign(n, o) \/ SendLast(o, n) \/ Fail(o, n)
                            \/ DoneKeyGen(o, n) \/ DoneReshare(o, n) \/ DoneSign(o, n)
    BY <1>2 DEF Next
  <2>2. CASE \/ \E m \in net : HandleStart(n, m) \/ HandleSign(n, m)
             \/ \E o \in Ops : Call(n, o) \/ CallSign(n, o)
    BY <2>2, StartEnters, SignEnters, CallEnters, CallSignEnters, EnteringKeeps
  <2>3. ASSUME NEW o \in Ops, DoneKeyGen(o, n) \/ DoneReshare(o, n)
        PROVE  MarkInv'
    <3>1. o \in KeyOps
      BY <2>3 DEF DoneKeyGen, DoneReshare, KeyOps
    <3> QED
      BY <2>3, <3>1, DoneKeeps
  <2> QED
    BY <2>1, <2>2, <2>3, LaunchKeeps, LearnKeeps, OthersKeep
<1> QED
  BY <1>1, <1>2 DEF vars

LEMMA InitMark == Init => TypeOK /\ MarkInv
<1> SUFFICES ASSUME Init PROVE TypeOK /\ MarkInv
  OBVIOUS
<1>1. TypeOK
  BY InitTypes
<1>2. Truthful /\ PeersTakePart /\ SentInside /\ OkHasShare
  BY KindsAssumption DEF Init, Truthful, PeersTakePart, SentInside, OkHasShare, KeyOps, Ops
<1>3. \A n, p \in Nodes : known[n][p] = own[p] \/ known[n][p] = Absent
  BY DEF Init
<1>4. MarkedTookPart
  BY <1>3 DEF MarkedTookPart, PeersOf, Members
<1> QED
  BY <1>1, <1>2, <1>4 DEF MarkInv

\* A peer that is marked as having a share of the private key has one, or takes
\* part in the operation that marked it, or its deadline has passed there.
THEOREM MarkedTookPartCorrect == Spec => []MarkedTookPart
<1>1. Init => TypeOK /\ MarkInv
  BY InitMark
<1>2. TypeOK /\ MarkInv /\ [Next]_vars => (TypeOK /\ MarkInv)'
  BY TypeStep, MarkStep
<1>3. MarkInv => MarkedTookPart
  BY DEF MarkInv
<1> QED
  BY <1>1, <1>2, <1>3, PTL DEF Spec

-----------------------------------------------------------------------------
(* Who is known.                                                             *)

LEMMA EnteringKnows ==
  ASSUME TypeOK, KnownInv, NEW n \in Nodes, Entering(n)
  PROVE  KnownInv'
<1>1. SentKnown' /\ MarkedKnown'
  BY DEF KnownInv, SentKnown, MarkedKnown, Entering, PeersOf, Members
<1>2. KnownInside'
  <2> SUFFICES ASSUME NEW q \in Nodes, NEW e \in KeyOps, proc'[q] = e,
                      NEW p \in Nodes, known[q][p] # Absent
               PROVE  known[q][p].key # NoKey
    BY DEF KnownInside, PeersOf, Members, Entering
  <2>1. CASE proc[q] = e
    BY <2>1 DEF KnownInv, KnownInside, PeersOf, Members
  <2>2. CASE proc[q] # e
    <3>1. PICK o \in Ops, parties \in Lists :
            /\ o \in KeyOps => parties = MyList(n)
            /\ \A r \in Members(parties) : parties[r].key # NoKey
            /\ proc' = [proc EXCEPT ![n] = o]
      BY <2>2 DEF Entering
    <3>2. q = n /\ e = o /\ parties = MyList(n)
      BY <2>2, <3>1 DEF TypeOK
    <3>3. p # n /\ known[n] \in Lists
      BY <3>2 DEF TypeOK
    <3>4. parties[p] = known[n][p]
      BY <3>2, <3>3 DEF MyList, Lists
    <3> QED
      BY <3>1, <3>2, <3>4 DEF Members
  <2> QED
    BY <2>1, <2>2
<1> QED
  BY <1>1, <1>2 DEF KnownInv

\* Only an idle node launches a peer or learns its party.
LEMMA IdleKnows ==
  ASSUME TypeOK, KnownInv, NEW n \in Nodes, NEW p \in Nodes, NEW party \in Party,
         proc[n] = NoOp, UNCHANGED proc,
         known' = [known EXCEPT ![n][p] = party],
         party.shared => party.key # NoKey
  PROVE  KnownInside' /\ MarkedKnown'
<1>1. \A q, r \in Nodes : known'[q][r] = IF q = n /\ r = p THEN party ELSE known[q][r]
  BY DEF TypeOK, Lists
<1>2. KnownInside'
  <2> SUFFICES ASSUME NEW q \in Nodes, NEW o \in KeyOps, proc[q] = o,
                      NEW r \in Nodes, known'[q][r] # Absent
               PROVE  known'[q][r].key # NoKey
    BY DEF KnownInside, PeersOf, Members
  <2>1. q # n
    BY KindsAssumption DEF KeyOps, Ops
  <2> QED
    BY <1>1, <2>1 DEF KnownInv, KnownInside, PeersOf, Members
<1>3. MarkedKnown'
  BY <1>1 DEF KnownInv, MarkedKnown, PeersOf, Members
<1> QED
  BY <1>2, <1>3

\* The end of a key generation or a resharing marks peers whose PartyKey the node
\* has known since it began.
LEMMA DoneKnows ==
  ASSUME TypeOK, KnownInv, NEW n \in Nodes, NEW o \in KeyOps,
         DoneKeyGen(o, n) \/ DoneReshare(o, n)
  PROVE  KnownInv'
<1>1. proc[n] = o /\ Mark(n) /\ \A q \in Nodes : proc'[q] = IF q = n THEN NoOp ELSE proc[q]
  BY DEF TypeOK, DoneKeyGen, DoneReshare, Ends
<1>2. \A q, p \in Nodes :
        known'[q][p] = IF q = n /\ known[n][p] # Absent
                       THEN [known[n][p] EXCEPT !.shared = TRUE] ELSE known[q][p]
  BY <1>1 DEF TypeOK, Lists, Mark
<1>3. \A q, p \in Nodes : known'[q][p] # Absent => /\ known[q][p] # Absent
                                                  /\ known'[q][p].key = known[q][p].key
  <2> SUFFICES ASSUME NEW q \in Nodes, NEW p \in Nodes, known'[q][p] # Absent
               PROVE  known[q][p] # Absent /\ known'[q][p].key = known[q][p].key
    OBVIOUS
  <2>1. known[q][p] # Absent
    BY <1>2
  <2>2. known[q][p] \in Party
    BY <2>1 DEF TypeOK, Lists
  <2>3. [known[q][p] EXCEPT !.shared = TRUE].key = known[q][p].key
    BY <2>2 DEF Party
  <2> QED
    BY <1>2, <2>1, <2>3
<1>4. SentKnown'
  <2>1. \A q \in Nodes : own'[q].key # NoKey
    BY TypeStep, KeysAssumption DEF TypeOK, Next, KeyOps, Ops
  <2> QED
    BY <2>1 DEF KnownInv, SentKnown, DoneKeyGen, DoneReshare, MyParty
<1>5. KnownInside'
  BY <1>1, <1>3, KindsAssumption DEF KnownInv, KnownInside, PeersOf, Members, KeyOps, Ops
<1>6. MarkedKnown'
  <2> SUFFICES ASSUME NEW q \in Nodes, NEW p \in Nodes, known'[q][p] # Absent,
                      known'[q][p].shared
               PROVE  known[q][p].key # NoKey
    BY <1>3 DEF MarkedKnown, PeersOf, Members
  <2>1. CASE q = n
    BY <2>1, <1>1, <1>3 DEF KnownInv, KnownInside, PeersOf, Members
  <2>2. CASE q # n
    BY ZenonT(30), <2>2, <1>2 DEF KnownInv, MarkedKnown, PeersOf, Members
  <2> QED
    BY <2>1, <2>2
<1> QED
  BY <1>4, <1>5, <1>6 DEF KnownInv

LEMMA KnownStep ==
  ASSUME TypeOK, KnownInv, [Next]_vars
  PROVE  KnownInv'
<1>1. CASE UNCHANGED vars
  BY <1>1 DEF vars, KnownInv, SentKnown, KnownInside, MarkedKnown, PeersOf, Members
<1>2. ASSUME NEW n \in Nodes, NEW p \in Nodes, Launch(n, p)
      PROVE  KnownInv'
  <2>1. own[n].key # NoKey
    BY KeysAssumption DEF TypeOK
  <2>2. SentKnown'
    BY <1>2, <2>1 DEF KnownInv, SentKnown, Launch, MyParty
  <2>3. Zero \in Party /\ ~Zero.shared
    BY PartyTypes DEF Zero
  <2>4. KnownInside' /\ MarkedKnown'
    BY <1>2, <2>3, IdleKnows DEF Launch, Idle
  <2> QED
    BY <2>2, <2>4 DEF KnownInv
<1>3. ASSUME NEW n \in Nodes, NEW m \in net, Drop(n, m)
      PROVE  KnownInv'
  BY <1>3 DEF KnownInv, SentKnown, KnownInside, MarkedKnown, Drop, Received, PeersOf, Members
<1>4. ASSUME NEW n \in Nodes, NEW m \in net, Learn(n, m)
      PROVE  KnownInv'
  <2>1. SentKnown'
    BY <1>4 DEF KnownInv, SentKnown, Learn, Received
  <2>2. m.from \in Nodes /\ m.party \in Party /\ m.party.key # NoKey
    BY <1>4, ReceivedTypes DEF Learn, KnownInv, SentKnown
  <2>3. KnownInside' /\ MarkedKnown'
    BY <1>4, <2>2, IdleKnows DEF Learn, Idle
  <2> QED
    BY <2>1, <2>3 DEF KnownInv
<1>5. ASSUME NEW n \in Nodes,
             \/ \E m \in net : HandleStart(n, m) \/ HandleSign(n, m)
             \/ \E o \in Ops : Call(n, o) \/ CallSign(n, o)
      PROVE  KnownInv'
  BY <1>5, StartEnters, SignEnters, CallEnters, CallSignEnters, EnteringKnows
<1>6. ASSUME NEW n \in Nodes, NEW o \in Ops, SendLast(o, n) \/ Fail(o, n) \/ DoneSign(o, n)
      PROVE  KnownInv'
  <2>1. /\ \A q \in Nodes : proc'[q] \in {proc[q], NoOp}
        /\ UNCHANGED <<known, net>>
    BY <1>6 DEF TypeOK, SendLast, Fail, DoneSign, Ends
  <2> QED
    BY <2>1, KindsAssumption DEF KnownInv, SentKnown, KnownInside, MarkedKnown, PeersOf,
                                 Members, KeyOps, Ops
<1>7. ASSUME NEW n \in Nodes, NEW o \in Ops, DoneKeyGen(o, n) \/ DoneReshare(o, n)
      PROVE  KnownInv'
  <2>1. o \in KeyOps
    BY <1>7 DEF DoneKeyGen, DoneReshare, KeyOps
  <2> QED
    BY <1>7, <2>1, DoneKnows
<1> QED
  BY <1>1, <1>2, <1>3, <1>4, <1>5, <1>6, <1>7 DEF Next

\* Every peer that is marked as having a share has a PartyKey: SignMessage never
\* gives sortParties one that has not sent its party.
THEOREM MarkedKnownCorrect == Spec => []MarkedKnown
<1>1. Init => TypeOK /\ KnownInv
  <2> SUFFICES ASSUME Init PROVE KnownInv
    BY InitTypes
  <2>1. \A n, p \in Nodes : known[n][p] # Absent => known[n][p] = own[p]
    BY DEF Init
  <2>2. \A p \in Nodes : own[p].key # NoKey
    BY InitTypes, KeysAssumption DEF TypeOK
  <2>3. SentKnown /\ KnownInside
    BY KindsAssumption DEF Init, SentKnown, KnownInside, KeyOps, Ops
  <2>4. MarkedKnown
    BY <2>1, <2>2 DEF MarkedKnown, PeersOf, Members
  <2> QED
    BY <2>3, <2>4 DEF KnownInv
<1>2. TypeOK /\ KnownInv /\ [Next]_vars => (TypeOK /\ KnownInv)'
  BY TypeStep, KnownStep
<1>3. KnownInv => MarkedKnown
  BY DEF KnownInv
<1> QED
  BY <1>1, <1>2, <1>3, PTL DEF Spec

-----------------------------------------------------------------------------
(* Who is up to date.                                                        *)

LEMMA PartyFacts ==
  ASSUME TypeOK
  PROVE  /\ Zero \in Party /\ Zero # Absent /\ Zero.key = NoKey /\ ~Zero.shared
         /\ NoKey \notin Nat /\ NoOp \notin KeyOps /\ KeyOps \subseteq Ops
         /\ \A p \in Nodes : own[p] \in Party /\ own[p].key \in Nat /\ own[p] # Absent
         /\ \A n, p \in Nodes : p \in PeersOf(n) =>
              known[n][p] \in Party /\ known[n][p].key \in Nat \cup {NoKey} /\ p # n
         /\ \A n, p \in Nodes : p \in PeersOf(n) <=> known[n][p] # Absent
         /\ \A o \in Ops, n, p \in Nodes : p \in Members(list[o][n]) <=> list[o][n][p] # Absent
<1>1. Zero \in Party /\ Zero.key = NoKey /\ ~Zero.shared
  BY PartyTypes DEF Zero
<1>2. NoKey \notin Nat /\ NoOp \notin KeyOps /\ KeyOps \subseteq Ops /\ Absent \notin Party
  BY KeysAssumption, KindsAssumption DEF KeyOps, Ops, Party
<1>3. \A p \in Nodes : own[p] \in Party /\ own[p].key \in Nat
  BY PartyTypes DEF TypeOK
<1>4. \A n, p \in Nodes : known[n][p] # Absent =>
        known[n][p] \in Party /\ known[n][p].key \in Nat \cup {NoKey} /\ p # n
  BY DEF TypeOK, Lists, Party
<1> QED
  BY <1>1, <1>2, <1>3, <1>4 DEF PeersOf, Members

LEMMA CurrentInvs ==
  ASSUME CurrentInv
  PROVE  /\ SentCurrent /\ KeyLearned /\ KeyNew /\ KeyOld /\ KeyHeld
         /\ AgreeInv /\ OthersMarked /\ ShareLearned
BY DEF CurrentInv

\* What steps that give no list of parties have to show of AgreeInv.
LEMMA AgreeStep ==
  ASSUME AgreeInv, UNCHANGED list, sent \subseteq sent',
         \A q \in Nodes : PeersOf(q) \subseteq PeersOf(q)',
         \A o \in KeyOps, q \in Nodes : <<o, q>> \in sent' =>
           \/ <<o, q>> \in sent
           \/ Entered(o, q) /\ \A p \in Members(list[o][q]) :
                /\ Members(list[o][p]) = Members(list[o][q])
                /\ \A r \in Members(list[o][q]) : list[o][p][r].key = list[o][q][r].key,
         \A o \in KeyOps, q \in Nodes : <<o, q>> \in ok' =>
           \/ <<o, q>> \in ok
           \/ <<o, q>> \in sent /\ \A p \in Members(list[o][q]) : <<o, p>> \in sent
  PROVE  AgreeInv'
<1> SUFFICES ASSUME NEW e \in KeyOps, NEW q \in Nodes
             PROVE  /\ Members(list'[e][q]) \subseteq PeersOf(q)' \cup {q}
                    /\ Members(list'[e][q]) # {} => q \in Members(list'[e][q])
                    /\ <<e, q>> \in sent' =>
                         Members(list'[e][q]) # {} /\ \A p \in Members(list'[e][q]) :
                           /\ Members(list'[e][p]) = Members(list'[e][q])
                           /\ \A r \in Members(list'[e][q]) :
                                list'[e][p][r].key = list'[e][q][r].key
                    /\ <<e, q>> \in ok' =>
                         <<e, q>> \in sent' /\ \A p \in Members(list'[e][q]) : <<e, p>> \in sent'
  BY DEF AgreeInv, Entered
<1>1. Members(list[e][q]) \subseteq PeersOf(q)' \cup {q}
  BY DEF AgreeInv
<1>2. Members(list[e][q]) # {} => q \in Members(list[e][q])
  BY DEF AgreeInv, Entered
<1>3. <<e, q>> \in sent' =>
        Members(list[e][q]) # {} /\ \A p \in Members(list[e][q]) :
          /\ Members(list[e][p]) = Members(list[e][q])
          /\ \A r \in Members(list[e][q]) : list[e][p][r].key = list[e][q][r].key
  BY DEF AgreeInv, Entered
<1>4. <<e, q>> \in ok' =>
        <<e, q>> \in sent' /\ \A p \in Members(list[e][q]) : <<e, p>> \in sent'
  BY DEF AgreeInv
<1>5. list' = list
  OBVIOUS
<1> QED
  BY <1>1, <1>2, <1>3, <1>4, <1>5

\* Entering an operation gives it the PartyKeys that are known.
LEMMA EnteringCurrent ==
  ASSUME TypeOK, CurrentInv, NEW n \in Nodes, Entering(n)
  PROVE  CurrentInv'
<1>1. /\ UNCHANGED <<own, known, sent, ok, failed, dropped>>
      /\ \A q \in Nodes : PeersOf(q)' = PeersOf(q)
      /\ \A q, p \in Nodes : InFlight(q, p)' <=> InFlight(q, p)
  BY DEF Entering, PeersOf, Members, InFlight
<1>2. SentCurrent'
  <2>1. \A m \in net : m.kind = "party" => m.from \in Nodes
    BY DEF TypeOK, Starts, SignStarts, PartyIds
  <2> QED
    BY <1>1, <2>1, CurrentInvs DEF SentCurrent, Entering
<1>3. KeyLearned'
  BY <1>1, CurrentInvs DEF KeyLearned
<1>4. CASE UNCHANGED <<proc, list>>
  <2>1. KeyNew' /\ KeyOld'
    BY <1>1, <1>4, CurrentInvs DEF KeyNew, KeyOld
  <2>2. KeyHeld' /\ OthersMarked'
    BY <1>1, <1>4, CurrentInvs DEF KeyHeld, OthersMarked
  <2>3. AgreeInv'
    BY <1>1, <1>4, AgreeStep, CurrentInvs
  <2>4. ShareLearned'
    BY <1>1, <1>4, CurrentInvs DEF ShareLearned, Failed
  <2> QED
    BY <1>2, <1>3, <2>1, <2>2, <2>3, <2>4 DEF CurrentInv
<1>5. CASE ~UNCHANGED <<proc, list>>
  <2>1. PICK o \in Ops, parties \in Lists :
          /\ proc[n] = NoOp /\ ~Entered(o, n)
          /\ o \in KeyOps => parties = MyList(n)
          /\ \A p \in Members(parties) : parties[p].key # NoKey
          /\ proc' = [proc EXCEPT ![n] = o]
          /\ list' = [list EXCEPT ![o][n] = parties]
    BY <1>5 DEF Entering
  <2>2. /\ \A q \in Nodes : proc'[q] = IF q = n THEN o ELSE proc[q]
        /\ \A e \in Ops, q \in Nodes :
             list'[e][q] = IF e = o /\ q = n THEN parties ELSE list[e][q]
    BY <2>1 DEF TypeOK
  <2>3. Members(list[o][n]) = {}
    BY <2>1 DEF Entered
  <2>4. o \in KeyOps => /\ parties[n] = own[n]
                        /\ \A p \in Nodes : p # n => parties[p] = known[n][p]
                        /\ Members(parties) = PeersOf(n) \cup {n}
    <3> SUFFICES ASSUME o \in KeyOps
                 PROVE  /\ parties[n] = own[n]
                        /\ \A p \in Nodes : p # n => parties[p] = known[n][p]
                        /\ Members(parties) = PeersOf(n) \cup {n}
      OBVIOUS
    <3>1. /\ parties[n] = own[n]
          /\ \A p \in Nodes : p # n => parties[p] = known[n][p]
      BY <2>1 DEF MyList, TypeOK, Lists
    <3> QED
      BY <3>1, PartyFacts DEF PeersOf, Members
  <2>5. KeyNew'
    <3> SUFFICES ASSUME NEW q \in Nodes, NEW p \in Nodes, InFlight(p, q),
                        NEW e \in KeyOps, list'[e][q][p] # Absent
                 PROVE  list'[e][q][p].key # own[p].key
      BY <1>1, CurrentInvs DEF KeyNew, Members
    <3>1. CASE e = o /\ q = n
      <4>1. list'[e][q] = parties /\ o \in KeyOps
        BY <2>2, <3>1, PartyFacts
      <4>2. p # n
        BY <3>1, PartyFacts, CurrentInvs DEF InFlight, SentCurrent
      <4>3. list'[e][q][p] = known[n][p]
        BY <2>4, <4>1, <4>2
      <4> QED
        BY <3>1, <4>3, CurrentInvs, PartyFacts DEF KeyNew
    <3>2. CASE ~(e = o /\ q = n)
      <4>1. list'[e][q] = list[e][q]
        BY <2>2, <3>2, PartyFacts
      <4> QED
        BY <4>1, CurrentInvs DEF KeyNew, Members
    <3> QED
      BY <3>1, <3>2
  <2>6. KeyOld'
    <3> SUFFICES ASSUME NEW q \in Nodes, NEW p \in Nodes,
                        NEW e \in KeyOps, list'[e][q][p] # Absent
                 PROVE  /\ list'[e][q][p].key \in Nat /\ list'[e][q][p].key <= own[p].key
                        /\ p # q => q \in PeersOf(p)
      BY <1>1, CurrentInvs DEF KeyOld, Members
    <3>1. CASE e = o /\ q = n
      <4>1. list'[e][q] = parties /\ o \in KeyOps
        BY <2>2, <3>1, PartyFacts
      <4>2. CASE p = n
        BY <2>4, <3>1, <4>1, <4>2, PartyFacts
      <4>3. CASE p # n
        <5>1. list'[e][q][p] = known[n][p] /\ known[n][p].key # NoKey
          BY <2>1, <2>4, <4>1, <4>3 DEF Members
        <5>2. p \in PeersOf(n) /\ known[n][p].key \in Nat
          BY <5>1, PartyFacts
        <5> QED
          BY <3>1, <5>1, <5>2, CurrentInvs DEF KeyOld
      <4> QED
        BY <4>2, <4>3
    <3>2. CASE ~(e = o /\ q = n)
      <4>1. list'[e][q] = list[e][q]
        BY <2>2, <3>2, PartyFacts
      <4> QED
        BY <4>1, CurrentInvs DEF KeyOld, Members
    <3> QED
      BY <3>1, <3>2
  <2>7. KeyHeld'
    <3> SUFFICES ASSUME NEW e \in KeyOps, NEW p \in Nodes, proc'[p] = e
                 PROVE  p \in Members(list'[e][p]) /\ list'[e][p][p].key = own[p].key
      BY <1>1, CurrentInvs DEF KeyHeld
    <3>1. CASE p = n
      BY <2>2, <2>4, <3>1, PartyFacts
    <3>2. CASE p # n
      BY <2>2, <3>2, PartyFacts, CurrentInvs DEF KeyHeld
    <3> QED
      BY <3>1, <3>2
  <2>8. \A e \in KeyOps, q \in Nodes : <<e, q>> \in sent \/ <<e, q>> \in ok =>
          /\ list'[e][q] = list[e][q]
          /\ \A p \in Members(list[e][q]) : list'[e][p] = list[e][p]
    <3> SUFFICES ASSUME NEW e \in KeyOps, NEW q \in Nodes,
                        <<e, q>> \in sent \/ <<e, q>> \in ok
                 PROVE  /\ list'[e][q] = list[e][q]
                        /\ \A p \in Members(list[e][q]) : list'[e][p] = list[e][p]
      OBVIOUS
    <3>1. <<e, q>> \in sent
      BY CurrentInvs DEF AgreeInv
    <3>2. Members(list[e][q]) # {}
          /\ \A p \in Members(list[e][q]) : Members(list[e][p]) = Members(list[e][q])
      BY <3>1, CurrentInvs DEF AgreeInv, Entered
    <3>3. \A p \in Members(list[e][q]) : p \in Nodes /\ ~(e = o /\ p = n)
      BY <2>3, <3>2 DEF Members
    <3>4. ~(e = o /\ q = n)
      BY <2>3, <3>2
    <3> QED
      BY <2>2, <3>3, <3>4, PartyFacts
  <2>9. AgreeInv'
    <3> SUFFICES ASSUME NEW e \in KeyOps, NEW q \in Nodes
                 PROVE  /\ Members(list'[e][q]) \subseteq PeersOf(q) \cup {q}
                        /\ Members(list'[e][q]) # {} => q \in Members(list'[e][q])
                        /\ <<e, q>> \in sent =>
                             Members(list'[e][q]) # {} /\ \A p \in Members(list'[e][q]) :
                               /\ Members(list'[e][p]) = Members(list'[e][q])
                               /\ \A r \in Members(list'[e][q]) :
                                    list'[e][p][r].key = list'[e][q][r].key
                        /\ <<e, q>> \in ok =>
                             <<e, q>> \in sent
                             /\ \A p \in Members(list'[e][q]) : <<e, p>> \in sent
      BY <1>1 DEF AgreeInv, Entered
    <3>1. /\ Members(list'[e][q]) \subseteq PeersOf(q) \cup {q}
          /\ Members(list'[e][q]) # {} => q \in Members(list'[e][q])
      <4>1. CASE e = o /\ q = n
        BY <2>2, <2>4, <4>1, PartyFacts
      <4>2. CASE ~(e = o /\ q = n)
        <5>1. list'[e][q] = list[e][q]
          BY <2>2, <4>2, PartyFacts
        <5> QED
          BY <5>1, CurrentInvs DEF AgreeInv, Entered
      <4> QED
        BY <4>1, <4>2
    <3>2. <<e, q>> \in sent =>
            Members(list'[e][q]) # {} /\ \A p \in Members(list'[e][q]) :
              /\ Members(list'[e][p]) = Members(list'[e][q])
              /\ \A r \in Members(list'[e][q]) : list'[e][p][r].key = list'[e][q][r].key
      BY <2>8, CurrentInvs DEF AgreeInv, Entered
    <3>3. <<e, q>> \in ok =>
            <<e, q>> \in sent /\ \A p \in Members(list'[e][q]) : <<e, p>> \in sent
      BY <2>8, CurrentInvs DEF AgreeInv
    <3> QED
      BY <3>1, <3>2, <3>3
  <2>10. OthersMarked'
    <3> SUFFICES ASSUME NEW e \in KeyOps, NEW q \in Nodes, NEW p \in Nodes, <<e, q>> \in ok,
                        p \in Members(list'[e][q]), p # q, proc'[p] = e
                 PROVE  known[q][p].shared
      BY <1>1 DEF OthersMarked
    <3>1. p \in Members(list[e][q])
      BY <2>8
    <3>2. <<e, q>> \in sent /\ Members(list[e][p]) = Members(list[e][q])
      BY <3>1, CurrentInvs DEF AgreeInv
    <3>3. ~(p = n /\ e = o)
      BY <2>3, <3>1, <3>2
    <3>4. proc[p] = e
      BY <2>2, <3>3
    <3> QED
      BY <3>1, <3>4, CurrentInvs DEF OthersMarked
  <2>11. ShareLearned'
    <3> SUFFICES ASSUME NEW q \in Nodes, NEW p \in Nodes, p \in PeersOf(q), q \in PeersOf(p),
                        own[p].shared, ~known[q][p].shared
                 PROVE  \/ <<q, p>> \in dropped \/ InFlight(p, q) \/ Failed(q)
                        \/ \E e \in KeyOps : proc'[q] = e /\ p \in Members(list'[e][q])
      BY <1>1 DEF ShareLearned, Failed
    <3>1. \/ <<q, p>> \in dropped \/ InFlight(p, q) \/ Failed(q)
          \/ \E e \in KeyOps : proc[q] = e /\ p \in Members(list[e][q])
      BY CurrentInvs DEF ShareLearned
    <3>2. ASSUME NEW e \in KeyOps, proc[q] = e, p \in Members(list[e][q])
          PROVE  proc'[q] = e /\ p \in Members(list'[e][q])
      <4>1. q # n
        BY <2>1, <3>2, PartyFacts
      <4> QED
        BY <2>2, <3>2, <4>1, PartyFacts
    <3> QED
      BY <3>1, <3>2
  <2> QED
    BY <1>2, <1>3, <2>5, <2>6, <2>7, <2>9, <2>10, <2>11 DEF CurrentInv
<1> QED
  BY <1>4, <1>5

\* A peer is launched: it will learn the party, and was not known before.
LEMMA LaunchCurrent ==
  ASSUME TypeOK, CurrentInv, NEW n \in Nodes, NEW p \in Nodes, Launch(n, p)
  PROVE  CurrentInv'
<1>1. /\ p # n /\ p \notin PeersOf(n) /\ proc[n] = NoOp
      /\ known' = [known EXCEPT ![n][p] = Zero]
      /\ net' = net \cup {MyParty(n, own[n], p)}
      /\ UNCHANGED <<own, proc, list, sent, ok, failed, dropped>>
  BY PartyFacts DEF Launch, Idle
<1>2. \A q, r \in Nodes : known'[q][r] = IF q = n /\ r = p THEN Zero ELSE known[q][r]
  BY <1>1 DEF TypeOK, Lists
<1>3. \A q, r \in Nodes : r \in PeersOf(q)' <=> r \in PeersOf(q) \/ (q = n /\ r = p)
  BY <1>2, PartyFacts DEF PeersOf, Members
<1>4. \A q, r \in Nodes : InFlight(q, r)' <=> InFlight(q, r) \/ (q = n /\ r = p)
  <2>1. PICK m : /\ m = MyParty(n, own[n], p) /\ m.kind = "party" /\ m.from = n /\ m.to = p
                 /\ net' = net \cup {m}
    BY <1>1 DEF MyParty
  <2> QED
    BY <2>1 DEF InFlight
<1>5. SentCurrent'
  <2>1. \A m \in net : m.kind = "party" => m.from \in Nodes /\ m.to \in Nodes
    BY DEF TypeOK, Starts, SignStarts, PartyIds
  <2>2. \A m \in net : m.kind = "party" => m.party = own[m.from] /\ m.to \in PeersOf(m.from)'
    BY <1>3, <2>1, CurrentInvs DEF SentCurrent
  <2> QED
    BY <1>1, <1>3, <2>2 DEF SentCurrent, MyParty
<1>6. KeyLearned'
  <2> SUFFICES ASSUME NEW q \in Nodes, NEW r \in Nodes, q \in PeersOf(r)'
               PROVE  \/ <<q, r>> \in dropped \/ InFlight(r, q)'
                      \/ r \in PeersOf(q)' /\ known'[q][r].key = own[r].key
    BY <1>1 DEF KeyLearned
  <2>1. CASE r = n /\ q = p
    BY <1>4, <2>1
  <2>2. CASE ~(r = n /\ q = p)
    <3>1. \/ <<q, r>> \in dropped \/ InFlight(r, q)
          \/ r \in PeersOf(q) /\ known[q][r].key = own[r].key
      BY <1>3, <2>2, CurrentInvs DEF KeyLearned
    <3>2. r \in PeersOf(q) => known'[q][r] = known[q][r]
      BY <1>1, <1>2
    <3> QED
      BY <1>3, <1>4, <3>1, <3>2
  <2> QED
    BY <2>1, <2>2
<1>7. KeyNew'
  <2> SUFFICES ASSUME NEW q \in Nodes, NEW r \in Nodes, InFlight(r, q)'
               PROVE  /\ r \in PeersOf(q)' => known'[q][r].key # own[r].key
                      /\ \A o \in KeyOps : r \in Members(list[o][q]) =>
                           list[o][q][r].key # own[r].key
    BY <1>1 DEF KeyNew
  <2>1. CASE r = n /\ q = p
    <3>1. known'[q][r] = known[q][r] /\ (r \in PeersOf(q)' => r \in PeersOf(q))
      BY <1>1, <1>2, <1>3, <2>1
    <3>2. r \in PeersOf(q) => known[q][r].key = NoKey
      BY <1>1, <2>1, CurrentInvs DEF KeyOld
    <3>3. \A o \in KeyOps : r \notin Members(list[o][q])
      BY <1>1, <2>1, CurrentInvs DEF KeyOld
    <3> QED
      BY <3>1, <3>2, <3>3, PartyFacts
  <2>2. CASE ~(r = n /\ q = p)
    <3>1. /\ r \in PeersOf(q) => known[q][r].key # own[r].key
          /\ \A o \in KeyOps : r \in Members(list[o][q]) => list[o][q][r].key # own[r].key
      BY <1>4, <2>2, CurrentInvs DEF KeyNew
    <3>2. own[r].key # NoKey
      BY PartyFacts
    <3> QED
      BY <1>2, <1>3, <3>1, <3>2, PartyFacts
  <2> QED
    BY <2>1, <2>2
<1>8. KeyOld'
  <2>1. \A q, r \in Nodes : r \in PeersOf(q)' /\ known'[q][r].key # NoKey =>
          r \in PeersOf(q) /\ known'[q][r] = known[q][r]
    BY <1>2, <1>3, PartyFacts
  <2> QED
    BY <1>1, <1>3, <2>1, CurrentInvs DEF KeyOld
<1>9. KeyHeld'
  BY <1>1, <1>3, CurrentInvs DEF KeyHeld
<1>10. AgreeInv'
  <2>1. \A q \in Nodes : PeersOf(q) \subseteq PeersOf(q)'
    BY <1>3 DEF PeersOf, Members
  <2> QED
    BY <1>1, <2>1, AgreeStep, CurrentInvs
<1>11. OthersMarked'
  <2> SUFFICES ASSUME NEW o \in KeyOps, NEW q \in Nodes, NEW r \in Nodes, <<o, q>> \in ok,
                      r \in Members(list[o][q]), r # q, proc[r] = o
               PROVE  known'[q][r].shared
    BY <1>1 DEF OthersMarked
  <2>1. r \in PeersOf(q) /\ known[q][r].shared
    BY CurrentInvs DEF AgreeInv, OthersMarked
  <2> QED
    BY <1>1, <1>2, <2>1
<1>12. ShareLearned'
  <2> SUFFICES ASSUME NEW q \in Nodes, NEW r \in Nodes, r \in PeersOf(q)', q \in PeersOf(r)',
                      own[r].shared, ~known'[q][r].shared
               PROVE  \/ <<q, r>> \in dropped \/ InFlight(r, q)' \/ Failed(q)
                      \/ \E o \in KeyOps : proc[q] = o /\ r \in Members(list[o][q])
    BY <1>1 DEF ShareLearned, Failed
  <2>1. CASE r = n /\ q = p
    BY <1>4, <2>1
  <2>2. CASE r = p /\ q = n
    <3>1. q \in PeersOf(r) /\ r \notin PeersOf(q)
      BY <1>1, <1>3, <2>2
    <3> QED
      BY <1>4, <3>1, CurrentInvs DEF KeyLearned
  <2>3. CASE ~(r = n /\ q = p) /\ ~(r = p /\ q = n)
    <3>1. r \in PeersOf(q) /\ q \in PeersOf(r) /\ ~known[q][r].shared
      BY <1>2, <1>3, <2>3
    <3> QED
      BY <1>4, <3>1, CurrentInvs DEF ShareLearned
  <2> QED
    BY <2>1, <2>2, <2>3
<1> QED
  BY <1>5, <1>6, <1>7, <1>8, <1>9, <1>10, <1>11, <1>12 DEF CurrentInv

\* A message is dropped.
LEMMA DropCurrent ==
  ASSUME TypeOK, CurrentInv, NEW n \in Nodes, NEW m \in net, Drop(n, m)
  PROVE  CurrentInv'
<1>1. /\ net' = net \ {m} /\ m.to = n /\ known[n][m.from] # Absent
      /\ dropped' = dropped \cup IF m.kind = "party" THEN {<<n, m.from>>} ELSE {}
      /\ UNCHANGED <<own, known, proc, list, sent, ok, failed>>
      /\ \A q \in Nodes : PeersOf(q)' = PeersOf(q)
  BY DEF Drop, Received, PeersOf, Members
<1>2. \A q, r \in Nodes : /\ InFlight(q, r)' => InFlight(q, r)
                          /\ InFlight(q, r) => InFlight(q, r)' \/ <<r, q>> \in dropped'
  BY <1>1 DEF InFlight
<1>3. SentCurrent'
  <2>1. \A l \in net : l.kind = "party" => l.from \in Nodes
    BY DEF TypeOK, Starts, SignStarts, PartyIds
  <2> QED
    BY <1>1, <2>1, CurrentInvs DEF SentCurrent
<1>4. KeyLearned' /\ KeyNew' /\ KeyOld'
  <2>1. KeyLearned'
    BY <1>1, <1>2, CurrentInvs DEF KeyLearned
  <2>2. KeyNew'
    BY <1>1, <1>2, CurrentInvs DEF KeyNew
  <2>3. KeyOld'
    BY <1>1, CurrentInvs DEF KeyOld
  <2> QED
    BY <2>1, <2>2, <2>3
<1>5. KeyHeld'
  <2>1. \A q, r \in Nodes : <<q, r>> \in dropped' => r \in PeersOf(q)
    BY <1>1, PartyFacts, CurrentInvs DEF KeyHeld
  <2> QED
    BY <1>1, <2>1, CurrentInvs DEF KeyHeld
<1>6. AgreeInv'
  BY <1>1, AgreeStep, CurrentInvs
<1>7. OthersMarked'
  BY <1>1, CurrentInvs DEF OthersMarked
<1>8. ShareLearned'
  BY <1>1, <1>2, CurrentInvs DEF ShareLearned, Failed
<1> QED
  BY <1>3, <1>4, <1>5, <1>6, <1>7, <1>8 DEF CurrentInv

\* A PartyId message is handled: what the node knows is what the peer is now.
LEMMA LearnCurrent ==
  ASSUME TypeOK, CurrentInv, NEW n \in Nodes, NEW m \in net, Learn(n, m)
  PROVE  CurrentInv'
<1> DEFINE f == m.from
<1>1. /\ m.kind = "party" /\ m.to = n /\ f \in Nodes /\ m.party = own[f]
      /\ n \in PeersOf(f) /\ f \in PeersOf(n) /\ f # n /\ InFlight(f, n)
  BY ReceivedTypes, PartyFacts, CurrentInvs DEF Learn, Received, SentCurrent, InFlight
<1>2. /\ net' = net \ {m} /\ known' = [known EXCEPT ![n][f] = own[f]] /\ proc[n] = NoOp
      /\ UNCHANGED <<own, proc, list, sent, ok, failed, dropped>>
  BY <1>1 DEF Learn, Received, Idle
<1>3. \A q, r \in Nodes : known'[q][r] = IF q = n /\ r = f THEN own[f] ELSE known[q][r]
  BY <1>1, <1>2 DEF TypeOK, Lists
<1>4. \A q \in Nodes : PeersOf(q)' = PeersOf(q)
  BY <1>1, <1>3, PartyFacts DEF PeersOf, Members
<1>5. \A l \in net : l.kind = "party" /\ l.from = f /\ l.to = n => l = m
  <2> SUFFICES ASSUME NEW l \in net, l.kind = "party", l.from = f, l.to = n PROVE l = m
    OBVIOUS
  <2>1. l \in PartyIds /\ m \in PartyIds
    BY <1>1 DEF TypeOK, Starts, SignStarts
  <2>2. l.party = m.party
    BY <1>1, CurrentInvs DEF SentCurrent
  <2> QED
    BY <1>1, <2>1, <2>2 DEF PartyIds
<1>6. \A q, r \in Nodes : InFlight(q, r)' <=> InFlight(q, r) /\ ~(q = f /\ r = n)
  BY <1>1, <1>2, <1>5 DEF InFlight
<1>7. SentCurrent'
  <2>1. \A l \in net : l.kind = "party" => l.from \in Nodes
    BY DEF TypeOK, Starts, SignStarts, PartyIds
  <2> QED
    BY <1>2, <1>4, <2>1, CurrentInvs DEF SentCurrent
<1> HIDE DEF f
<1>8. KeyLearned'
  BY <1>1, <1>2, <1>3, <1>4, <1>6, CurrentInvs DEF KeyLearned
<1>9. KeyNew'
  BY <1>1, <1>2, <1>3, <1>4, <1>6, CurrentInvs DEF KeyNew
<1>10. KeyOld'
  <2>1. own[f].key <= own[f].key
    BY <1>1, PartyFacts
  <2> QED
    BY <1>1, <1>2, <1>3, <1>4, <2>1, CurrentInvs DEF KeyOld
<1>11. KeyHeld'
  BY <1>2, <1>4, CurrentInvs DEF KeyHeld
<1>12. AgreeInv'
  BY <1>2, <1>4, AgreeStep, CurrentInvs
<1>13. OthersMarked'
  <2> SUFFICES ASSUME NEW o \in KeyOps, NEW q \in Nodes, NEW r \in Nodes, <<o, q>> \in ok,
                      r \in Members(list[o][q]), r # q, proc[r] = o
               PROVE  known'[q][r].shared
    BY <1>2 DEF OthersMarked
  <2>1. CASE q = n /\ r = f
    <3>1. <<o, n>> \in sent /\ f \in Members(list[o][n])
      BY <2>1, CurrentInvs DEF AgreeInv
    <3>2. list[o][f][f].key = list[o][n][f].key
      BY <3>1, CurrentInvs DEF AgreeInv
    <3>3. list[o][f][f].key = own[f].key
      BY <1>1, <2>1, CurrentInvs DEF KeyHeld
    <3>4. list[o][n][f].key # own[f].key
      BY <1>1, <3>1, CurrentInvs DEF KeyNew
    <3> QED
      BY <3>2, <3>3, <3>4
  <2>2. CASE ~(q = n /\ r = f)
    BY <1>3, <2>2, CurrentInvs DEF OthersMarked
  <2> QED
    BY <2>1, <2>2
<1>14. ShareLearned'
  BY <1>1, <1>2, <1>3, <1>4, <1>6, CurrentInvs DEF ShareLearned, Failed
<1> QED
  BY <1>7, <1>8, <1>9, <1>10, <1>11, <1>12, <1>13, <1>14 DEF CurrentInv

\* Sending the last messages, a deadline, and the end of a signature.
LEMMA OthersCurrent ==
  ASSUME TypeOK, CurrentInv, NEW n \in Nodes, NEW o \in Ops,
         SendLast(o, n) \/ Fail(o, n) \/ DoneSign(o, n)
  PROVE  CurrentInv'
<1>1. /\ UNCHANGED <<own, known, list, net, dropped>>
      /\ \A q \in Nodes : PeersOf(q)' = PeersOf(q)
      /\ \A q, r \in Nodes : InFlight(q, r)' <=> InFlight(q, r)
      /\ \A e \in KeyOps, q \in Nodes : Entered(e, q)' <=> Entered(e, q)
  BY DEF SendLast, Fail, DoneSign, Ends, PeersOf, Members, InFlight, Entered
<1>2. SentCurrent' /\ KeyLearned' /\ KeyNew' /\ KeyOld'
  <2>1. SentCurrent'
    <3>1. \A m \in net : m.kind = "party" => m.from \in Nodes
      BY DEF TypeOK, Starts, SignStarts, PartyIds
    <3> QED
      BY <1>1, <3>1, CurrentInvs DEF SentCurrent
  <2>2. KeyLearned'
    BY <1>1, CurrentInvs DEF KeyLearned
  <2>3. KeyNew'
    BY <1>1, CurrentInvs DEF KeyNew
  <2>4. KeyOld'
    BY <1>1, CurrentInvs DEF KeyOld
  <2> QED
    BY <2>1, <2>2, <2>3, <2>4
<1>3. \A e \in KeyOps, q \in Nodes : proc'[q] = e => proc[q] = e
  BY PartyFacts DEF TypeOK, SendLast, Fail, DoneSign, Ends
<1>4. KeyHeld'
  BY <1>1, <1>3, CurrentInvs DEF KeyHeld
<1>5. \A e \in KeyOps, q \in Nodes : <<e, q>> \in ok' <=> <<e, q>> \in ok
  <2>1. DoneSign(o, n) => o \notin KeyOps
    BY KindsAssumption DEF DoneSign, KeyOps
  <2> QED
    BY <2>1 DEF SendLast, Fail, DoneSign, Ends
<1>6. OthersMarked'
  BY <1>1, <1>3, <1>5, CurrentInvs DEF OthersMarked
<1>7. AgreeInv'
  <2>1. CASE SendLast(o, n)
    <3>1. sent' = sent \cup {<<o, n>>}
      BY <2>1 DEF SendLast
    <3>2. o \in KeyOps => Entered(o, n) /\ \A p \in Members(list[o][n]) :
            /\ Members(list[o][p]) = Members(list[o][n])
            /\ \A q \in Members(list[o][n]) : list[o][p][q].key = list[o][n][q].key
      BY ZenonT(30), <2>1, CurrentInvs DEF SendLast, Agree, KeyHeld, Entered
    <3> QED
      BY <1>1, <1>5, <3>1, <3>2, AgreeStep, CurrentInvs
  <2>2. CASE Fail(o, n) \/ DoneSign(o, n)
    <3>1. UNCHANGED sent
      BY <2>2 DEF Fail, DoneSign, Ends
    <3> QED
      BY <1>1, <1>5, <3>1, AgreeStep, CurrentInvs
  <2> QED
    BY <2>1, <2>2
<1>8. ShareLearned'
  <2> SUFFICES ASSUME NEW q \in Nodes, NEW p \in Nodes, p \in PeersOf(q), q \in PeersOf(p),
                      own[p].shared, ~known[q][p].shared
               PROVE  \/ <<q, p>> \in dropped \/ InFlight(p, q) \/ Failed(q)'
                      \/ \E e \in KeyOps : proc'[q] = e /\ p \in Members(list[e][q])
    BY <1>1 DEF ShareLearned
  <2>1. \/ <<q, p>> \in dropped \/ InFlight(p, q) \/ Failed(q)
        \/ \E e \in KeyOps : proc[q] = e /\ p \in Members(list[e][q])
    BY CurrentInvs DEF ShareLearned
  <2>2. Failed(q) => Failed(q)'
    BY DEF Failed, SendLast, Fail, DoneSign, Ends
  <2>3. ASSUME NEW e \in KeyOps, proc[q] = e PROVE proc'[q] = e \/ Failed(q)'
    <3>1. CASE Fail(o, n) /\ q = n
      BY <3>1 DEF Fail, Failed
    <3>2. CASE ~(Fail(o, n) /\ q = n)
      BY <2>3, <3>2, KindsAssumption DEF TypeOK, SendLast, Fail, DoneSign, Ends, KeyOps
    <3> QED
      BY <3>1, <3>2
  <2> QED
    BY <2>1, <2>2, <2>3
<1> QED
  BY <1>2, <1>4, <1>6, <1>7, <1>8 DEF CurrentInv


\* A key generation or a resharing ends: nobody waits for a party of this node, all
\* parties have seen its PartyKey, and a new one is sent to all peers.
LEMMA DoneCurrent ==
  ASSUME TypeOK, MarkInv, CurrentInv, NEW n \in Nodes, NEW o \in KeyOps,
         DoneKeyGen(o, n) \/ DoneReshare(o, n)
  PROVE  CurrentInv'
<1>1. /\ proc[n] = o /\ ok' = ok \cup {<<o, n>>}
      /\ \A p \in Members(list[o][n]) : <<o, p>> \in sent
      /\ UNCHANGED <<list, sent, failed, dropped>>
      /\ Mark(n) /\ o \in Ops
  BY DEF DoneKeyGen, DoneReshare, Ends, KeyOps, Ops
<1>2. \A q \in Nodes : proc'[q] = IF q = n THEN NoOp ELSE proc[q]
  BY DEF TypeOK, DoneKeyGen, DoneReshare, Ends
<1>3. /\ \A q \in Nodes : q # n => own'[q] = own[q]
      /\ own[n].key \in Nat /\ own'[n].key \in {own[n].key, own[n].key + 1}
      /\ \/ own'[n].key = own[n].key /\ net' = net
         \/ /\ own'[n].key = own[n].key + 1 /\ own[n].shared
            /\ net' = net \cup {MyParty(n, own'[n], p) : p \in PeersOf(n)}
  BY DEF TypeOK, DoneKeyGen, DoneReshare
<1>4. \A q \in Nodes : PeersOf(q)' = PeersOf(q)
  <2>1. \A q, p \in Nodes : known[q][p] # Absent => [known[q][p] EXCEPT !.shared = TRUE] # Absent
    <3> SUFFICES ASSUME NEW q \in Nodes, NEW p \in Nodes, known[q][p] # Absent
                 PROVE  [known[q][p] EXCEPT !.shared = TRUE] # Absent
      OBVIOUS
    <3>1. known[q][p] \in Party
      BY DEF TypeOK, Lists
    <3>2. [known[q][p] EXCEPT !.shared = TRUE] \in Party
      BY <3>1 DEF Party
    <3> QED
      BY <3>2, KeysAssumption DEF Party
  <2> QED
    BY <1>1, <2>1 DEF TypeOK, Lists, Mark, PeersOf, Members
<1>5. \A q \in Nodes : \A p \in PeersOf(q) :
        /\ known'[q][p].key = known[q][p].key
        /\ known'[q][p].shared <=> q = n \/ known[q][p].shared
  <2> SUFFICES ASSUME NEW q \in Nodes, NEW p \in PeersOf(q)
               PROVE  /\ known'[q][p].key = known[q][p].key
                      /\ known'[q][p].shared <=> q = n \/ known[q][p].shared
    OBVIOUS
  <2>1. p \in Nodes /\ known[q][p] # Absent /\ known[q][p] \in Party
    BY PartyFacts DEF PeersOf, Members
  <2>2. CASE q = n
    <3>1. known'[q][p] = [known[q][p] EXCEPT !.shared = TRUE]
      BY <1>1, <2>1, <2>2 DEF TypeOK, Mark
    <3> QED
      BY <2>1, <2>2, <3>1 DEF Party
  <2>3. CASE q # n
    <3>1. known'[q][p] = known[q][p]
      BY <1>1, <2>1, <2>3 DEF TypeOK, Mark
    <3>2. known[q][p].shared \in BOOLEAN
      BY <2>1 DEF Party
    <3> QED
      BY <2>3, <3>1
  <2> QED
    BY <2>2, <2>3
<1>6. /\ n \in Members(list[o][n]) /\ PeersOf(n) \subseteq Members(list[o][n])
      /\ \A p \in Members(list[o][n]) : /\ n \in Members(list[o][p])
                                        /\ list[o][p][n].key = own[n].key
  <2>1. n \in Members(list[o][n]) /\ list[o][n][n].key = own[n].key
    BY <1>1, CurrentInvs DEF KeyHeld
  <2>2. <<o, n>> \in sent
    BY <1>1, <2>1
  <2>3. \A p \in Members(list[o][n]) : /\ Members(list[o][p]) = Members(list[o][n])
                                       /\ list[o][p][n].key = list[o][n][n].key
    BY <2>1, <2>2, CurrentInvs DEF AgreeInv
  <2>4. PeersOf(n) \subseteq Members(list[o][n])
    BY <1>1 DEF MarkInv, PeersTakePart
  <2> QED
    BY <2>1, <2>3, <2>4
<1>7. \A m \in net : m.kind = "party" => m.from \in Nodes /\ m.to \in Nodes /\ m.from # n
  <2> SUFFICES ASSUME NEW m \in net, m.kind = "party"
               PROVE  m.from \in Nodes /\ m.to \in Nodes /\ m.from # n
    OBVIOUS
  <2>1. m.from \in Nodes /\ m.to \in Nodes
    BY DEF TypeOK, Starts, SignStarts, PartyIds
  <2>2. ASSUME m.from = n PROVE FALSE
    <3>1. m.to \in PeersOf(n) /\ InFlight(n, m.to)
      BY <2>2, CurrentInvs DEF SentCurrent, InFlight
    <3>2. n \in Members(list[o][m.to]) /\ list[o][m.to][n].key = own[n].key
      BY <1>6, <3>1
    <3> QED
      BY <2>1, <3>1, <3>2, CurrentInvs DEF KeyNew
  <2> QED
    BY <2>1, <2>2
<1>8. \A q, p \in Nodes :
        /\ InFlight(q, p) => q # n /\ InFlight(q, p)'
        /\ InFlight(q, p)' => \/ InFlight(q, p)
                              \/ q = n /\ p \in PeersOf(n) /\ own'[n].key = own[n].key + 1
  <2>1. \A q, p \in Nodes : InFlight(q, p) => q # n /\ InFlight(q, p)'
    BY <1>3, <1>7 DEF InFlight
  <2>2. \A q, p \in Nodes : InFlight(q, p)' =>
          \/ InFlight(q, p)
          \/ q = n /\ p \in PeersOf(n) /\ own'[n].key = own[n].key + 1
    BY <1>3 DEF InFlight, MyParty
  <2> QED
    BY <2>1, <2>2
<1>9. SentCurrent'
  <2> SUFFICES ASSUME NEW m \in net', m.kind = "party"
               PROVE  m.party = own'[m.from] /\ m.to \in PeersOf(m.from)'
    BY DEF SentCurrent
  <2>1. CASE m \in net
    BY <1>3, <1>4, <1>7, <2>1, CurrentInvs DEF SentCurrent
  <2>2. CASE m \notin net
    <3>1. m.from = n /\ m.party = own'[n] /\ m.to \in PeersOf(n)
      BY <1>3, <2>2 DEF MyParty
    <3> QED
      BY <1>4, <3>1
  <2> QED
    BY <2>1, <2>2
<1>10. KeyLearned'
  <2> SUFFICES ASSUME NEW q \in Nodes, NEW p \in Nodes, q \in PeersOf(p)
               PROVE  \/ <<q, p>> \in dropped \/ InFlight(p, q)'
                      \/ p \in PeersOf(q) /\ known'[q][p].key = own'[p].key
    BY <1>1, <1>4 DEF KeyLearned
  <2>1. CASE p = n /\ own'[n].key = own[n].key + 1
    <3>1. net' = net \cup {MyParty(n, own'[n], r) : r \in PeersOf(n)}
      BY <1>3, <2>1
    <3>2. MyParty(n, own'[n], q) \in net'
      BY <2>1, <3>1
    <3> QED
      BY <2>1, <3>2 DEF InFlight, MyParty
  <2>2. CASE ~(p = n /\ own'[n].key = own[n].key + 1)
    <3>1. own'[p].key = own[p].key
      BY <1>3, <2>2
    <3> QED
      BY <1>5, <1>8, <3>1, CurrentInvs DEF KeyLearned
  <2> QED
    BY <2>1, <2>2
<1>11. KeyNew'
  <2> SUFFICES ASSUME NEW q \in Nodes, NEW p \in Nodes, InFlight(p, q)'
               PROVE  /\ p \in PeersOf(q) => known[q][p].key # own'[p].key
                      /\ \A e \in KeyOps : p \in Members(list[e][q]) =>
                           list[e][q][p].key # own'[p].key
    BY <1>1, <1>4, <1>5 DEF KeyNew
  <2>1. CASE InFlight(p, q)
    BY <1>3, <1>8, <2>1, CurrentInvs DEF KeyNew
  <2>2. CASE p = n /\ own'[n].key = own[n].key + 1
    <3>1. \A k \in Nat : k <= own[n].key => k # own'[n].key
      BY <1>3, <2>2
    <3>2. p \in PeersOf(q) => \/ known[q][p].key = NoKey
                              \/ known[q][p].key \in Nat /\ known[q][p].key <= own[n].key
      BY <2>2, PartyFacts, CurrentInvs DEF KeyOld
    <3>3. own'[n].key # NoKey
      BY <1>3, PartyFacts
    <3>4. \A e \in KeyOps : p \in Members(list[e][q]) =>
            list[e][q][p].key \in Nat /\ list[e][q][p].key <= own[n].key
      BY <2>2, CurrentInvs DEF KeyOld
    <3> QED
      BY <2>2, <3>1, <3>2, <3>3, <3>4
  <2> QED
    BY <1>8, <2>1, <2>2
<1>12. KeyOld'
  <2>1. \A p \in Nodes, k \in Nat : k <= own[p].key => k <= own'[p].key
    <3> SUFFICES ASSUME NEW p \in Nodes, NEW k \in Nat, k <= own[p].key
                 PROVE  k <= own'[p].key
      OBVIOUS
    <3>1. CASE p = n
      BY <1>3, <3>1
    <3>2. CASE p # n
      BY <1>3, <3>2
    <3> QED
      BY <3>1, <3>2
  <2>2. \A q, p \in Nodes : p \in PeersOf(q) /\ known'[q][p].key # NoKey =>
          q \in PeersOf(p) /\ known'[q][p].key <= own'[p].key
    <3> SUFFICES ASSUME NEW q \in Nodes, NEW p \in Nodes, p \in PeersOf(q),
                        known'[q][p].key # NoKey
                 PROVE  q \in PeersOf(p) /\ known'[q][p].key <= own'[p].key
      OBVIOUS
    <3>1. known'[q][p].key = known[q][p].key /\ known[q][p].key \in Nat
      BY <1>5, PartyFacts
    <3>2. q \in PeersOf(p) /\ known[q][p].key <= own[p].key
      BY <3>1, CurrentInvs DEF KeyOld
    <3> QED
      BY <2>1, <3>1, <3>2
  <2>3. \A q, p \in Nodes, e \in KeyOps : p \in Members(list[e][q]) =>
          /\ list[e][q][p].key \in Nat /\ list[e][q][p].key <= own'[p].key
          /\ p # q => q \in PeersOf(p)
    BY <2>1, CurrentInvs DEF KeyOld
  <2> QED
    BY <1>1, <1>4, <2>2, <2>3 DEF KeyOld
<1>13. KeyHeld'
  <2> SUFFICES ASSUME NEW e \in KeyOps, NEW p \in Nodes, proc'[p] = e
               PROVE  p \in Members(list[e][p]) /\ list[e][p][p].key = own'[p].key
    BY <1>1, <1>4, CurrentInvs DEF KeyHeld
  <2>1. p # n /\ proc[p] = e
    BY <1>2, PartyFacts
  <2> QED
    BY <1>3, <2>1, CurrentInvs DEF KeyHeld
<1>14. AgreeInv'
  <2>1. \A e \in KeyOps, q \in Nodes : <<e, q>> \in ok' =>
          \/ <<e, q>> \in ok
          \/ <<e, q>> \in sent /\ \A p \in Members(list[e][q]) : <<e, p>> \in sent
    BY <1>1, <1>6
  <2> QED
    BY <1>1, <1>4, <2>1, AgreeStep, CurrentInvs
<1>15. OthersMarked'
  <2> SUFFICES ASSUME NEW e \in KeyOps, NEW q \in Nodes, NEW p \in Nodes, <<e, q>> \in ok',
                      p \in Members(list[e][q]), p # q, proc'[p] = e
               PROVE  known'[q][p].shared
    BY <1>1 DEF OthersMarked
  <2>1. p \in PeersOf(q) /\ p # n /\ proc[p] = e
    BY <1>2, PartyFacts, CurrentInvs DEF AgreeInv
  <2>2. CASE q = n
    BY <1>5, <2>1, <2>2
  <2>3. CASE q # n
    <3>1. <<e, q>> \in ok
      BY <1>1, <2>3
    <3>2. known[q][p].shared
      BY <2>1, <3>1, CurrentInvs DEF OthersMarked
    <3> QED
      BY <1>5, <2>1, <3>2
  <2> QED
    BY <2>2, <2>3
<1>16. ShareLearned'
  <2> SUFFICES ASSUME NEW q \in Nodes, NEW p \in Nodes, p \in PeersOf(q), q \in PeersOf(p),
                      own'[p].shared, ~known'[q][p].shared
               PROVE  \/ <<q, p>> \in dropped \/ InFlight(p, q)' \/ Failed(q)
                      \/ \E e \in KeyOps : proc'[q] = e /\ p \in Members(list[e][q])
    BY <1>1, <1>4 DEF ShareLearned, Failed
  <2>1. q # n /\ ~known[q][p].shared /\ proc'[q] = proc[q]
    BY <1>2, <1>5
  <2>2. CASE own[p].shared
    BY <1>8, <2>1, <2>2, CurrentInvs DEF ShareLearned
  <2>3. CASE ~own[p].shared
    <3>1. p = n
      BY <1>3, <2>3
    <3>2. q \in Members(list[o][n]) /\ n \in Members(list[o][q]) /\ <<o, q>> \in sent
      BY <1>1, <1>6, <3>1
    <3>3. proc[q] = o \/ <<o, q>> \in ok \/ <<o, q>> \in failed
      BY <1>1, <3>2 DEF MarkInv, SentInside
    <3>4. <<o, q>> \notin ok
      BY <1>1, <2>1, <3>1, <3>2, CurrentInvs DEF OthersMarked
    <3> QED
      BY <1>1, <2>1, <3>1, <3>2, <3>3, <3>4 DEF Failed
  <2> QED
    BY <2>2, <2>3
<1> QED
  BY <1>9, <1>10, <1>11, <1>12, <1>13, <1>14, <1>15, <1>16 DEF CurrentInv

LEMMA CurrentStep ==
  ASSUME TypeOK, MarkInv, CurrentInv, [Next]_vars
  PROVE  CurrentInv'
<1>1. CASE UNCHANGED vars
  <2>1. AgreeInv'
    <3>1. UNCHANGED <<list, sent, ok>> /\ \A q \in Nodes : PeersOf(q)' = PeersOf(q)
      BY <1>1 DEF vars, PeersOf, Members
    <3> QED
      BY <3>1, AgreeStep, CurrentInvs
  <2>2. SentCurrent' /\ KeyHeld' /\ OthersMarked'
    BY <1>1, CurrentInvs DEF vars, SentCurrent, KeyHeld, OthersMarked, PeersOf, Members
  <2>3. KeyLearned' /\ KeyNew' /\ KeyOld' /\ ShareLearned'
    <3>1. /\ UNCHANGED <<own, known, proc, list, dropped>>
          /\ \A q \in Nodes : PeersOf(q)' = PeersOf(q) /\ (Failed(q)' <=> Failed(q))
          /\ \A q, p \in Nodes : InFlight(q, p)' <=> InFlight(q, p)
      BY <1>1 DEF vars, PeersOf, Members, Failed, InFlight
    <3>2. KeyLearned'
      BY <3>1, CurrentInvs DEF KeyLearned
    <3>3. KeyNew'
      BY <3>1, CurrentInvs DEF KeyNew
    <3>4. KeyOld'
      BY <3>1, CurrentInvs DEF KeyOld
    <3>5. ShareLearned'
      BY <3>1, CurrentInvs DEF ShareLearned
    <3> QED
      BY <3>2, <3>3, <3>4, <3>5
  <2> QED
    BY <2>1, <2>2, <2>3 DEF CurrentInv
<1>2. CASE Next
  <2>1. PICK n \in Nodes :
          \/ \E p \in Nodes : Launch(n, p)
          \/ \E m \in net : Drop(n, m) \/ Learn(n, m) \/ HandleStart(n, m) \/ HandleSign(n, m)
          \/ \E o \in Ops : \/ Call(n, o) \/ CallSign(n, o) \/ SendLast(o, n) \/ Fail(o, n)
                            \/ DoneKeyGen(o, n) \/ DoneReshare(o, n) \/ DoneSign(o, n)
    BY <1>2 DEF Next
  <2>2. CASE \/ \E m \in net : HandleStart(n, m) \/ HandleSign(n, m)
             \/ \E o \in Ops : Call(n, o) \/ CallSign(n, o)
    BY <2>2, StartEnters, SignEnters, CallEnters, CallSignEnters, EnteringCurrent
  <2>3. ASSUME NEW o \in Ops, DoneKeyGen(o, n) \/ DoneReshare(o, n)
        PROVE  CurrentInv'
    <3>1. o \in KeyOps
      BY <2>3 DEF DoneKeyGen, DoneReshare, KeyOps
    <3> QED
      BY <2>3, <3>1, DoneCurrent
  <2> QED
    BY <2>1, <2>2, <2>3, LaunchCurrent, LearnCurrent, DropCurrent, OthersCurrent
<1> QED
  BY <1>1, <1>2 DEF vars

LEMMA InitCurrent == Init => CurrentInv
<1> SUFFICES ASSUME Init PROVE CurrentInv
  OBVIOUS
<1>1. TypeOK
  BY InitTypes
<1>2. \A n, p \in Nodes : p \in PeersOf(n) => known[n][p] = own[p] /\ n \in PeersOf(p)
  <2>1. \A n, p \in Nodes : p \in PeersOf(n) <=> p # n /\ {n, p} \subseteq Network
    BY <1>1, PartyFacts DEF Init
  <2> QED
    BY <1>1, <2>1 DEF Init
<1>3. /\ sent = {} /\ ok = {} /\ net = {} /\ dropped = {}
      /\ \A n \in Nodes : proc[n] = NoOp
      /\ \A o \in KeyOps, n \in Nodes : Members(list[o][n]) = {} /\ ~Entered(o, n)
  BY <1>1, PartyFacts DEF Init, NoList, Members, Entered
<1>4. \A n, p \in Nodes : ~InFlight(n, p)
  BY <1>3 DEF InFlight
<1>5. SentCurrent /\ KeyLearned /\ KeyNew
  BY <1>2, <1>3, <1>4 DEF SentCurrent, KeyLearned, KeyNew
<1>6. KeyOld
  BY <1>1, <1>2, <1>3, PartyFacts DEF KeyOld
<1>7. KeyHeld /\ OthersMarked
  BY <1>1, <1>3, PartyFacts DEF KeyHeld, OthersMarked
<1>8. AgreeInv
  BY <1>3 DEF AgreeInv
<1>9. ShareLearned
  BY <1>2 DEF ShareLearned
<1> QED
  BY <1>5, <1>6, <1>7, <1>8, <1>9 DEF CurrentInv

LEMMA QuietCurrent ==
  ASSUME TypeOK, MarkInv, CurrentInv
  PROVE  PartiesCurrent
<1> SUFFICES ASSUME Quiet, NEW n \in Nodes, NEW p \in Nodes, p \in PeersOf(n), n \in PeersOf(p),
                    <<n, p>> \notin dropped
             PROVE  /\ known[n][p].key = own[p].key
                    /\ known[n][p].shared = own[p].shared \/ Failed(n) \/ Failed(p)
  BY DEF PartiesCurrent
<1>1. proc[n] = NoOp /\ proc[p] = NoOp /\ known[n][p] # Absent
  BY PartyFacts DEF Quiet, Idle
<1>2. ~InFlight(p, n)
  BY <1>1 DEF Quiet, InFlight
<1>3. known[n][p].key = own[p].key
  BY <1>2, CurrentInvs DEF KeyLearned
<1>4. known[n][p].shared /\ ~own[p].shared => Failed(p)
  <2> SUFFICES ASSUME known[n][p].shared, ~own[p].shared
               PROVE  Failed(p)
    OBVIOUS
  <2>1. PICK o \in KeyOps : proc[p] = o \/ <<o, p>> \in failed
    BY DEF MarkInv, MarkedTookPart, KeyOps
  <2> QED
    BY <1>1, <2>1, PartyFacts DEF Failed
<1>5. own[p].shared /\ ~known[n][p].shared => Failed(n)
  BY <1>1, <1>2, PartyFacts, CurrentInvs DEF ShareLearned
<1>6. known[n][p].shared \in BOOLEAN /\ own[p].shared \in BOOLEAN
  BY PartyFacts DEF Party
<1> QED
  BY <1>3, <1>4, <1>5, <1>6

\* At rest a node knows the PartyKey that each of its peers has now, and whether
\* the peer has a share, unless it dropped a PartyId message of that peer or, for
\* the share, a deadline passed at one of the two.
THEOREM PartiesCurrentCorrect == Spec => []PartiesCurrent
<1>1. Init => TypeOK /\ MarkInv /\ CurrentInv
  BY InitMark, InitCurrent
<1>2. TypeOK /\ MarkInv /\ CurrentInv /\ [Next]_vars => (TypeOK /\ MarkInv /\ CurrentInv)'
  BY TypeStep, MarkStep, CurrentStep
<1>3. TypeOK /\ MarkInv /\ CurrentInv => PartiesCurrent
  BY QuietCurrent
<1> QED
  BY <1>1, <1>2, <1>3, PTL DEF Spec
==============================================================================
