------------------------------- MODULE Reshare -------------------------------
(***************************************************************************)
(* One node while a key is handed to a new committee: Reshare and          *)
(* handleReshare of reshare.go, ReshareKey and the updates of              *)
(* tss/reshare.go.                                                         *)
(*                                                                         *)
(* A node that has a share takes part twice, with a party in the OLD       *)
(* committee and one in the NEW committee, which talk to each other through *)
(* the node's own receivedMsg.  Unlike in key generation, every update is  *)
(* handled in a goroutine of its own, every message to other parties is    *)
(* handed to the caller by a goroutine of its own, and the parties are not *)
(* reset.  Other nodes, and the parties of the tss library, are the        *)
(* environment.  The gap between the load and the store of each            *)
(* aProcessIsRunning is the subject of the module Operation.               *)
(***************************************************************************)
EXTENDS Naturals, FiniteSets

CONSTANTS
  Me,         \* this node
  Peers,      \* the nodes it is connected to at the start
  Reshares,   \* identifiers of resharings
  Remote,     \* the resharings another node initiates
  Earlier,    \* at most one of them, which may be over before the start
  Threshold,  \* thresholdParty
  Faults,     \* what may go wrong, a subset of FaultNames
  NoOp,       \* no resharing, Go's nil
  NoShare,    \* privateKey is nil
  Empty       \* save data without a share, or none

Hosts == Peers \cup {Me}
Sides == {"old", "new"}   \* the committees, ReshareType of a message
Rounds == 1..4

\* "deadline" the deadline of a resharing passes; "loss" a connection breaks;
\* "start" the library's Start returns an error; "race" the goroutine that
\* sends a message to the old committee reads its ReshareType too late;
\* "broadcast" the library flags a message as a broadcast; "store" the storage
\* refuses a share; "convert" the signer cannot convert a message or a result;
\* "late" an earlier resharing met its deadline.
FaultNames == {"deadline", "loss", "start", "race", "broadcast", "store", "convert",
               "late"}

\* IsBroadcast of a message.
Flags == IF "broadcast" \in Faults THEN BOOLEAN ELSE {FALSE}

ASSUME HostsAssumption == Me \notin Peers /\ (Earlier # {} => Peers # {})
ASSUME ResharesAssumption ==
  /\ Remote \subseteq Reshares /\ Earlier \subseteq Reshares
  /\ \A o, e \in Earlier : o = e
  /\ NoOp \notin Reshares
ASSUME SharesAssumption ==
  NoShare \notin Nat /\ Empty \notin Nat /\ NoShare # Empty
ASSUME ReshareBounds == Threshold \in Nat /\ Faults \subseteq FaultNames

VARIABLES
  busy,      \* node.aProcessIsRunning
  peers,     \* keys of node.peers
  keyed,     \* peers whose HasPrivateKey is true
  stored,    \* what StorePrivateKey was given last
  tssBusy,   \* tssSigner.aProcessIsRunning
  share,     \* tssSigner.privateKey, named by the party key it is coupled with
  partyKey,  \* partyId.Key
  newKey,    \* newPartyId.Key; a random key is the next number
  ptr,       \* reshareParty and reshareNewParty
  members,   \* hosts of the two committees of a resharing
  caller,    \* where Reshare or handleReshare is
  result,    \* what it returned
  worker,    \* where ReshareKey is
  ended,     \* reSharingEnded
  pending,   \* goroutines that send on messageCh
  hold,      \* the lock of a party, and what its holder does
  awaits,    \* the round whose messages a party waits for
  got,       \* the messages a party has stored
  out,       \* the round a party sends on outCh
  begun,     \* updates that have found their party, or given up
  waiting,   \* updates that wait for the lock of their party
  posted,    \* update messages sent to this node
  sent,      \* update messages this node has sent
  down,      \* peers whose connection is broken
  expired    \* resharings whose deadline has passed

nodeVars  == <<busy, peers, keyed, stored>>
tssVars   == <<tssBusy, share, partyKey, newKey, ptr>>
callVars  == <<caller, result, members>>
workVars  == <<worker, ended, pending>>
partyVars == <<hold, awaits, got, out>>
loopVars  == <<begun, waiting>>
netVars   == <<posted, sent, down, expired>>
vars == <<nodeVars, tssVars, callVars, workVars, partyVars, loopVars, netVars>>

Messages == [op : Reshares, from : Hosts, round : Rounds, side : Sides]
Outgoing == [op : Reshares, to : Peers, round : Rounds, side : Sides]
Senders  == [op : Reshares, round : Rounds, side : Sides, to : SUBSET Hosts]

Errors == {"refused", "deadline", "library", "convert"}     \* sent on ErrCh
Results == Errors \cup {"none", "ok", "busy", "notEnough", "unknown"}
CallerAt == {"idle", "offered", "select", "finish", "leaving", "returned"}
WorkerAt == Errors \cup {"none", "enter", "createNew", "startOld", "select",
                         "done", "drain", "clear", "gone"}
HoldAt == {"none", "created", "ready", "failed", "free", "start", "step",
           "send", "end"}

Inside(o) == caller[o] \in {"select", "finish", "leaving"}

\* The counter of the wait group is not zero.
Updating == \/ waiting # {}
            \/ \E o \in Reshares, s \in Sides : hold[o][s] \in {"step", "send", "end"}

\* The committees this node has a party in.
OwnSides(o) == {s \in Sides : Me \in members[o][s]}

TypeOK ==
  /\ busy \in BOOLEAN /\ tssBusy \in BOOLEAN
  /\ peers \subseteq Peers /\ keyed \subseteq Peers
  /\ {share, stored} \subseteq Nat \cup {NoShare, Empty}
  /\ partyKey \in Nat /\ newKey \in Nat
  /\ ptr \in [Sides -> Reshares \cup {NoOp}]
  /\ members \in [Reshares -> [Sides -> SUBSET Hosts]]
  /\ caller \in [Reshares -> CallerAt] /\ result \in [Reshares -> Results]
  /\ worker \in [Reshares -> WorkerAt] /\ ended \in [Reshares -> 0..2]
  /\ pending \subseteq Senders
  /\ hold \in [Reshares -> [Sides -> HoldAt]]
  /\ awaits \in [Reshares -> [Sides -> 0..5]]
  /\ got \in [Reshares -> [Sides -> SUBSET Messages]]
  /\ out \in [Reshares -> [Sides -> 0..4]]
  /\ posted \subseteq Messages /\ begun \subseteq posted
  /\ waiting \subseteq begun \X Reshares
  /\ sent \subseteq Outgoing
  /\ down \subseteq Peers /\ expired \subseteq Reshares

\* The hosts whose messages of round r a party of side s needs.
Needs(o, s, r) == IF r \in {1, 3} THEN members[o]["old"]
                  ELSE members[o]["new"] \ (IF s = "new" THEN {Me} ELSE {})

\* The committee a round is for; the fourth is for both.
SidesOf(r) == IF r = 4 THEN Sides ELSE IF r = 2 THEN {"old"} ELSE {"new"}

\* The first states: another operation may be running, and an earlier resharing,
\* with everyone in both committees, has left its parties behind: when it had
\* ended, or at its deadline, with the first round sent.
Init ==
  \E past \in SUBSET Earlier, late \in IF "late" \in Faults THEN BOOLEAN ELSE {FALSE} :
    LET Ended(o, yes, no) == IF o \in past THEN yes ELSE no
        rounds == IF late THEN {1} ELSE Rounds
        begins == [old |-> 2, new |-> 1]
    IN  /\ busy \in BOOLEAN /\ tssBusy \in BOOLEAN
        /\ peers = Peers
        /\ keyed \in IF past = {} THEN SUBSET Peers ELSE {Peers}
        /\ share \in IF past = {} THEN {NoShare, 0} ELSE {0}
        /\ stored = IF past = {} THEN NoShare ELSE 0
        /\ partyKey = 0 /\ newKey = 1
        /\ ptr \in [Sides -> IF past = {} THEN {NoOp} ELSE past]
        /\ members = [o \in Reshares |-> [s \in Sides |-> Ended(o, Hosts, {})]]
        /\ caller = [o \in Reshares |-> Ended(o, "returned", "idle")]
        /\ result = [o \in Reshares |-> Ended(o, IF late THEN "deadline" ELSE "ok", "none")]
        /\ worker = [o \in Reshares |-> Ended(o, "gone", "none")]
        /\ ended = [o \in Reshares |-> Ended(o, IF late THEN 0 ELSE 2, 0)]
        /\ hold = [o \in Reshares |-> [s \in Sides |-> Ended(o, "free", "none")]]
        /\ awaits = [o \in Reshares |-> [s \in Sides |->
                       Ended(o, IF late THEN begins[s] ELSE 5, 0)]]
        /\ posted = {m \in Messages : /\ m.op \in past /\ m.side \in SidesOf(m.round)
                                      /\ m.round \in rounds /\ (late => m.from = Me)}
        /\ begun = IF late THEN {} ELSE posted
        /\ got = [o \in Reshares |-> [s \in Sides |->
                    {m \in begun : m.op = o /\ m.side = s}]]
        /\ sent = {g \in Outgoing : /\ g.op \in past /\ g.side \in SidesOf(g.round)
                                    /\ g.round \in rounds}
        /\ out = [o \in Reshares |-> [s \in Sides |-> 0]]
        /\ pending = {} /\ waiting = {} /\ down = {}
        /\ expired = IF late THEN past ELSE {}

-----------------------------------------------------------------------------
(* The caller: Reshare and handleReshare.                                    *)

\* getPeersAsParties and GetParty: every peer and this node join the new
\* committee, and those among them that have a share form the old one.
Committees ==
  [new |-> peers \cup {Me},
   old |-> (keyed \cap peers) \cup (IF share = NoShare THEN {} ELSE {Me})]

\* Another node initiates a resharing: its Start message is in flight.
RemoteStart(o) ==
  /\ o \in Remote \ Earlier /\ caller[o] = "idle"
  /\ caller' = [caller EXCEPT ![o] = "offered"]
  /\ members' = [members EXCEPT ![o] = Committees]
  /\ UNCHANGED <<nodeVars, tssVars, workVars, partyVars, loopVars, netVars, result>>

Called(o) ==
  o \notin Earlier /\ caller[o] = IF o \in Remote THEN "offered" ELSE "idle"

\* ErrAnotherProcessIsRunning, of Reshare or of handleMessage.
Refuse(o) ==
  /\ Called(o) /\ busy
  /\ caller' = [caller EXCEPT ![o] = "returned"]
  /\ result' = [result EXCEPT ![o] = "busy"]
  /\ UNCHANGED <<nodeVars, tssVars, workVars, partyVars, loopVars, netVars, members>>

\* From Store(true) to the select loop of doReshare.
Enter(o) ==
  /\ Called(o) /\ ~busy
  /\ busy' = TRUE
  /\ members' = [members EXCEPT ![o] = Committees]
  /\ \/ /\ Cardinality(peers) < Threshold
        /\ caller' = [caller EXCEPT ![o] = "leaving"]
        /\ result' = [result EXCEPT ![o] = "notEnough"]
        /\ UNCHANGED worker
     \/ /\ Cardinality(peers) >= Threshold
        /\ caller' = [caller EXCEPT ![o] = "select"]
        /\ worker' = [worker EXCEPT ![o] = "enter"]
        /\ UNCHANGED result
  /\ UNCHANGED <<tssVars, partyVars, loopVars, netVars, peers, keyed, stored,
                 ended, pending>>

\* handleReshareUpdateMessage: this node's own party gets its copy through
\* receivedMsg. An unknown destination ends the resharing at this caller.
GiveMessage(o) ==
  /\ caller[o] = "select"
  /\ \E g \in pending, flag \in Flags :
       LET here  == IF flag THEN {} ELSE g.to \cap {Me}
           there == IF flag THEN peers ELSE g.to \ {Me}
           own   == [op : {o}, from : here, round : {g.round}, side : {g.side}]
       IN  /\ g.op = o
           /\ pending' = pending \ {g}
           /\ IF there \subseteq peers
              THEN /\ sent' = sent \cup [op : {o}, to : there, round : {g.round},
                                         side : {g.side}]
                   /\ posted' = posted \cup own
                   /\ UNCHANGED <<caller, result>>
              ELSE /\ caller' = [caller EXCEPT ![o] = "leaving"]
                   /\ result' = [result EXCEPT ![o] = "unknown"]
                   /\ posted' \in {posted, posted \cup own}
                   /\ UNCHANGED sent
  /\ UNCHANGED <<nodeVars, tssVars, partyVars, loopVars, members, worker, ended,
                 down, expired>>

\* Mutant: the committee is marked, not the peers.
FinishMarksMembers(o) ==
  /\ caller[o] = "finish"
  /\ keyed' = keyed \cup members[o]["new"]
  /\ stored' = share
  /\ caller' = [caller EXCEPT ![o] = "leaving"]
  /\ result' = [result EXCEPT ![o] = "ok"]
  /\ UNCHANGED <<tssVars, workVars, partyVars, loopVars, netVars, busy, peers,
                 members>>

\* doneReshare, but for this node's PartyId, which the module Parties follows. It
\* only logs that the share could not be stored, or not be marshalled: then it
\* stores nil.
Finish(o) ==
  /\ caller[o] = "finish"
  /\ keyed' = keyed \cup peers
  /\ stored' \in {share} \cup IF "store" \in Faults THEN {stored, Empty} ELSE {}
  /\ caller' = [caller EXCEPT ![o] = "leaving"]
  /\ result' = [result EXCEPT ![o] = "ok"]
  /\ UNCHANGED <<tssVars, workVars, partyVars, loopVars, netVars, busy, peers,
                 members>>

\* The deferred Store(false).
Leave(o) ==
  /\ caller[o] = "leaving"
  /\ busy' = FALSE
  /\ caller' = [caller EXCEPT ![o] = "returned"]
  /\ UNCHANGED <<tssVars, workVars, partyVars, loopVars, netVars, peers, keyed,
                 stored, result, members>>

-----------------------------------------------------------------------------
(* The worker: ReshareKey.                                                   *)

notWorker == <<nodeVars, callVars, partyVars, loopVars, netVars>>

\* The check of aProcessIsRunning, and the party of the old committee.
WorkerEnter(o) ==
  /\ worker[o] = "enter"
  /\ IF tssBusy
     THEN /\ worker' = [worker EXCEPT ![o] = "refused"]
          /\ UNCHANGED <<tssBusy, ptr, hold>>
     ELSE /\ worker' = [worker EXCEPT ![o] = "createNew"]
          /\ tssBusy' = TRUE
          /\ IF share = NoShare THEN UNCHANGED <<ptr, hold>>
             ELSE /\ ptr' = [ptr EXCEPT !["old"] = o]
                  /\ hold' = [hold EXCEPT ![o]["old"] = "created"]
  /\ UNCHANGED <<nodeVars, callVars, loopVars, netVars, ended, pending, share,
                 partyKey, newKey, awaits, got, out>>

\* Two seconds later: the party of the new committee, and its Start.
CreateNew(o) ==
  /\ worker[o] = "createNew"
  /\ ptr' = [ptr EXCEPT !["new"] = o]
  /\ hold' = [hold EXCEPT ![o]["new"] = "ready"]
  /\ worker' = [worker EXCEPT ![o] = IF share = NoShare THEN "select" ELSE "startOld"]
  /\ UNCHANGED <<nodeVars, callVars, loopVars, netVars, ended, pending, tssBusy,
                 share, partyKey, newKey, awaits, got, out>>

\* Fifteen seconds later: the Start of the old committee's party.
StartOld(o) ==
  /\ worker[o] = "startOld"
  /\ hold' = [hold EXCEPT ![o]["old"] = "ready"]
  /\ worker' = [worker EXCEPT ![o] = "select"]
  /\ UNCHANGED <<nodeVars, tssVars, callVars, loopVars, netVars, ended, pending,
                 awaits, got, out>>

\* Mutant: wg.Wait() comes before the error is sent.
WorkerDeadlineDrainsFirst(o) ==
  /\ worker[o] = "select" /\ o \in expired /\ ~Updating
  /\ worker' = [worker EXCEPT ![o] = "deadline"]
  /\ UNCHANGED <<notWorker, tssVars, ended, pending>>

\* The select loop: <-ctx.Done().
WorkerDeadline(o) ==
  /\ worker[o] = "select" /\ o \in expired
  /\ worker' = [worker EXCEPT ![o] = "deadline"]
  /\ UNCHANGED <<notWorker, tssVars, ended, pending>>

\* The select loop: <-errCh.
WorkerTakesError(o) ==
  /\ worker[o] = "select" /\ hold[o]["old"] = "failed"
  /\ worker' = [worker EXCEPT ![o] = "library"]
  /\ hold' = [hold EXCEPT ![o]["old"] = "free"]
  /\ UNCHANGED <<nodeVars, tssVars, callVars, loopVars, netVars, ended, pending,
                 awaits, got, out>>

\* A copy of a message of round r for the parties of side s, addressed to the
\* hosts of committee c.
Copy(o, r, s, c) == [op |-> o, round |-> r, side |-> s, to |-> members[o][c]]

\* Mutant: the test of the second branch of handleMessageCommittee is gone.
FanOutUntested(o, r) ==
  {{Copy(o, r, "new", IF r \in {2, 4} THEN "old" ELSE "new")} \cup
   IF r \in {2, 4} THEN {Copy(o, r, "old", "old")} ELSE {}}

\* The goroutines that handleMessageCommittee starts for a message of a round,
\* one set for each outcome. The first and third rounds are for the new
\* committee, the second for the old one. The fourth is for both: its
\* destinations are cut down to those of the old committee, and the two
\* goroutines share one message, whose type is changed while they run.
FanOut(o, r) ==
  CASE r \in {1, 3} -> {{Copy(o, r, "new", "new")}}
    [] r = 2        -> {{Copy(o, r, "old", "old")}}
    [] r = 4        -> {{Copy(o, r, "old", "old"), Copy(o, r, "new", "old")}} \cup
                       IF "race" \in Faults THEN {{Copy(o, r, "new", "old")}} ELSE {}

\* The select loop: <-outCh. What sent the message goes on, also when the message
\* is lost because convertMessage refuses it.
WorkerTakesOut(o) ==
  /\ worker[o] = "select"
  /\ \E s \in Sides :
       /\ hold[o][s] \in {"start", "send"}
       /\ \/ /\ \E fan \in FanOut(o, out[o][s]) : pending' = pending \cup fan
             /\ UNCHANGED worker
          \/ /\ "convert" \in Faults
             /\ worker' = [worker EXCEPT ![o] = "convert"]
             /\ UNCHANGED pending
       /\ out' = [out EXCEPT ![o][s] = 0]
       /\ hold' = [hold EXCEPT ![o][s] = IF @ = "start" THEN "free" ELSE "step"]
  /\ UNCHANGED <<nodeVars, tssVars, callVars, loopVars, netVars, ended, awaits, got>>

\* Mutants: the end of one party is enough; the end of the new committee is.
LastEndFirst(o, s) == TRUE
LastEndNew(o, s) == s = "new"

\* A node that has a share waits for the ends of both its parties.
LastEnd(o, s) == share = NoShare \/ ended[o] # 0

\* Mutant: the error of makePublicKey is ignored.
KeepEndUnchecked(o, s) ==
  /\ share' = (IF s = "new" THEN newKey ELSE Empty)
  /\ partyKey' = newKey
  /\ newKey' = newKey + 1
  /\ worker' = [worker EXCEPT ![o] = "done"]

\* What the last end brings is kept: the new share, or the save data of the old
\* committee, which has none. Of that, or of what it cannot convert, makePublicKey
\* makes an error, and the PartyKey stays.
KeepEnd(o, s) ==
  \/ /\ s = "new"
     /\ share' = newKey
     /\ partyKey' = newKey
     /\ newKey' = newKey + 1
     /\ worker' = [worker EXCEPT ![o] = "done"]
  \/ /\ s = "old" \/ "convert" \in Faults
     /\ share' = IF s = "old" THEN Empty ELSE newKey
     /\ worker' = [worker EXCEPT ![o] = "library"]
     /\ UNCHANGED <<partyKey, newKey>>

\* The select loop: <-endCh.
WorkerTakesEnd(o) ==
  /\ worker[o] = "select"
  /\ \E s \in Sides :
       /\ hold[o][s] = "end"
       /\ hold' = [hold EXCEPT ![o][s] = "free"]
       /\ ended' = [ended EXCEPT ![o] = @ + 1]
       /\ \/ LastEnd(o, s) /\ KeepEnd(o, s)
          \/ ~LastEnd(o, s) /\ UNCHANGED <<worker, share, partyKey, newKey>>
  /\ UNCHANGED <<nodeVars, callVars, loopVars, netVars, pending, tssBusy, ptr,
                 awaits, got, out>>

\* An error on ErrCh: a refused worker returns, any other breaks its loop.
GiveError(o) ==
  /\ worker[o] \in Errors /\ caller[o] = "select"
  /\ result' = [result EXCEPT ![o] = worker[o]]
  /\ caller' = [caller EXCEPT ![o] = "leaving"]
  /\ worker' = [worker EXCEPT ![o] = IF @ = "refused" THEN "gone" ELSE "drain"]
  /\ UNCHANGED <<nodeVars, tssVars, partyVars, loopVars, netVars, members, ended,
                 pending>>

\* Done.
GiveDone(o) ==
  /\ worker[o] = "done" /\ caller[o] = "select"
  /\ caller' = [caller EXCEPT ![o] = "finish"]
  /\ worker' = [worker EXCEPT ![o] = "drain"]
  /\ UNCHANGED <<nodeVars, tssVars, partyVars, loopVars, netVars, members, result,
                 ended, pending>>

\* t.wg.Wait() returns. The parties stay where they are. Updates of the parties of
\* key generations and signatures, which share the wait group, may delay it.
WorkerDrained(o) ==
  /\ worker[o] = "drain" /\ ~Updating
  /\ worker' = [worker EXCEPT ![o] = "clear"]
  /\ UNCHANGED <<notWorker, tssVars, ended, pending>>

\* The deferred Store(false).
WorkerClear(o) ==
  /\ worker[o] = "clear"
  /\ tssBusy' = FALSE
  /\ worker' = [worker EXCEPT ![o] = "gone"]
  /\ UNCHANGED <<notWorker, share, partyKey, newKey, ptr, ended, pending>>

-----------------------------------------------------------------------------
(* A party of the tss library. Start and Update hold its lock, and send on   *)
(* outCh and endCh while they do.                                            *)

\* The party of the old committee sends the first round, that of the new one
\* waits for it.
StartParty(o, s) ==
  /\ hold[o][s] = "ready"
  /\ hold' = [hold EXCEPT ![o][s] = IF s = "old" THEN "start" ELSE "free"]
  /\ awaits' = [awaits EXCEPT ![o][s] = IF s = "old" THEN 2 ELSE 1]
  /\ out' = [out EXCEPT ![o][s] = IF s = "old" THEN 1 ELSE 0]
  /\ UNCHANGED <<nodeVars, tssVars, callVars, workVars, loopVars, netVars, got>>

\* The share does not suffice for the first round.
StartFails(o) ==
  /\ "start" \in Faults \/ share = Empty
  /\ hold[o]["old"] = "ready"
  /\ hold' = [hold EXCEPT ![o]["old"] = "failed"]
  /\ UNCHANGED <<nodeVars, tssVars, callVars, workVars, loopVars, netVars, awaits,
                 got, out>>

\* A committee of nobody sends nothing.
Has(o, s, r) == /\ Needs(o, s, r) # {}
                /\ \A h \in Needs(o, s, r) :
                     \E m \in got[o][s] : m.op = o /\ m.from = h /\ m.round = r

\* The rounds verify that messages belong together.
OwnMessages(o, s) == \A m \in got[o][s] : m.op = o

\* What a party waits for and sends once it has the messages it waited for;
\* after the fourth round it ends.
Step(o, s) ==
  /\ hold[o][s] = "step"
  /\ \/ /\ awaits[o][s] = 5 \/ ~Has(o, s, awaits[o][s]) \/ ~OwnMessages(o, s)
        /\ hold' = [hold EXCEPT ![o][s] = "free"]
        /\ UNCHANGED <<awaits, out>>
     \/ /\ awaits[o][s] \in 1..3 /\ Has(o, s, awaits[o][s]) /\ OwnMessages(o, s)
        /\ out' = [out EXCEPT ![o][s] = awaits[o][s] + 1]
        /\ awaits' = [awaits EXCEPT ![o][s] = IF @ = 1 THEN 3 ELSE 4]
        /\ hold' = [hold EXCEPT ![o][s] = "send"]
     \/ /\ awaits[o][s] = 4 /\ Has(o, s, 4) /\ OwnMessages(o, s)
        /\ awaits' = [awaits EXCEPT ![o][s] = 5]
        /\ hold' = [hold EXCEPT ![o][s] = "end"]
        /\ UNCHANGED out
  /\ UNCHANGED <<nodeVars, tssVars, callVars, workVars, loopVars, netVars, got>>

-----------------------------------------------------------------------------
(* Updates, each in a goroutine that the event loop starts.                  *)

notUpdate == <<nodeVars, tssVars, callVars, workVars, netVars>>

\* waitToCreateReshareParty and waitToCreateReshareNewParty poll for a party,
\* which may be that of an earlier resharing; wg.Add(1).
Begin(m) ==
  /\ m \in posted \ begun /\ ptr[m.side] # NoOp
  /\ begun' = begun \cup {m}
  /\ waiting' = waiting \cup {<<m, ptr[m.side]>>}
  /\ UNCHANGED <<notUpdate, partyVars>>

\* The polls end after 76 seconds, which a party that is being made does not
\* need.
GiveUp(m) ==
  /\ m \in posted \ begun /\ ptr[m.side] = NoOp
  /\ \A o \in Reshares : worker[o] \notin {"enter", "createNew"}
  /\ begun' = begun \cup {m}
  /\ UNCHANGED <<notUpdate, partyVars, waiting>>

\* UpdateFromBytes gets the lock: a message from a node that is not a party is
\* refused, one that comes before Start is only stored.
Update(m, o) ==
  /\ <<m, o>> \in waiting
  /\ hold[o][m.side] \in {"created", "ready", "failed", "free"}
  /\ waiting' = waiting \ {<<m, o>>}
  /\ IF m.from \in members[o]["new"]
     THEN /\ got' = [got EXCEPT ![o][m.side] = @ \cup {m}]
          /\ hold' = [hold EXCEPT ![o][m.side] = IF @ = "free" THEN "step" ELSE @]
     ELSE UNCHANGED <<got, hold>>
  /\ UNCHANGED <<notUpdate, awaits, out, begun>>

\* The event loop on an error of a connection.
DeletePeer ==
  /\ \E p \in peers \cap down : peers' = peers \ {p}
  /\ UNCHANGED <<tssVars, callVars, workVars, partyVars, loopVars, netVars, busy,
                 keyed, stored>>

-----------------------------------------------------------------------------
(* The environment.                                                          *)

notNet == <<nodeVars, tssVars, callVars, workVars, partyVars, loopVars>>

Open(o) == caller[o] # "idle" /\ result[o] # "busy"

Sent(o, p, r, s) == [op |-> o, to |-> p, round |-> r, side |-> s] \in sent

\* A party of another node sends a round when it has this node's messages of
\* the one before, through the same code.
PeerSends(o, p, r) ==
  /\ Open(o) /\ p \notin down
  /\ p \in members[o][IF r \in {1, 3} THEN "old" ELSE "new"]
  /\ \A m \in posted : ~(m.op = o /\ m.from = p /\ m.round = r)
  /\ r \in {2, 4} /\ Me \in members[o]["old"] => Sent(o, p, r - 1, "new")
  /\ r = 3 => Sent(o, p, 2, "old")
  /\ \E fan \in FanOut(o, r), flag \in Flags :
       posted' = posted \cup {[op |-> o, from |-> p, round |-> r, side |-> g.side] :
                                g \in {f \in fan : flag \/ Me \in f.to}}
  /\ posted' # posted
  /\ UNCHANGED <<notNet, sent, down, expired>>

PeerFails ==
  /\ "loss" \in Faults
  /\ \E p \in Peers \ down : down' = down \cup {p}
  /\ UNCHANGED <<notNet, posted, sent, expired>>

\* Another operation of the node, or an abandoned worker of one, ends.
OthersEnd ==
  /\ \/ /\ busy /\ \A o \in Reshares : ~Inside(o)
        /\ busy' = FALSE /\ UNCHANGED tssBusy
     \/ /\ tssBusy /\ \A o \in Reshares : worker[o] \in {"none", "enter", "refused", "gone"}
        /\ tssBusy' = FALSE /\ UNCHANGED busy
  /\ UNCHANGED <<peers, keyed, stored, share, partyKey, newKey, ptr, callVars,
                 workVars, partyVars, loopVars, netVars>>

Expire(o) ==
  /\ "deadline" \in Faults
  /\ Inside(o) \/ worker[o] = "select"
  /\ o \notin expired
  /\ expired' = expired \cup {o}
  /\ UNCHANGED <<notNet, posted, sent, down>>

-----------------------------------------------------------------------------
(* The node and its environment.                                             *)

CallerStep(o) == Finish(o) \/ Leave(o)

WorkerRuns(o) ==
  \/ WorkerEnter(o) \/ CreateNew(o) \/ StartOld(o) \/ WorkerDeadline(o)
  \/ WorkerTakesError(o) \/ WorkerTakesOut(o) \/ WorkerTakesEnd(o)
  \/ GiveError(o) \/ GiveDone(o) \/ WorkerClear(o)

WorkerStep(o) == WorkerRuns(o) \/ WorkerDrained(o)

PartyStep(o) == StartFails(o) \/ \E s \in Sides : StartParty(o, s) \/ Step(o, s)

UpdateStep == \E m \in posted : \/ Begin(m) \/ GiveUp(m)
                                \/ \E o \in Reshares : Update(m, o)

Next ==
  \/ \E o \in Reshares :
       \/ RemoteStart(o) \/ Refuse(o) \/ Enter(o) \/ GiveMessage(o)
       \/ CallerStep(o) \/ WorkerStep(o) \/ PartyStep(o)
       \/ Expire(o)
       \/ \E p \in Peers, r \in Rounds : PeerSends(o, p, r)
  \/ UpdateStep \/ DeletePeer \/ PeerFails \/ OthersEnd

Spec == Init /\ [][Next]_vars

\* The threads of an operation run, and its deadline passes if nothing comes
\* first. No peer, no party of the library and no update owes anything, so
\* wg.Wait() does not either.
System == \E o \in Reshares : CallerStep(o) \/ WorkerRuns(o) \/ Expire(o)

FairSpec == Spec /\ WF_vars(System)

-----------------------------------------------------------------------------
(* Properties.                                                               *)

\* Reshare returns a key only when every party of this node has the messages of
\* every round from each party that owes one, and the node then has a share. It
\* does not say that the share is stored: a storage that fails goes unnoticed.
OkMeansReshared ==
  \A o \in Reshares : result[o] = "ok" =>
    /\ caller[o] = "leaving" => share \notin {NoShare, Empty}
    /\ \A s \in OwnSides(o), r \in Rounds : s \in SidesOf(r) => Has(o, s, r)

\* ReshareKey replaces the share only when both parties of the node have ended
\* and none of them still has an end to deliver: a share is never lost while
\* the old committee needs it.
ShareReplacedLast ==
  [][share' # share =>
       \E o \in Reshares :
         /\ worker[o] = "select"
         /\ \A s \in OwnSides(o) : awaits[o][s] = 5 /\ hold'[o][s] # "end"]_vars

\* When Reshare has returned a key, the goroutines of handleMessageCommittee
\* that nobody reads any more hold nothing but messages of the last round.
OnlyLastRoundUnsent ==
  \A g \in pending : result[g.op] = "ok" => g.round = 4

\* After Done, wg.Wait() of ReshareKey waits for no update that is blocked on outCh
\* or endCh, which nobody reads any more, unless it is a late update of an earlier
\* resharing that has failed: all updates share the wait group, and that one, for
\* which it waits for ever, keeps the signer busy.
DrainsAfterDone ==
  \A o \in Reshares : worker[o] = "drain" /\ result[o] \in {"none", "ok"} =>
    \A e \in Reshares, s \in Sides :
      hold[e][s] \in {"send", "end"} => result[e] \notin {"none", "ok"}

\* Reshare and handleReshare return, whatever peers, connections and the library
\* do, because a deadline reaches the caller from the loop of ReshareKey.
ReshareReturns == \A o \in Reshares : Inside(o) ~> caller[o] = "returned"

\* When Reshare has returned a key and all that is left to send is sent, every
\* other member of the new committee has been sent this node's last message: a
\* node that joins with the resharing gets the key, as reshare_test.go expects
\* of its last peer.
NewcomersServed ==
  \A o \in Reshares : result[o] = "ok" /\ pending = {} =>
    \A p \in members[o]["new"] \ {Me} : Sent(o, p, 4, "new")
=============================================================================
