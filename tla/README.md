# A TLA+ model of p2p-tss-lib

p2p-tss-lib connects nodes over libp2p and lets them generate an ECDSA key
together, sign with it and hand it on to a new committee, on top of tss-lib.
The cryptography is tss-lib's. What is the library's own, and what this project
specifies, is the concurrency around it: goroutines that meet on unbuffered
channels, two flags called `aProcessIsRunning`, a wait group, pointers to the
parties of tss-lib and a map of peers. Paths below are relative to `src/`.

    tlc -config <run>.cfg MC<Module>.tla
    tlapm OperationProofs.tla      (and ServiceProofs, LoopProofs, ExchangeProofs,
                                    ReshareProofs, PartiesProofs,
                                    MembershipProofs, PeerStreamProofs)

`PROJECT.json` names the module of every run, the source lines of every
definition and the hazards the properties are for.

## 1. The system

| component | source | state it keeps | operations |
|---|---|---|---|
| node API and Start handlers | `keygen.go` `sign.go` `commons.go` | `aProcessIsRunning`, `signerPeers`, the channels of the running operation | KeyGen, SignMessage, SignEthTransaction and the handlers of their Start messages |
| signer | `tss/keygen.go` `tss/sign.go` `tss/tss.go` | its own `aProcessIsRunning`, `keyGenParty`, `signParty`, `privateKey`, `wg` | GenerateKey, Sign, UpdateKeyGenParty, UpdateSignParty |
| event loop | `start.go` | the unbuffered channels `receivedMsg`, `newConnectionCh`, `peerRErr`, `peerWErr`, `quit` | handleMessage, handleNewConnection, deletePeer, quit |
| membership | `peer.go` `sender.go` `network/peer.go` | `peers`, and the party of each peer | AddPeer, NewPeerJoined, PartyId, deletePeer |
| resharing | `reshare.go` `tss/reshare.go` | an old and a new party, `newPartyId`, `reSharingEnded`, goroutines that hold a message | Reshare, handleReshare, ReshareKey and its updates |
| peer stream | `peer/peer.go` | the stream, a buffered reader and writer, a mutex | SendMsg, ReadData, Close |
| parties of peers | `network/peer.go` `sender.go` `keygen.go:141` `reshare.go:183` | the party of each peer: its PartyKey and whether it has a share | handlePartyId, doneKeyGen, doneReshare, the lists of parties given to operations |
| party order, signer choice | `tss/common.go` `sign.go:243` | none | sorting and indexing parties, a random choice of signers |
| life cycle | `p2p.go` | host, DHT, `isClosed` | New, Close |
| options, storage, messages, log | `option/` `config/` `tss/option/` `tss/config/` `storage/` `message/` `*/pb/` `log/` | defaults, the stored key | Apply, StorePrivateKey, Marshal, Unmarshal |

How they interact. An API call, or a handler that the event loop spawns for a
Start message, is the **caller** of an operation. It spawns a **worker**
(GenerateKey or Sign), and the two meet on `MessageCh`, `Done`/`Signature` and
`ErrCh`. The worker makes the party of tss-lib, points `keyGenParty` or
`signParty` at it and spawns a **starter** that calls `Start`. Update messages
of other nodes reach the party through the **event loop**, which calls
`UpdateFromBytes` itself. `Start` and `Update` hold the party's lock while they
send on `outCh` and `endCh`, which only the select loop of the worker receives.
Every message to another node is sent by a goroutine of its own. A resharing
differs: its updates run in goroutines of their own too, and a node that is in
both committees sends to itself through `receivedMsg`. What one operation
leaves behind for the next is `privateKey`, and what nodes know of each
other's party.

What makes this hard:

* all channels are unbuffered, so whoever leaves a select loop first decides
  who blocks for ever: a worker at its caller, a starter or the event loop at
  the worker, `Close` at the event loop;
* both flags are loaded and stored in two steps, and a worker outlives its
  caller;
* the nil check of a party, `wg.Add` and the use of the party are three steps,
  as are `wg.Wait`, clearing the party and clearing the flag;
* messages overtake each other and name neither their operation nor its Start;
* a deadline is the only thing that ends most failures, and its path returns
  early, without the clean-up of the others;
* a resharing shares one message among two goroutines, ends twice, and leaves
  its parties in place;
* a node learns the renewed PartyKey of a peer from a message that is sent
  once, and takes a peer for one that has a share without asking it;
* while a process runs the event loop refuses streams and drops membership
  messages, and nobody sends or opens them again.

What makes each component correct, where the code keeps it and where it does
not (section 3). *Caller and flag*: one process at a time, the
flag says so exactly, a caller returns, an `ok` stands for a complete exchange.
*Signer*: one worker at a time, no operation touches the party of another, a
key that is returned is the key in memory. *Event loop*: it waits only for somebody who
will come. *Membership*: nodes at rest are a full mesh of live, symmetric links
and know each other's party. *Resharing*: a key that is returned rests on all
rounds of both committees, the share is replaced only when both parties have
ended, and Reshare returns. *Peer stream*: messages are delivered whole, once
and in order, senders return, and both nodes forget a broken stream. *Parties*:
a node takes no peer for one that has a share unless it took part in the
operation, and at rest knows the PartyKey its peers have now.

## 2. The modules

**Operation** is one node: callers, workers, starters, the event loop,
`deletePeer` and `Close`; the other nodes and the network are its environment.
Operations are identifiers (`KeyGens`, `Signs`, `EthSigns`; those in `Remote`
were initiated elsewhere).

| variables | code |
|---|---|
| `busy` `peers` `signerPeers` `keyed` `stored` | `node.aProcessIsRunning`, the keys of the two maps, peers whose `HasPrivateKey` is true, the key given to storage |
| `tssBusy` `key` `ptr` | the signer's flag, `privateKey` (named by the operation that made it), `keyGenParty` and `signParty` |
| `caller` `routing` `result` `parties` | where KeyGen, doKeyGen, SignMessage, doSign or a handler is; the message it took from `MessageCh`; what it returned; the other parties |
| `worker` `offering` | where GenerateKey or Sign is, the message it sends on `MessageCh` |
| `starter` `round` `got` `out` | the goroutine that calls `Start`; the party in tss-lib: its round, the messages it stored, those `outCh` has not taken |
| `loop` `handling` `on` `taken` | where the event loop is, the Update it handles, the party it called, what it received |
| `posted` `sent` `down` `expired` `closing` | messages sent to and by this node, broken connections, passed deadlines, `Close` |
| `resharing` `overlapped` | an update of an earlier resharing holds the wait group; history: two operations have been let in at once |

A caller goes `idle`, (`offered` while a Start message is in flight),
`admitted` (it has loaded the flag), `select`, `route`, `finish`, `leaving`,
`returned`; `ethWait` is the select of SignEthTransaction. A worker goes
`check`, `enter`, `select`, `message`, `done`, `drain` (`wg.Wait`), `reset`
(party = nil), `clear` (deferred `Store(false)`), `gone`; the names of errors
are the points where it sends on `ErrCh`. The event loop goes `select`, `wait`
(the polls of waitToCreate...Party), `call` (nil check passed), `lock`, `step`,
`send`, `end`, `exit`. A rendezvous is one action of two goroutines:
`GiveMessage`, `GiveError`, `GiveDone`, `WorkerTakesOut`, `WorkerTakesEnd`,
`Quit`. `Updating` is what the event loop adds to the wait group, derived from `loop`: only
the event loop calls the updates of key generation and signature. The updates of
a resharing add to the same wait group from goroutines of their own;
`ReshareUpdates` lets them hold it at any time.

Load and store of `aProcessIsRunning` are two steps: `Call` and `HandleStart` find
the flag clear and leave the caller `admitted`, and `EnterKeyGen`, `EnterSign` and
`JoinSign` set it. Nothing in the code keeps a second operation from finding it
clear in between, nor does anything in the model; `overlapped` remembers that it
happened. The storage may refuse a key, which `doneKeyGen` only logs (`Finish`,
fault `store`). The signer may be unable to convert its data, a message or a
result (fault `convert`): the worker then reports the error and, but for the data
of a signature, goes into `wg.Wait`, while the party goes on with its next message.

Abstractions. `EnterKeyGen`, `EnterSign` and `JoinSign` take the
straight-line code from `Store(true)` to the select loop in one step; nothing
in it waits, and the only other reader of what it writes is the gate of the
next process. A round of tss-lib sends one broadcast or one message to each
party, and proceeds when it has a message of every party; a message of another
operation is stored like any other and makes the round that uses it fail, as
its proofs do not verify. The random choice of signers is any subset of
`Threshold` keyed peers. `Creating` is a statement about time: the
polls in waitToCreateKeyGenParty last 76 seconds, so a party that is being
made is there before they end.

**NodeService** is what the API of a node promises, without rounds, workers or
messages: an operation is declined while another is inside, concludes once,
and ends; the key changes only by a key generation that has not concluded (or
has lost its caller to an unknown destination); `ok` means that the key of this
operation is in memory and, unless the storage fails, stored, or that a key was
there to sign with. Operation implements it (`ImplementsService`) up to the step
that lets in two operations at once, under the mapping: `phase` is
idle for a caller that is `idle`, `offered` or `admitted`, inside from the
select loop to `leaving`, and returned; `outcome` is `result`, `key` is `key`
and `saved` is `stored`.

**Membership** is a set of nodes. A stream is named by who opened it and whom it
reaches, so that the two streams of a pair differ. `process[n]` is what
holds `aProcessIsRunning` (AddPeer in its caller's goroutine, or a
NewPeerJoined message in the event loop), `peers[n]` maps a node to the stream
of its peer object, `party[n]` is the set of peers whose object holds a party,
`readers` are the readFromPeer goroutines, `pending` is newConnectionCh, `net`
the messages in flight. Two history variables tell what a property may assume:
`missed`, whether a node refused a stream, dropped a message or could not
connect, and `overlapped`, whether AddPeer began while another node was being
added. Load and store of the flag are one step here, since Operation studies the
gap.

**Reshare** is one node during a resharing; other nodes and the parties of
tss-lib are its environment.

| variables | code |
|---|---|
| `busy` `peers` `keyed` `stored` `tssBusy` | as in Operation |
| `share` `partyKey` `newKey` `ptr` | `privateKey` (named by the PartyKey it is coupled with), `partyId.Key`, `newPartyId.Key`, `reshareParty` and `reshareNewParty` |
| `members` | the hosts of the two committees: all parties, and those that have a share |
| `caller` `result` `worker` `ended` | doReshare, ReshareKey, `reSharingEnded` |
| `pending` | goroutines of handleMessageCommittee that send on `MessageCh` |
| `hold` `awaits` `got` `out` | a party of tss-lib: who holds its lock and for what, the round it waits for, the messages it stored, the round it sends |
| `begun` `waiting` | goroutines of updates: past the polls, and before the lock |
| `posted` `sent` `down` `expired` | as in Operation |

A node that has a share has a party in both committees. `CreateNew` and
`StartOld` are apart because two sleeps of 2 and 15 seconds are between them and
updates come meanwhile. `Begin` is the poll that finds *a* party: nothing resets
the pointers, so it may be that of an earlier resharing, which is why
`Earlier` names one that may have ended before the start with its parties in
place. With the fault `late` that earlier resharing has met its deadline instead, with a
round sent that its parties still get: their updates then block on `outCh`, which
nobody reads any more, and the wait group is the one the next `ReshareKey` waits
for (`WorkerDrained`). `FanOut` is handleMessageCommittee: the fourth round is for both
committees, its destinations are cut to the old one, and two goroutines share
the message (fault `race`: the type is changed before the first has read it).
`LastEnd` and `KeepEnd` are the two ends. Assumed of tss-lib: the four rounds
of GG18 resharing, that rounds refuse messages of another resharing, that what
an old party ends with holds no share (so makePublicKey fails on it), that an
empty committee sends nothing, and that resharing messages are addressed
rather than flagged as broadcasts (fault `broadcast` flags them all the same).
A message or a result that the signer cannot convert (fault `convert`) ends the
loop of ReshareKey with an error; a storage that fails (fault `store`) does not
keep Reshare from returning the key, and where the share could not be marshalled
the storage is given nil. The first states let another operation run and the node
have a share or not. The gap between load and store of the flags is left to Operation, and the
PartyId that doneReshare sends to Parties.

**PeerStream** is one stream between two nodes. `at`, `left` are the goroutines of
sendMessageToPeer and the pieces of a message that SendMsg still has to write;
`mu` the mutex; `werr` the error that bufio.Writer keeps; `wire` the pieces
unread in a direction, of which the stream holds `Window`; `part` and `reader`
are ReadBytes and readFromPeer; `delivered` is what reached `receivedMsg`;
`peer`, `closed`, `quit` are what deletePeer and Close change. `flushed` is
history: the messages of an end whose last piece got to the stream. A message is a
number of pieces of which the last has the delimiter, so that a torn frame can
be told from a whole one. **Channel** is the abstract stream: per direction a
queue of whole messages that may stop. PeerStream implements it
(`ImplementsChannel`): while the other end reads, the queue is the messages whose
last piece is on the wire or being read, in the order in which they were
flushed.

**Parties** is what nodes know of each other's party, for several nodes and
operations of all three kinds. `own` is GetParty, `known` the peers and the
party each holds, `proc` the operation that holds aProcessIsRunning, `list` the
parties given to an operation, `sent` who has sent its last messages, `ok` and
`failed` where an operation ended well or met its deadline, `net` the Start and
PartyId messages, `dropped` and `panicked` history. A PartyKey is the number of
resharings that renewed it. An operation is entered (`Enter`), sends its last
messages (`SendLast`, when the parties agree on their lists), and ends; what
happens between is Operation's and Reshare's subject. A Start message does
not name its operation, so a node that handles one may enter any of its kind:
the identifiers of operations stand for whose parties exchange messages. Streams that are opened from both
ends, and deletePeer, are left to Membership. A node whose `sortParties` meets
the nil PartyKey of a peer that has not sent its party panics: the other
modules assume that the party of every peer is known.

**OperationInv** holds the inductive invariants of Operation; **OperationProofs**
(types and exclusion), **ServiceProofs** (the refinement of NodeService),
**LoopProofs** (who waits for whom) and **ExchangeProofs** (what is received and
sent) the theorems about it; **ReshareProofs**, **PartiesProofs**,
**MembershipProofs** and **PeerStreamProofs** those about the other modules, with
the inductive invariants they need; the **MC** modules the values of constants. Operators whose comment
begins with "Mutant" are faulty variants of the definition below them, which
show that a property can fail.

## 3. What the runs check

| run | instance | properties |
|---|---|---|
| `keygen_faults` | one key generation, 2 peers, 2 rounds, every fault | TypeOK, OkMeansComplete, NoCircularWait, LoopServed |
| `two_keygens` | a local and a remote key generation, let in one at a time, 1 peer, 1 round, every fault of one node | OneWorker, PartyOwned, AbandonedOnlyByRoute, NoForeignMessage, PartyKept, ImplementsService |
| `signatures` | a signature another node initiates and a SignEthTransaction, also both at once, 1 peer, 2 rounds, every fault of one node, fair | OkMeansComplete, ImplementsService, OperationReturns, LoopReturns |
| `membership` | 3 nodes, 2 of which add the third, connections fail, a stream breaks, fair | TypeOK, Mesh, PartyKnown, Symmetric, NoDeadPeer, Settles |
| `reshare` | one resharing with 1 peer, local or not, after an earlier one that ended or met its deadline or none, every fault but `broadcast`, fair | TypeOK, OkMeansReshared, OnlyLastRoundUnsent, DrainsAfterDone, ShareReplacedLast, ReshareReturns |
| `stream` | 3 messages of 3, 2 and 1 pieces in both directions, every fault, fair | TypeOK, FramesWhole, SentArrives, ImplementsChannel, SendReturns, BothForget |
| `parties` | 3 nodes, of which 2 are connected; one of these starts a key generation, a resharing and a signature; a deadline | TypeOK, PartiesCurrent, MarkedTookPart, MarkedKnown |

The faults of one node are all but `close`, `store` and `reshare`, which
`keygen_faults` has.

Five runs refute what a comment or a test of the code says, and so show a fault
of the code rather than of the model:

* `two_calls` (OneProcess, `p2p.go:90`): two calls load `aProcessIsRunning` before
  either stores it, both are inside, and the first to leave clears the flag of
  the other. The same happens to a handler that the event loop has spawned and a
  call, or to two handlers. What is lost then shows in the other properties:
  OneWorker, PartyKept, NoForeignMessage and ImplementsService are about a
  node that has not let in two operations at once, and OkMeansComplete about the
  messages received but not those sent; the others hold all the same.
* `nil_party` (NoNilParty, `tss/keygen.go:89`): the event loop sees a party,
  the worker passes `wg.Wait`, the party becomes nil, the event loop
  adds to the wait group and dereferences it. No fault is needed, only two
  operations one after the other.
* `close_blocked` (CloseEnds, `p2p.go:137`, `tss/tss.go:64`): a deadline makes
  the worker return without clearing the party; the starter, or the next
  update, then sends on `outCh` for ever, holding the lock. The event loop
  waits for the lock or for `outCh`, and `Close` for the event loop.
* `newcomer` (NewcomersServed, `tss/reshare.go:295`, `reshare_test.go:139`): the
  fourth round is sent to the old committee alone, so a node that joins with the
  resharing waits for it until its deadline while Reshare returns a key
  elsewhere.
* `stale_party` (SignersFindThemselves, `reshare_test.go:76-85`): SignMessage
  right after Reshare sends the old PartyKey of a peer that has not ended yet; when
  it has, it does not find itself in the list and panics. The same happens later
  to a node that was still in doReshare when the PartyId of another came.

The model also shows, without a run that repeats it:

* an update that overtakes the Start message of its operation is lost
  (`tss/keygen.go:97`, `keygen_test.go:61`). The event loop polls for the party inside
  the handler of the update, and the Start message that would bring it about is
  behind it. After 76 seconds the poll ends (LoopReturns), the update is dropped, and
  the operation of this node waits for it until its deadline, though every node is
  up and every message is delivered. Found with one peer, one round and no fault.
* a key that KeyGen or Reshare returns need not be in storage: a failed
  `StorePrivateKey` is only logged (`keygen.go:153`, `reshare.go:196`), and a caller
  that failed before Done, or a makePublicKey that fails, leaves a key in memory
  that nobody stores (`tss/keygen.go:78`).
* after a message that convertMessage refuses, GenerateKey and Sign go into
  `wg.Wait` while an update of their party may be sending its next message on
  `outCh`: each waits for the other for ever, and the event loop with them
  (`tss/keygen.go:72`, `tss/sign.go:93`). NoCircularWait and LoopServed exempt
  this case by name.
* an unknown destination leaves the worker at `MessageCh`, `ErrCh` or `Done` of a
  caller that has gone, and the party behind it: the signer stays busy for ever,
  and an update that must send waits for that worker (`commons.go:83`).
* AddPeer makes its peers open streams to the new node (`p2p.go:36`); a node that
  is itself still in AddPeer, or in its handler, refuses such a stream and leaves
  it unread. The other end has added the peer, and neither end tries again.
* Two connected nodes that each add a node at the same time leave no full mesh:
  with nodes a, b, m, d, of which a and m are connected, `AddPeer(m, d)` and
  `AddPeer(a, b)` make a connect to d and m connect to b; b and d are in no list
  of peers when the messages about the other are sent (`peer.go:45`,
  `peer.go:98`), and nobody tells them of each other. No fault, refusal or
  dropped message is needed, and nobody repeats the exchange. Found with four
  nodes, on an instance of 31 steps outside the runs.
* A message of a key generation can be given to the party of one two operations
  later, though nothing fails: with three key generations that this node calls
  one after the other, the second is refused while the worker of the first is
  still draining (`tss/keygen.go:23`), its peers have joined it all the same
  (`keygen.go:32`), and what they send reaches the party of the third. Found
  with one peer and one round, in 39 steps. NoForeignMessage therefore exempts
  operations that ended without success.
* When one node ends a key generation and marks its peers as having a key
  (`keygen.go:142`), a peer may meet its deadline before the last messages: it
  stays marked, and has none.
* SignEthTransaction never returns once it waits (`sign.go:119`): doSign is
  commented out, nobody has the channels, and the flag stays set.
* Updates of a second resharing can reach the parties of the first, whose
  pointers nobody clears (`tss/tss.go:71-76` says "assign to nil in ReshareKey").
* When the party of the old committee ends last, `privateKey` becomes save data
  without a share and Reshare returns the error of makePublicKey.
* `wg.Wait` of ReshareKey may wait for ever, after an error or a deadline for an
  update of its own that is blocked on `outCh`, and after Done for a late update of
  an earlier resharing that has failed, or of a key generation or signature that
  a deadline left: the signer stays busy and refuses every later operation. After
  `ok`, goroutines that hold a message of the last round stay blocked on
  `MessageCh`.
* A Start message that arrives late makes a node run a key generation of which
  the others have dropped theirs, and a new key may replace one that was returned.
* KeyGen or Reshare right after AddPeer, before the PartyId of the new peer has
  come, ends the process by a nil PartyKey (`tss/common.go:114`); the tests
  sleep in between.

Bounds, and why they are enough. Operation has no counters: operation
identifiers are used once, so the system is finite and stops, which is why
deadlock is not checked (what must not block is stated by the liveness
properties and by LoopServed, NoCircularWait, DrainsAfterDone and
AbandonedOnlyByRoute). Two
operations suffice for every hazard between an operation and the one
before it, two rounds for a round that follows another inside an update, two
peers for a broadcast, an unknown destination and a missing party next to a
present one. Runs with two operations have one peer, and so one choice of signers, so
that they stay below a few million states; that OkMeansComplete holds for any choice
among any number of peers is proved. `two_keygens` stops
where two operations have been let in at once (CONSTRAINT OneAtATime), since what
most of its properties say ends there. `signatures` goes on, and so do the proofs of
those that hold all the same, PartyOwned, AbandonedOnlyByRoute and LoopServed among
them. In Membership a node opens
one stream to another node (`Connect`) and one stream breaks (`Break`; further
streams close when a peer is deleted). Three nodes are the smallest mesh that one call cannot make.
Peers are symmetric in `keygen_faults`, which has no liveness property.
Reshare has the four rounds of the library; one peer suffices since a round
waits for a set of senders, this node and the peer, and either may be in one
committee or in both. Where the earlier resharing has met its deadline, two of its
messages come late, the least that makes an update block, on a node that was at rest and
meets no other fault (CONSTRAINT LateAlone). PeerStream has a message longer than the window, one
as long and one shorter, and two senders that compete for one mutex. In
Parties a node enters each operation once (`Enter`), one node calls the API
(`Callers`; the others handle its Start messages, in any order) and one deadline
passes (`Deadlines`); three nodes are needed for one that joins while two
others run. Two resharings, with two nodes that call and any number of deadlines, were
checked as well and take too long with three nodes.

Restrictions in the statements. OkMeansComplete exempts peers whose connection
broke, a node that was closed, as `Close` empties `peers` under a running
operation, and, for what was sent, a node that let in two operations at once, the
second of which replaces `signerPeers`. PartyOwned exempts the deadline and the
unknown destination, the two ways to leave a party behind. LoopServed names the
three ways to a worker that serves its party no more, and LoopReturns leaves out an event
loop that waits for such a worker. NoForeignMessage says which messages a running party never holds:
those of an operation that ended well here, that runs too or that has not begun.
The late messages of one that ended without success, and those of one whose Start message is still
to come, do reach the party of another.
Mesh, Symmetric and PartyKnown speak of nodes at rest that refused and dropped
nothing, and Mesh of nodes that were added one after the other. Symmetric leaves out pairs with two streams once something broke: the
second stream replaces the object of the first, which is never closed, and
deletePeer then forgets a peer whose older stream is open and read by both.
DrainsAfterDone speaks of a resharing that ended well, and of the updates of
those that did not fail; it does not say that `wg.Wait` returns. PartiesCurrent leaves
out a peer whose PartyId was dropped, and of a node that met a deadline or a
peer that did it claims the PartyKey but not the mark.

Fairness. Weak fairness of each caller, worker, starter and of the event
loop's handlers is what the Go scheduler gives to a runnable goroutine. Fairness
of each channel of the event loop's select (`TakeUpdate`, `HandleStart`,
`DeletePeer`, `Quit`) rests on the uniform choice among ready cases. `Expire` is
fair since time passes, and `PeerSends` since other nodes that are connected
send what they owe. Loss, failing Starts, `CloseCall` and calls of the
API are never fair. In Membership, the processes, the event loops and the loss of what
was written to a dead stream are fair. In Reshare only the caller, the worker
up to its `wg.Wait` and the deadline are: no peer, party or update owes anything. In PeerStream the
goroutines, the event loops, and a write that can only fail are; nothing
has to be sent, to break or to be closed.

## 4. What is proved

Of Operation, for all constants that satisfy OpsAssumption and BoundsAssumption:

* `TypeCorrect`: Spec => []TypeOK. TypeOK is not inductive: Route reads the
  message a caller took and CallUpdate the message the event loop holds, so
  `TypeInv` adds that a caller at `route` has a message (CallInv), that a
  worker at `message` has one and belongs to an operation with a party
  (WorkInv), and that the event loop has its message and its party (LoopInv).
  The proof takes the goroutines one by one (TypeCaller, TypeWorker,
  TypeParty, TypeLoop, TypeReceive, TypeClose, TypeEnvironment).

* `ExclusionCorrect`: the invariant `Exclusion` of OperationInv;
* `OneWorkerCorrect`, `PartyOwnedCorrect`, `AbandonedCorrect`: the invariants it
  implies;
* `PartyKeptCorrect`: the action property PartyKept, from `Exclusion` and a
  lemma that lists who changes a pointer.

None of these theorems assumes that operations come one at a time. Of the parts of
`Exclusion`, `Gate`, `SoleProcess`, `OneWorker` and `Unused` say what holds until
two have been let in at once; `Early`, `Present`, `Late` and `Owned` hold ever after,
and PartyOwned and AbandonedOnlyByRoute rest on them alone.

`Exclusion` is inductive as a whole and none of its parts is by itself. One
process at a time, as long as it lasts, needs `Gate`, that between load and store
there is one goroutine and the flag is clear. One worker at a time needs more than the
signer's own flag, which is also checked and stored in two steps: only
`Early`, that a worker that is about to enter still has its caller in the select loop,
lets exclusion of callers exclude a second worker. That an
abandoned worker keeps the signer busy, and why it is abandoned, is `Present`.
`Owned` and `Late` describe a party after a deadline, where its pointer
stays and may be replaced by the next operation of its kind, and one whose worker
has reported data it could not convert. TLC checked
TypeInv and Exclusion, and the invariants below, on the safety instances before
they were proved.

On top of Exclusion:

* `ServiceCorrect`, `ServiceImplemented`: Operation implements NodeService until it
  lets in two operations at once. The argument needs `Answered` (a caller has a
  result exactly when it has concluded), `Sole` (while a caller stores a key no
  worker is left that could make another), `KeyMade` (what a worker reports is the
  key in memory) and `Finishing` (a caller that finishes had a worker).
  ServiceImplemented takes every action and names the step of NodeService it is, or
  shows that what a caller sees is unchanged.
* `ComputingCorrect`, `NoCircularWaitCorrect`, `LoopServedCorrect`: a worker in
  `wg.Wait` and an update of its party wait for each other only after a message
  that could not be converted, and the event loop waits on a party that nobody
  serves only after that, a deadline or an unknown destination. `Computing` ties the round of a party, its unsent
  messages and the place of whoever holds its lock together; `Settled` says
  that a worker that has left its loop in any other way left nothing to be taken.
* `ExchangeCorrect`, `OkMeansCompleteCorrect`: `ok` stands for a complete
  exchange, for any number of peers and rounds. `Hearing` follows a message from
  the event loop into the party: what a party holds has been received
  (`GotTaken`), a round is left with a message of every party (`RoundsHeard`),
  so that a party which ends has heard all (`EndHeard`). `Sending` follows one the other
  way: each round that a party has begun has been sent to p, or `outCh`, the
  worker or the caller has the message (`SentOrDue`), unless p is gone; Route
  sends a broadcast to all of `peers` or of `signerPeers`, which still has every
  party that is not gone (`TargetsKept`), and whoever is past a message has none
  left (`Emptied`).
* `NoForeignMessageCorrect`: a running party holds no message of an operation
  that ended well here, runs too or has not begun. TssMessage does not name its
  operation, so this rests on counting: a message is received once and stored once
  (`StoredOnce`), a party that ends holds the messages of its own operation
  (`OwnEnd`), so none of them is left for another party (`Spent`), whose parties
  are among those of the first (`PartiesShrink`); an operation that has not begun
  has no messages (`PostedOpen`), and two do not run at once (Exclusion).

Of Parties, for any set of nodes and operations that satisfies
NetworkAssumption, KindsAssumption, KeysAssumption and PartyBounds:

* `PartiesTypeCorrect`: Spec => []TypeOK.
* `MarkedTookPartCorrect`. MarkedTookPart is not inductive: that the peers a
  node marks were parties of the operation is `PeersTakePart` (nobody is
  launched while a process runs), that a party which has sent its last messages
  is inside, has ended or has failed is `SentInside`, that one which has ended has a share is
  `OkHasShare`, and that a PartyId message claims no share its sender lacks is
  `Truthful`; shares are never lost.
* `MarkedKnownCorrect`: a marked peer has a PartyKey, from `KnownInside`
  (sortParties has seen the keys of all peers of a node that is inside) and
  `SentKnown`.
* `PartiesCurrentCorrect`. A PartyId message may be overtaken by another of its
  sender, and the one that is handled last would win. That there are never two
  different ones is `SentCurrent`: a sender changes only when an operation ends,
  its peers have then agreed on the PartyKeys of all parties (`Agree`), so
  they have learned the present one (`KeyLearned`) and no message with it is left
  (`KeyNew`). `KeyOld` and `KeyHeld` say that the keys in lists are
  earlier ones and that a node's own stays while it is inside.

Of Reshare, for any number of nodes and resharings, any threshold and any set
of faults that satisfy HostsAssumption, ResharesAssumption, SharesAssumption and
ReshareBounds:

* `ReshareTypeCorrect`: Spec => []TypeOK. It needs two parts of the invariant:
  what a party sends is a message of a round (`PartyShape`), and
  `reSharingEnded` never passes two (`EndCount`).
* `OkMeansResharedCorrect`, `DrainsAfterDoneCorrect`, `ShareReplacedLastCorrect`.

They follow from `ReshareInv`, whose nine parts are inductive together. The
critical one is `CommitteeKept`: a worker counts on two ends exactly when the
node is in the old committee, though it looks at `privateKey` anew each time. A
worker that has lost its caller may replace the share just before the next one
enters; the next one is then refused, because the first can neither report nor
return and keeps the signer busy (`Stuck`). With `EndCount` this makes the end
that replaces the share the last of the node (LastEndOver), `DoneOver` says that
no party sends from then on, `RoundsHeld` that a party has the messages of the
rounds behind it, and `ShareKept` that between Done and the return no worker is
left that could replace the share (`OneCaller`, `OneWorker`).

`OnlyLastRoundUnsentCorrect` adds `OutboxInv`. A message of the first three
rounds is in one place at a time: its party, a goroutine of
handleMessageCommittee, or gone (`SentOnce`, `OneCopy`, `OutSide`). When Reshare
has returned a key, this node's parties have heard every round, its own
included when it is in the committee that sends it, and what they have
heard was posted (`GotPosted`), so the message is gone. The second round of a node
that only joins is the hard case: nobody in the node waits for it, but the
third round of another node answers it (`ThirdAfterSecond`). The proof first
lists what a step can do to a party (Changes) and to the two threads of a
resharing (Moves), and who adds and takes messages (NetChanges); the parts of the
invariants are then proved from these lists.

Of Membership, for any set of nodes and of calls, under AddsAssumption
and NoStreamAssumption:

* `MemberTypeCorrect`, `DeadPeersDeleted`: the types, and that at rest no peer's
  stream is closed, as the object of a peer always has a reader (`ObjectRead`).
* `LinksSymmetric`: unless a stream was refused both of its ends read it or will
  (`StreamTaken`), and who reads an open stream has the peer (`ReaderHasPeer`).
* `PartiesKnown`: the party of a peer is known, on its way, or will be sent when
  the other end begins to read (`PartyDue`), also when a second stream replaces
  the object.
* `MeshComplete`. While one node is being added there are two groups (`Meeting`):
  those that know the caller and those that know the node it adds. Each is a full
  mesh, connections are made only between them, each node of the
  first group is linked to the new node or will be (`Due`), and whoever of the second group hears
  of a node of the first hears it from one that has told the whole group; at
  rest, what is due is done and the union is a full mesh.

Of PeerStream, for any two ends, messages of any sizes and any window, under
EndsAssumption, CallsAssumption and StreamBounds:

* `StreamTypeCorrect`, `FramesUnmixed`: `LastOf` says that each piece is followed
  by the next one of its message, or after a delimiter by the first of another, and
  that the last piece is the writer's own or the end of a message until a write fails.
* `SentIsOnItsWay`, `StreamIsChannel`: the stream implements Channel, step by
  step. What was delivered is a prefix of what was flushed (`DeliveredInv`). The
  pieces on their way are numbered with the place of their message
  (`OrderInv`), so that delimiters and messages flushed but not delivered
  correspond one to one: their number is the length of the abstract queue, which
  grows with the last piece of a message, shrinks with its delivery, and
  is as it was in every other step.

Every invariant, every action property and both refinements that the passing
runs check are proved. Only model-checked is what is beyond the proof system,
liveness under fairness: OperationReturns, LoopReturns, Settles, ReshareReturns,
SendReturns and BothForget. They are about the instances of their runs; that of
OperationReturns and LoopReturns is a signature, whose worker, party and updates are
the same actions as those of a key generation. CloseEnds has no passing run: it is
refuted (`close_blocked`), and what LoopReturns and LoopServed say together is what is
left of it.

## 5. Not modelled, and why

* Options and configuration: assignments before the node starts, without state.
* The order of parties: SortPartyIDs is the library's, and the index it gives is
  used by the library only. That a party finds itself is in Parties.
* The data race on `peers` and `signerPeers` (maps without a lock) beyond its
  interleavings, which Operation has: Close empties peers between any two steps.
  That the Go runtime may end the process is left out.
* A second call of Close, which blocks for ever since nobody receives from
  `quit`; the comment of the API calls it undefined. Run of `peer/peer.go`, which
  the node does not call.
* The composition of all modules in one: each takes what the others
  establish as its environment (Reshare any first state of the two flags,
  Parties operations of three steps), as a product of them is beyond TLC.
* Errors of the library's own JSON and protobuf encodings, such as that of
  sendMyPartyToPeers at the end of Reshare: the messages are its own. (A share that
  cannot be marshalled is modelled, as what it does is visible in storage.)
* JSON encodings, logging, the DHT, and tss-lib and libp2p beyond the behaviour
  the code relies on.
