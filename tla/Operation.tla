------------------------------ MODULE Operation ------------------------------
(***************************************************************************)
(* One node of the library while it runs threshold operations: the key     *)
(* generations and signatures of keygen.go and sign.go, the event loop of  *)
(* start.go and the signer of tss/keygen.go and tss/sign.go.               *)
(*                                                                         *)
(* Four kinds of goroutine meet here.  The CALLER of an operation is the   *)
(* goroutine of the API call, or the one that the event loop spawns for a  *)
(* Start message of another node.  The WORKER is the goroutine that runs   *)
(* GenerateKey or Sign.  The STARTER is the goroutine that calls Start on  *)
(* the party of the tss library.  The event LOOP delivers the messages of  *)
(* the other parties to that party.  Every channel between them is         *)
(* unbuffered, so a send is a rendezvous, and who stops receiving decides  *)
(* who blocks.  A goroutine that sends one message and ends is modelled by *)
(* the message being in flight.  Other nodes are the environment.          *)
(***************************************************************************)
EXTENDS Integers, FiniteSets

CONSTANTS
  Peers,      \* the nodes this node is connected to at the start
  KeyGens,    \* identifiers of key generations
  Signs,      \* identifiers of SignMessage operations
  EthSigns,   \* identifiers of SignEthTransaction operations
  Remote,     \* the operations another node initiates
  Threshold,  \* thresholdParty
  LastRound,  \* rounds in which the library's parties exchange messages
  Faults,     \* what may go wrong, a subset of FaultNames
  NoOp,       \* no operation, Go's nil
  Preset,     \* the key given to New with WithPrivateKey
  All         \* the destination of a broadcast

Ops == KeyGens \cup Signs \cup EthSigns
TssOps == KeyGens \cup Signs          \* the operations that start a worker
Rounds == 1..LastRound

\* "deadline" the deadline of an operation passes; "loss" a connection breaks;
\* "start" the library's Start returns an error; "lateStart" the starter is
\* scheduled later than the first update; "close" the node is closed; "store" the
\* storage refuses a key; "convert" the signer cannot convert its data, a message
\* or a result; "reshare" updates of an earlier resharing are still in the signer.
FaultNames == {"deadline", "loss", "start", "lateStart", "close", "store", "convert",
               "reshare"}

ASSUME OpsAssumption ==
  /\ KeyGens \cap Signs = {}
  /\ EthSigns \cap TssOps = {}
  /\ Remote \subseteq TssOps
  /\ {NoOp, Preset} \cap Ops = {}
  /\ NoOp # Preset
  /\ All \notin Peers
ASSUME BoundsAssumption ==
  /\ Threshold \in Nat
  /\ LastRound \in Nat \ {0}
  /\ Faults \subseteq FaultNames

VARIABLES
  busy,         \* node.aProcessIsRunning
  peers,        \* keys of node.peers
  signerPeers,  \* keys of node.signerPeers
  keyed,        \* peers whose HasPrivateKey is true
  stored,       \* what StorePrivateKey was given last
  tssBusy,      \* tssSigner.aProcessIsRunning
  key,          \* tssSigner.privateKey, named by the operation that made it
  ptr,          \* keyGenParty and signParty, by kind
  parties,      \* the other parties of an operation
  caller,       \* where the caller of an operation is
  routing,      \* the message a caller took from MessageCh
  result,       \* what an operation returned
  worker,       \* where the worker of an operation is
  offering,     \* the message a worker sends on MessageCh
  starter,      \* where the starter of an operation is
  round,        \* the library's round of the party of an operation
  got,          \* which operation's message the party holds, by sender and round
  out,          \* messages of the party that outCh has not taken yet
  loop,         \* where the event loop is
  handling,     \* the Update message the event loop handles
  on,           \* the party the event loop has called Update on
  posted,       \* Update messages sent to this node
  taken,        \* those the event loop has received
  sent,         \* the round messages an operation has sent, by receiver
  down,         \* peers whose connection is broken
  expired,      \* operations whose deadline has passed
  closing,      \* where Close is
  resharing,    \* an update of an earlier resharing holds tssSigner.wg
  overlapped    \* two operations have been let in at once: a history variable

nodeVars  == <<busy, peers, signerPeers, keyed, stored>>
tssVars   == <<tssBusy, key, ptr>>
callVars  == <<caller, routing, result, parties>>
workVars  == <<worker, offering>>
partyVars == <<starter, round, got, out>>
loopVars  == <<loop, handling, on, taken>>
netVars   == <<posted, sent, down, expired, closing, resharing, overlapped>>
vars == <<nodeVars, tssVars, callVars, workVars, partyVars, loopVars, netVars>>

\* What the actions of each goroutine, and of the environment, leave alone.
notCaller == <<tssVars, workVars, partyVars, loopVars, netVars>>
notWorker == <<nodeVars, callVars, partyVars, loopVars, netVars>>
notParty  == <<nodeVars, tssVars, callVars, workVars, loopVars, netVars>>
notLoop   == <<nodeVars, tssVars, callVars, workVars, netVars>>
notNet    == <<nodeVars, tssVars, callVars, workVars, partyVars, loopVars>>

Kinds == {"keygen", "sign"}
Kind(o) == IF o \in KeyGens THEN "keygen" ELSE "sign"

Messages == [op : Ops, from : Peers, round : Rounds]
NoMessage == [op |-> NoOp, from |-> All, round |-> 0]
Outs == (Peers \cup {All}) \X Rounds      \* destination and round
NoOut == <<All, 0>>

\* Sent on ErrCh.
Errors == {"refused", "noShare", "badData", "deadline", "library", "convert"}
Results == Errors \cup {"none", "ok", "busy", "dropped", "notEnough", "noKey",
                        "noSigners", "unknown", "sendError"}
CallerAt == {"idle", "offered", "admitted", "select", "route", "finish",
             "ethWait", "leaving", "returned"}
WorkerAt == Errors \cup {"none", "check", "enter", "select", "message", "done",
                         "drain", "reset", "clear", "gone"}
StarterAt == {"none", "ready", "running", "failed", "done"}
LoopAt == {"select", "wait", "call", "lock", "step", "send", "end", "exit",
           "stopped", "panic"}

\* Between Store(true) and the deferred Store(false).
Inside(o) == caller[o] \in {"select", "route", "finish", "ethWait", "leaving"}

\* Between wg.Add(1) and wg.Done() of an update of these parties, which only the
\* event loop does.
Updating == loop \in {"lock", "step", "send", "end", "exit"}

\* The panic of a goroutine ends the process.
Alive == loop # "panic"

NodeType ==
  /\ busy \in BOOLEAN
  /\ peers \subseteq Peers /\ signerPeers \subseteq Peers /\ keyed \subseteq Peers
  /\ stored \in KeyGens \cup {NoOp, Preset}
TssType ==
  /\ tssBusy \in BOOLEAN
  /\ key \in KeyGens \cup {NoOp, Preset}
  /\ ptr \in [Kinds -> TssOps \cup {NoOp}]
CallType ==
  /\ caller \in [Ops -> CallerAt]
  /\ routing \in [Ops -> Outs \cup {NoOut}]
  /\ result \in [Ops -> Results]
  /\ parties \in [Ops -> SUBSET Peers]
WorkType ==
  /\ worker \in [Ops -> WorkerAt]
  /\ offering \in [Ops -> Outs \cup {NoOut}]
PartyType ==
  /\ starter \in [Ops -> StarterAt]
  /\ round \in [Ops -> 0..LastRound + 1]
  /\ got \in [Ops -> [Peers \X Rounds -> Ops \cup {NoOp}]]
  /\ out \in [Ops -> SUBSET Outs]
LoopType ==
  /\ loop \in LoopAt
  /\ handling \in Messages \cup {NoMessage}
  /\ on \in TssOps \cup {NoOp}
  /\ taken \subseteq Messages
NetType ==
  /\ posted \subseteq Messages
  /\ sent \in [Ops -> SUBSET (Peers \X Rounds)]
  /\ down \subseteq Peers
  /\ expired \subseteq Ops
  /\ closing \in {"open", "asked", "quit", "closed"}
  /\ resharing \in BOOLEAN /\ overlapped \in BOOLEAN

TypeOK == /\ NodeType /\ TssType /\ CallType /\ WorkType
          /\ PartyType /\ LoopType /\ NetType

Init ==
  /\ busy = FALSE /\ tssBusy = FALSE
  /\ peers = Peers /\ signerPeers = {}
  /\ key \in {NoOp, Preset} /\ stored = NoOp
  /\ keyed = IF key = NoOp THEN {} ELSE Peers
  /\ ptr = [k \in Kinds |-> NoOp]
  /\ parties = [o \in Ops |-> {}]
  /\ caller = [o \in Ops |-> "idle"]
  /\ routing = [o \in Ops |-> NoOut]
  /\ result = [o \in Ops |-> "none"]
  /\ worker = [o \in Ops |-> "none"]
  /\ offering = [o \in Ops |-> NoOut]
  /\ starter = [o \in Ops |-> "none"]
  /\ round = [o \in Ops |-> 0]
  /\ got = [o \in Ops |-> [w \in Peers \X Rounds |-> NoOp]]
  /\ out = [o \in Ops |-> {}]
  /\ loop = "select" /\ handling = NoMessage /\ on = NoOp
  /\ posted = {} /\ taken = {} /\ sent = [o \in Ops |-> {}]
  /\ down = {} /\ expired = {} /\ closing = "open"
  /\ resharing = FALSE /\ overlapped = FALSE

-----------------------------------------------------------------------------
(* The caller: KeyGen, SignMessage, SignEthTransaction and the handlers of   *)
(* the Start messages.                                                       *)

\* An operation has found aProcessIsRunning clear, and will set it. Nothing keeps
\* another one from finding it clear before that.
Admit(o) ==
  /\ caller' = [caller EXCEPT ![o] = "admitted"]
  /\ overlapped' = (overlapped \/ \E p \in Ops : caller[p] = "admitted")

notAdmit == <<nodeVars, tssVars, workVars, partyVars, loopVars, routing, result,
              parties, posted, sent, down, expired, closing, resharing>>

\* Mutant: the API does not check for another process.
CallUnchecked(o) ==
  /\ o \notin Remote /\ caller[o] = "idle"
  /\ Admit(o)
  /\ UNCHANGED notAdmit

\* The API is called and finds no process running.
Call(o) ==
  /\ o \notin Remote /\ caller[o] = "idle"
  /\ ~busy
  /\ Admit(o)
  /\ UNCHANGED notAdmit

\* ErrAnotherProcessIsRunning.
CallRefused(o) ==
  /\ o \notin Remote /\ caller[o] = "idle"
  /\ busy
  /\ caller' = [caller EXCEPT ![o] = "returned"]
  /\ result' = [result EXCEPT ![o] = "busy"]
  /\ UNCHANGED <<notCaller, nodeVars, routing, parties>>

\* Another node initiates an operation: its Start message is in flight.
RemoteStart(o) ==
  /\ o \in Remote /\ caller[o] = "idle"
  /\ caller' = [caller EXCEPT ![o] = "offered"]
  /\ IF o \in Signs
     THEN \E S \in SUBSET Peers : /\ Cardinality(S) = Threshold
                                  /\ parties' = [parties EXCEPT ![o] = S]
     ELSE UNCHANGED parties
  /\ UNCHANGED <<notCaller, nodeVars, routing, result>>

\* handleMessage drops a Start message while a process runs, and spawns a
\* handler otherwise; the handler stores aProcessIsRunning when it first runs.
HandleStart(o) ==
  /\ loop = "select" /\ caller[o] = "offered"
  /\ \/ /\ busy
        /\ caller' = [caller EXCEPT ![o] = "returned"]
        /\ result' = [result EXCEPT ![o] = "dropped"]
        /\ UNCHANGED <<notCaller, nodeVars, routing, parties>>
     \/ /\ ~busy
        /\ Admit(o)
        /\ UNCHANGED notAdmit

haveEnoughPeer == Cardinality(peers) >= Threshold

\* From Store(true) to the select loop of doKeyGen. The Start messages leave
\* before the number of peers is checked.
EnterKeyGen(o) ==
  /\ o \in KeyGens /\ caller[o] = "admitted"
  /\ busy' = TRUE
  /\ parties' = [parties EXCEPT ![o] = peers]
  /\ \/ /\ ~haveEnoughPeer
        /\ caller' = [caller EXCEPT ![o] = "leaving"]
        /\ result' = [result EXCEPT ![o] = "notEnough"]
        /\ UNCHANGED worker
     \/ /\ haveEnoughPeer
        /\ caller' = [caller EXCEPT ![o] = "select"]
        /\ worker' = [worker EXCEPT ![o] = "check"]
        /\ UNCHANGED result
  /\ UNCHANGED <<tssVars, partyVars, loopVars, netVars, peers, signerPeers,
                 keyed, stored, routing, offering>>

\* The choices of signers: none if too few peers have a key.
selectRandomlySignerPeer ==
  {S \in SUBSET (keyed \cap peers) : Cardinality(S) = Threshold}

\* A signer this node does not know is left out.
updateSignerPeers(S) == signerPeers' = S \cap peers

\* From Store(true) to the select loop of doSign, or to the select of
\* SignEthTransaction, which starts no worker. The signers are random.
EnterSign(o) ==
  /\ o \in (Signs \ Remote) \cup EthSigns /\ caller[o] = "admitted"
  /\ busy' = TRUE
  /\ \/ /\ key = NoOp \/ selectRandomlySignerPeer = {}
        /\ caller' = [caller EXCEPT ![o] = "leaving"]
        /\ result' = [result EXCEPT ![o] =
                        IF key = NoOp THEN "noKey" ELSE "noSigners"]
        /\ UNCHANGED <<signerPeers, parties, worker>>
     \/ /\ key # NoOp
        /\ \E S \in selectRandomlySignerPeer :
             /\ updateSignerPeers(S)
             /\ parties' = [parties EXCEPT ![o] = S]
        /\ IF o \in EthSigns
           THEN /\ caller' = [caller EXCEPT ![o] = "ethWait"]
                /\ UNCHANGED worker
           ELSE /\ caller' = [caller EXCEPT ![o] = "select"]
                /\ worker' = [worker EXCEPT ![o] = "check"]
        /\ UNCHANGED result
  /\ UNCHANGED <<tssVars, partyVars, loopVars, netVars, peers, keyed, stored,
                 routing, offering>>

\* handleSignMessage: a signer that updateSignerPeers leaves out stays a party.
JoinSign(o) ==
  /\ o \in Signs \cap Remote /\ caller[o] = "admitted"
  /\ busy' = TRUE
  /\ updateSignerPeers(parties[o])
  /\ caller' = [caller EXCEPT ![o] = "select"]
  /\ worker' = [worker EXCEPT ![o] = "check"]
  /\ UNCHANGED <<tssVars, partyVars, loopVars, netVars, peers, keyed, stored,
                 routing, result, parties, offering>>

\* Mutant: SignEthTransaction clears aProcessIsRunning before it waits.
EthSendFailsEarlyClear(o) ==
  /\ caller[o] = "ethWait" /\ busy
  /\ busy' = FALSE
  /\ UNCHANGED <<notCaller, callVars, peers, signerPeers, keyed, stored>>

\* SignEthTransaction waits on two channels that nobody has; a failed send of
\* its Start message is all that can wake it.
EthSendFails(o) ==
  /\ caller[o] = "ethWait" /\ signerPeers \cap down # {}
  /\ caller' = [caller EXCEPT ![o] = "leaving"]
  /\ result' = [result EXCEPT ![o] = "sendError"]
  /\ UNCHANGED <<notCaller, nodeVars, routing, parties>>

Targets(o) == IF o \in KeyGens THEN peers ELSE signerPeers

\* Mutant: the IsBroadcast branch is missing.
RouteNoBroadcast(o) ==
  /\ caller[o] = "route"
  /\ sent' = [sent EXCEPT ![o] = @ \cup {routing[o]}]
  /\ caller' = [caller EXCEPT ![o] = "select"]
  /\ routing' = [routing EXCEPT ![o] = NoOut]
  /\ UNCHANGED <<nodeVars, tssVars, workVars, partyVars, loopVars, result,
                 parties, posted, down, expired, closing, resharing, overlapped>>

\* Mutant: a broadcast is sent to one peer only.
RouteToOne(o) ==
  /\ caller[o] = "route"
  /\ LET to == routing[o][1]
         r  == routing[o][2]
     IN  \E p \in Targets(o) :
           /\ to \in {All, p}
           /\ sent' = [sent EXCEPT ![o] = @ \cup {<<p, r>>}]
  /\ caller' = [caller EXCEPT ![o] = "select"]
  /\ routing' = [routing EXCEPT ![o] = NoOut]
  /\ UNCHANGED <<nodeVars, tssVars, workVars, partyVars, loopVars, result,
                 parties, posted, down, expired, closing, resharing, overlapped>>

\* handleKeyGenUpdateMessage and handleSignUpdateMessage: a message to a party
\* that is not a target ends the operation at this caller.
Route(o) ==
  /\ caller[o] = "route"
  /\ LET to == routing[o][1]
         r  == routing[o][2]
         receivers == IF to = All THEN Targets(o) ELSE {to}
     IN  IF receivers \subseteq Targets(o)
         THEN /\ sent' = [sent EXCEPT ![o] = @ \cup (receivers \X {r})]
              /\ caller' = [caller EXCEPT ![o] = "select"]
              /\ UNCHANGED result
         ELSE /\ caller' = [caller EXCEPT ![o] = "leaving"]
              /\ result' = [result EXCEPT ![o] = "unknown"]
              /\ UNCHANGED sent
  /\ routing' = [routing EXCEPT ![o] = NoOut]
  /\ UNCHANGED <<nodeVars, tssVars, workVars, partyVars, loopVars, parties,
                 posted, down, expired, closing, resharing, overlapped>>

\* Mutant: doneKeyGen does not store the key.
FinishUnstored(o) ==
  /\ caller[o] = "finish"
  /\ keyed' = IF o \in KeyGens THEN keyed \cup peers ELSE keyed
  /\ caller' = [caller EXCEPT ![o] = "leaving"]
  /\ result' = [result EXCEPT ![o] = "ok"]
  /\ UNCHANGED <<notCaller, busy, peers, signerPeers, stored, routing, parties>>

\* doneKeyGen, or the return of a signature. doneKeyGen only logs that the key
\* could not be marshalled or stored.
Finish(o) ==
  /\ caller[o] = "finish"
  /\ \/ /\ o \in KeyGens
        /\ keyed' = keyed \cup peers
        /\ stored' = key \/ ("store" \in Faults /\ UNCHANGED stored)
     \/ /\ o \notin KeyGens
        /\ UNCHANGED <<keyed, stored>>
  /\ caller' = [caller EXCEPT ![o] = "leaving"]
  /\ result' = [result EXCEPT ![o] = "ok"]
  /\ UNCHANGED <<notCaller, busy, peers, signerPeers, routing, parties>>

\* The deferred Store(false).
Leave(o) ==
  /\ caller[o] = "leaving"
  /\ busy' = FALSE
  /\ caller' = [caller EXCEPT ![o] = "returned"]
  /\ UNCHANGED <<notCaller, peers, signerPeers, keyed, stored, routing, result,
                 parties>>

-----------------------------------------------------------------------------
(* The worker: GenerateKey and Sign of the signer.                           *)

\* Mutant: the signer does not check for another process.
WorkerCheckNothing(o) ==
  /\ worker[o] = "check"
  /\ worker' = [worker EXCEPT ![o] = "enter"]
  /\ UNCHANGED <<notWorker, tssVars, offering>>

\* The check of tssSigner.aProcessIsRunning and its store are two steps.
WorkerCheck(o) ==
  /\ worker[o] = "check"
  /\ worker' = [worker EXCEPT ![o] = IF tssBusy THEN "refused" ELSE "enter"]
  /\ UNCHANGED <<notWorker, tssVars, offering>>

\* Store(true), then Sign asks for a key and converts its data; the new party and
\* its starter.
WorkerEnter(o) ==
  /\ worker[o] = "enter"
  /\ tssBusy' = TRUE
  /\ \/ /\ o \in Signs /\ key = NoOp
        /\ worker' = [worker EXCEPT ![o] = "noShare"]
        /\ UNCHANGED <<ptr, starter>>
     \/ /\ o \in Signs /\ key # NoOp /\ "convert" \in Faults
        /\ worker' = [worker EXCEPT ![o] = "badData"]
        /\ UNCHANGED <<ptr, starter>>
     \/ /\ o \in Signs => key # NoOp
        /\ ptr' = [ptr EXCEPT ![Kind(o)] = o]
        /\ starter' = [starter EXCEPT ![o] = "ready"]
        /\ worker' = [worker EXCEPT ![o] = "select"]
  /\ UNCHANGED <<nodeVars, callVars, loopVars, netVars, key, offering, round,
                 got, out>>

\* Mutant: a passed deadline is noted and the select loop goes on.
WorkerDeadlineIgnored(o) == worker[o] = "select" /\ o \in expired /\ UNCHANGED vars

\* The select loop: <-ctx.Done().
WorkerDeadline(o) ==
  /\ worker[o] = "select" /\ o \in expired
  /\ worker' = [worker EXCEPT ![o] = "deadline"]
  /\ UNCHANGED <<notWorker, tssVars, offering>>

\* The select loop: <-errCh.
WorkerTakesError(o) ==
  /\ worker[o] = "select" /\ starter[o] = "failed"
  /\ worker' = [worker EXCEPT ![o] = "library"]
  /\ starter' = [starter EXCEPT ![o] = "done"]
  /\ UNCHANGED <<nodeVars, tssVars, callVars, loopVars, netVars, offering,
                 round, got, out>>

\* Mutant: a message that convertMessage refuses does not end the loop.
WorkerTakesOutSkips(o) ==
  /\ worker[o] = "select"
  /\ \E m \in out[o] :
       /\ out' = [out EXCEPT ![o] = @ \ {m}]
       /\ \/ /\ offering' = [offering EXCEPT ![o] = m]
             /\ worker' = [worker EXCEPT ![o] = "message"]
          \/ "convert" \in Faults /\ UNCHANGED <<worker, offering>>
  /\ UNCHANGED <<nodeVars, tssVars, callVars, loopVars, netVars, starter, round,
                 got>>

\* The select loop: <-outCh. A message that convertMessage refuses is lost, and
\* the party goes on.
WorkerTakesOut(o) ==
  /\ worker[o] = "select"
  /\ \E m \in out[o] :
       /\ out' = [out EXCEPT ![o] = @ \ {m}]
       /\ \/ /\ offering' = [offering EXCEPT ![o] = m]
             /\ worker' = [worker EXCEPT ![o] = "message"]
          \/ /\ "convert" \in Faults
             /\ worker' = [worker EXCEPT ![o] = "convert"]
             /\ UNCHANGED offering
  /\ UNCHANGED <<nodeVars, tssVars, callVars, loopVars, netVars, starter, round,
                 got>>

\* The select loop: <-endCh, which the event loop is sending on. The key is in
\* place before makePublicKey, which may fail like convertSignedDataToSignature.
WorkerTakesEnd(o) ==
  /\ worker[o] = "select" /\ loop = "end" /\ on = o
  /\ key' = IF o \in KeyGens THEN o ELSE key
  /\ \/ worker' = [worker EXCEPT ![o] = "done"]
     \/ "convert" \in Faults /\ worker' = [worker EXCEPT ![o] = "convert"]
  /\ loop' = "exit"
  /\ UNCHANGED <<nodeVars, callVars, partyVars, netVars, tssBusy, ptr, offering,
                 handling, on, taken>>

\* Mutant: the worker leaves its select loop after a message.
GiveMessageOnce(o) ==
  /\ worker[o] = "message" /\ caller[o] = "select"
  /\ routing' = [routing EXCEPT ![o] = offering[o]]
  /\ offering' = [offering EXCEPT ![o] = NoOut]
  /\ caller' = [caller EXCEPT ![o] = "route"]
  /\ worker' = [worker EXCEPT ![o] = "drain"]
  /\ UNCHANGED <<nodeVars, tssVars, partyVars, loopVars, netVars, result,
                 parties>>

\* A message on MessageCh, received in the select loop of doKeyGen or doSign.
GiveMessage(o) ==
  /\ worker[o] = "message" /\ caller[o] = "select"
  /\ routing' = [routing EXCEPT ![o] = offering[o]]
  /\ offering' = [offering EXCEPT ![o] = NoOut]
  /\ caller' = [caller EXCEPT ![o] = "route"]
  /\ worker' = [worker EXCEPT ![o] = "select"]
  /\ UNCHANGED <<nodeVars, tssVars, partyVars, loopVars, netVars, result,
                 parties>>

\* Mutant: a deadline does not end the loop.
AfterDeadlineGoesOn == [refused |-> "gone", noShare |-> "clear", badData |-> "clear",
                        deadline |-> "select", library |-> "drain", convert |-> "drain"]

\* Mutant: after a deadline the worker waits for updates like after an error.
AfterDeadlineDrain == [refused |-> "gone", noShare |-> "clear", badData |-> "clear",
                       deadline |-> "drain", library |-> "drain", convert |-> "drain"]

\* Where a worker goes once its error is received: a refused one returns, the
\* next three return through the deferred Store(false), the last two break the loop.
AfterError == [refused |-> "gone", noShare |-> "clear", badData |-> "clear",
               deadline |-> "clear", library |-> "drain", convert |-> "drain"]

\* An error on ErrCh.
GiveError(o) ==
  /\ worker[o] \in Errors /\ caller[o] = "select"
  /\ result' = [result EXCEPT ![o] = worker[o]]
  /\ caller' = [caller EXCEPT ![o] = "leaving"]
  /\ worker' = [worker EXCEPT ![o] = AfterError[worker[o]]]
  /\ UNCHANGED <<nodeVars, tssVars, partyVars, loopVars, netVars, routing,
                 parties, offering>>

\* Done or Signature.
GiveDone(o) ==
  /\ worker[o] = "done" /\ caller[o] = "select"
  /\ caller' = [caller EXCEPT ![o] = "finish"]
  /\ worker' = [worker EXCEPT ![o] = "drain"]
  /\ UNCHANGED <<nodeVars, tssVars, partyVars, loopVars, netVars, routing,
                 result, parties, offering>>

\* Mutant: aProcessIsRunning of the signer is cleared before the party is.
WorkerDrainedClear(o) ==
  /\ worker[o] = "drain" /\ ~Updating /\ ~resharing
  /\ worker' = [worker EXCEPT ![o] = "reset"]
  /\ tssBusy' = FALSE
  /\ UNCHANGED <<notWorker, key, ptr, offering>>

\* t.wg.Wait() returns: the wait group is one for all parties of the signer.
WorkerDrained(o) ==
  /\ worker[o] = "drain" /\ ~Updating /\ ~resharing
  /\ worker' = [worker EXCEPT ![o] = "reset"]
  /\ UNCHANGED <<notWorker, tssVars, offering>>

\* Mutant: the party is not set to nil.
WorkerResetNothing(o) ==
  /\ worker[o] = "reset"
  /\ worker' = [worker EXCEPT ![o] = "clear"]
  /\ UNCHANGED <<notWorker, tssVars, offering>>

\* t.keyGenParty = nil, t.signParty = nil.
WorkerReset(o) ==
  /\ worker[o] = "reset"
  /\ ptr' = [ptr EXCEPT ![Kind(o)] = NoOp]
  /\ worker' = [worker EXCEPT ![o] = "clear"]
  /\ UNCHANGED <<notWorker, tssBusy, key, offering>>

\* The deferred Store(false).
WorkerClear(o) ==
  /\ worker[o] = "clear"
  /\ tssBusy' = FALSE
  /\ worker' = [worker EXCEPT ![o] = "gone"]
  /\ UNCHANGED <<notWorker, key, ptr, offering>>

-----------------------------------------------------------------------------
(* The party of the tss library. Start and Update hold its lock, and send on *)
(* outCh and endCh while they do.                                            *)

\* A round sends one broadcast or one message to each party.
RoundOuts(o, r) == {{<<All, r>>}, parties[o] \X {r}}

StartParty(o) ==
  /\ starter[o] = "ready" /\ ~(on = o /\ loop \in {"step", "send", "end"})
  /\ starter' = [starter EXCEPT ![o] = "running"]
  /\ round' = [round EXCEPT ![o] = 1]
  /\ \E ms \in RoundOuts(o, 1) : out' = [out EXCEPT ![o] = ms]
  /\ UNCHANGED <<notParty, got>>

\* The first round cannot start, as when no safe primes were found in time.
StartFails(o) ==
  /\ "start" \in Faults
  /\ starter[o] = "ready" /\ ~(on = o /\ loop \in {"step", "send", "end"})
  /\ starter' = [starter EXCEPT ![o] = "failed"]
  /\ UNCHANGED <<notParty, round, got, out>>

StartReturns(o) ==
  /\ starter[o] = "running" /\ out[o] = {}
  /\ starter' = [starter EXCEPT ![o] = "done"]
  /\ UNCHANGED <<notParty, round, got, out>>

\* Every party's message of this round is there.
CanProceed(o) ==
  /\ round[o] \in Rounds
  /\ \A p \in parties[o] : got[o][<<p, round[o]>>] # NoOp

\* The messages are those of the operation itself: TssMessage does not say to
\* which operation it belongs, and the rounds verify what others produced.
OwnMessages(o) ==
  \A p \in parties[o], r \in Rounds : got[o][<<p, r>>] \in {NoOp, o}

-----------------------------------------------------------------------------
(* The event loop.                                                           *)

\* receivedMsg: an Update message, in any order, as every send is a goroutine.
TakeUpdate ==
  /\ loop = "select"
  /\ \E m \in posted \ taken :
       /\ taken' = taken \cup {m}
       /\ handling' = m
       /\ loop' = IF ptr[Kind(m.op)] = NoOp THEN "wait" ELSE "call"
  /\ UNCHANGED <<notLoop, partyVars, on>>

\* waitToCreateKeyGenParty and waitToCreateSignParty poll for the party.
PartyReady ==
  /\ loop = "wait" /\ ptr[Kind(handling.op)] # NoOp
  /\ loop' = "call"
  /\ UNCHANGED <<notLoop, partyVars, handling, on, taken>>

\* A party of kind k is about to be made: the polls last more than a minute.
Creating(k) ==
  \E o \in TssOps : /\ Kind(o) = k
                    /\ \/ caller[o] = "admitted"
                       \/ worker[o] \in {"check", "enter"}

\* Mutant: the polls go on until there is a party.
GiveUpNever == FALSE

\* The wait gives up and the message is lost.
GiveUp ==
  /\ loop = "wait" /\ ptr[Kind(handling.op)] = NoOp
  /\ ~Creating(Kind(handling.op))
  /\ loop' = "select"
  /\ handling' = NoMessage
  /\ UNCHANGED <<notLoop, partyVars, on, taken>>

\* wg.Add(1), then the field is read again: nil by now, it is a panic.
CallUpdate ==
  /\ loop = "call"
  /\ on' = ptr[Kind(handling.op)]
  /\ loop' = IF on' = NoOp THEN "panic" ELSE "lock"
  /\ UNCHANGED <<notLoop, partyVars, handling, taken>>

\* The library refuses a message from a node that is not a party, and stores
\* any other once Start does not hold the lock.
Update ==
  /\ loop = "lock"
  /\ \/ /\ handling.from \notin parties[on]
        /\ loop' = "exit"
        /\ UNCHANGED got
     \/ /\ handling.from \in parties[on]
        /\ starter[on] # "running"
        /\ starter[on] = "ready" => "lateStart" \in Faults
        /\ got' = [got EXCEPT ![on][<<handling.from, handling.round>>] =
                                handling.op]
        /\ loop' = "step"
  /\ handling' = NoMessage
  /\ UNCHANGED <<notLoop, starter, round, out, on, taken>>

\* The rounds that can proceed are started inside Update; the last one sends
\* on endCh. A round refuses messages that belong to another operation.
Step ==
  /\ loop = "step"
  /\ \/ /\ ~CanProceed(on) \/ ~OwnMessages(on)
        /\ loop' = "exit"
        /\ UNCHANGED <<round, out>>
     \/ /\ CanProceed(on) /\ round[on] < LastRound
        /\ round' = [round EXCEPT ![on] = @ + 1]
        /\ \E ms \in RoundOuts(on, round[on] + 1) :
             out' = [out EXCEPT ![on] = ms]
        /\ loop' = "send"
     \/ /\ CanProceed(on) /\ round[on] = LastRound /\ OwnMessages(on)
        /\ round' = [round EXCEPT ![on] = @ + 1]
        /\ loop' = "end"
        /\ UNCHANGED out
  /\ UNCHANGED <<notLoop, starter, got, handling, on, taken>>

\* outCh has taken the messages of the round.
StepSent ==
  /\ loop = "send" /\ out[on] = {}
  /\ loop' = "step"
  /\ UNCHANGED <<notLoop, partyVars, handling, on, taken>>

\* wg.Done().
UpdateReturns ==
  /\ loop = "exit"
  /\ loop' = "select"
  /\ on' = NoOp
  /\ UNCHANGED <<notLoop, partyVars, handling, taken>>

\* peerRErr or peerWErr: deletePeer, which leaves signerPeers as it is.
DeletePeer ==
  /\ loop = "select"
  /\ \E p \in peers \cap down : peers' = peers \ {p}
  /\ UNCHANGED <<notCaller, callVars, busy, signerPeers, keyed, stored>>

\* Close sends on quit, which only the select of the event loop receives.
CloseCall ==
  /\ "close" \in Faults /\ closing = "open"
  /\ closing' = "asked"
  /\ UNCHANGED <<notNet, posted, sent, down, expired, resharing, overlapped>>

Quit ==
  /\ loop = "select" /\ closing = "asked"
  /\ loop' = "stopped" /\ closing' = "quit"
  /\ UNCHANGED <<nodeVars, tssVars, callVars, workVars, partyVars, handling, on,
                 taken, posted, sent, down, expired, resharing, overlapped>>

\* Close empties peers, in the goroutine of its caller.
CloseReturns ==
  /\ closing = "quit"
  /\ peers' = {} /\ closing' = "closed"
  /\ UNCHANGED <<tssVars, callVars, workVars, partyVars, loopVars, busy,
                 signerPeers, keyed, stored, posted, sent, down, expired, resharing,
                 overlapped>>

-----------------------------------------------------------------------------
(* The environment.                                                          *)

\* The other nodes have the Start message of the operation, or sent it.
Open(o) == /\ caller[o] # "idle" /\ (caller[o] = "admitted" => o \in Remote)
           /\ result[o] \notin {"busy", "noKey", "noSigners"}

Senders(o) == IF o \in Remote \cap KeyGens THEN Peers ELSE parties[o]

\* A party sends its message of a round when it has ours of the round before.
PeerSends(o) ==
  /\ Open(o)
  /\ \E p \in Senders(o) \ down, r \in Rounds :
       /\ [op |-> o, from |-> p, round |-> r] \notin posted
       /\ r > 1 => /\ <<p, r - 1>> \in sent[o]
                   /\ [op |-> o, from |-> p, round |-> r - 1] \in posted
       /\ posted' = posted \cup {[op |-> o, from |-> p, round |-> r]}
  /\ UNCHANGED <<notNet, sent, down, expired, closing, resharing, overlapped>>

PeerFails ==
  /\ "loss" \in Faults
  /\ \E p \in Peers \ down : down' = down \cup {p}
  /\ UNCHANGED <<notNet, posted, sent, expired, closing, resharing, overlapped>>

Expire(o) ==
  /\ "deadline" \in Faults
  /\ Inside(o) \/ worker[o] = "select"
  /\ o \in TssOps \ expired
  /\ expired' = expired \cup {o}
  /\ UNCHANGED <<notNet, posted, sent, down, closing, resharing, overlapped>>

\* wg.Add and wg.Done in the updates of the parties of an earlier resharing,
\* which ReshareKey leaves in place: any number of them, each as long as it takes.
ReshareUpdates ==
  /\ "reshare" \in Faults
  /\ resharing' = ~resharing
  /\ UNCHANGED <<notNet, posted, sent, down, expired, closing, overlapped>>

-----------------------------------------------------------------------------
CallerStep(o) ==
  Alive /\ \/ EnterKeyGen(o) \/ EnterSign(o) \/ JoinSign(o) \/ EthSendFails(o)
           \/ Route(o) \/ Finish(o) \/ Leave(o)

WorkerStep(o) ==
  Alive /\ \/ WorkerCheck(o) \/ WorkerEnter(o) \/ WorkerDeadline(o)
           \/ WorkerTakesError(o) \/ WorkerTakesOut(o) \/ WorkerTakesEnd(o)
           \/ GiveMessage(o) \/ GiveError(o) \/ GiveDone(o)
           \/ WorkerDrained(o) \/ WorkerReset(o) \/ WorkerClear(o)

PartyStep(o) == Alive /\ (StartParty(o) \/ StartFails(o) \/ StartReturns(o))

\* What the event loop does with the message it has received.
LoopHandles ==
  Alive /\ \/ PartyReady \/ GiveUp \/ CallUpdate \/ Update \/ Step
           \/ StepSent \/ UpdateReturns

\* What the event loop may receive next.
LoopReceives ==
  Alive /\ (TakeUpdate \/ DeletePeer \/ Quit \/ \E o \in Ops : HandleStart(o))

Close == Alive /\ (CloseCall \/ CloseReturns)

Environment ==
  Alive /\ \/ PeerFails \/ ReshareUpdates
           \/ \E o \in Ops : \/ Call(o) \/ CallRefused(o) \/ RemoteStart(o)
                             \/ PeerSends(o) \/ Expire(o)

Next ==
  \/ \E o \in Ops : CallerStep(o) \/ WorkerStep(o) \/ PartyStep(o)
  \/ LoopHandles \/ LoopReceives \/ Close \/ Environment

Spec == Init /\ [][Next]_vars

\* Every goroutine that can run runs, the select of the event loop is fair to
\* each of its channels, other nodes send what they owe and time passes.
Fairness ==
  /\ \A o \in Ops :
       /\ WF_vars(CallerStep(o)) /\ WF_vars(WorkerStep(o)) /\ WF_vars(PartyStep(o))
       /\ WF_vars(Alive /\ HandleStart(o))
       /\ WF_vars(Alive /\ PeerSends(o)) /\ WF_vars(Alive /\ Expire(o))
  /\ WF_vars(LoopHandles)
  /\ WF_vars(Alive /\ TakeUpdate) /\ WF_vars(Alive /\ DeletePeer)
  /\ WF_vars(Alive /\ Quit) /\ WF_vars(Alive /\ CloseReturns)

FairSpec == Spec /\ Fairness

-----------------------------------------------------------------------------
(* Safety.                                                                   *)

\* Only one process is inside the node at a time, and aProcessIsRunning says
\* so exactly, as the comment of the field has it (p2p.go:90).
OneProcess ==
  /\ \A o, p \in Ops : Inside(o) /\ Inside(p) => o = p
  /\ busy = (\E o \in Ops : Inside(o))

\* Between Store(true) and the deferred Store(false) of the signer.
Working(o) == worker[o] \in {"noShare", "badData", "select", "message", "done", "deadline",
                             "library", "convert", "drain", "reset", "clear"}

\* Only one worker uses the signer, and the signer's aProcessIsRunning says so.
SoleWorker ==
  /\ \A o, p \in Ops : Working(o) /\ Working(p) => o = p
  /\ tssBusy = (\E o \in Ops : Working(o))

\* Unless the node has let in two operations at once, only one worker uses the
\* signer at a time, and the signer's aProcessIsRunning says so exactly, also when
\* the caller has gone before the worker.
OneWorker == overlapped \/ SoleWorker

\* A worker whose caller still listens, or that only waits for updates.
Bound(o) ==
  \/ worker[o] \in {"drain", "reset"}
  \/ worker[o] \in {"select", "message", "done"} \cup Errors
       /\ caller[o] \in {"select", "route"}

\* The party that the signer points to is one whose worker is still bound to reset
\* it, unless its operation passed the deadline, where GenerateKey and Sign return
\* early, or met an unknown destination, where the worker blocks for ever.
PartyOwned ==
  \A k \in Kinds : ptr[k] # NoOp =>
    Bound(ptr[k]) \/ result[ptr[k]] \in {"deadline", "unknown"}

\* A worker blocks on a caller that is no longer there only when the caller
\* met a destination it does not know.
AbandonedOnlyByRoute ==
  \A o \in Ops :
    worker[o] \in Errors \cup {"select", "message", "done"}
      /\ caller[o] \in {"leaving", "returned"} => result[o] = "unknown"

\* The event loop is in an update that only a worker can let go on.
LoopBlocked ==
  \/ loop = "send" /\ out[on] # {}
  \/ loop = "end"
  \/ loop = "lock" /\ starter[on] = "running" /\ out[on] # {}

\* A worker that takes what its party sends, or will once its caller has taken
\* the message it offers.
Serving(o) ==
  worker[o] = "select" \/ (worker[o] = "message" /\ caller[o] \in {"select", "route"})

\* The event loop waits on outCh, endCh or the lock of a party that no worker
\* serves only if the operation passed its deadline, met a destination it does not
\* know, or had a message that could not be converted; an error of the library, or
\* the end of the operation, never leaves it there.
LoopServed ==
  LoopBlocked /\ ~Serving(on) =>
    {worker[on], result[on]} \cap {"deadline", "unknown", "convert"} # {}

\* wg.Wait never waits for an update of the worker's own party that waits for
\* the worker to take a message, unless the worker left the loop because it could
\* not convert a message: then each waits for the other for ever.
NoCircularWait ==
  \A o \in Ops : worker[o] = "drain" /\ LoopBlocked /\ on = o => result[o] = "convert"

\* An operation that returns a result has received every message of every
\* party and has sent every party that is still connected every round, unless
\* Close has emptied peers under it or an operation let in with it has replaced
\* the signers that it sends to.
OkMeansComplete ==
  \A o \in Ops : result[o] = "ok" => \A p \in parties[o], r \in Rounds :
    /\ [op |-> o, from |-> p, round |-> r] \in taken
    /\ p \in down \/ closing = "closed" \/ overlapped \/ <<p, r>> \in sent[o]

\* TssMessage does not name the operation it belongs to. Unless the node has let
\* in two operations at once, a party whose caller waits holds a message of another
\* operation only when that one has ended here without success, or another node
\* has initiated it and its Start message is still to come.
NoForeignMessage ==
  \/ overlapped
  \/ \A o \in Ops : worker[o] \in {"select", "message"} /\ result[o] = "none" =>
       \A p \in parties[o], r \in Rounds :
         got[o][<<p, r>>] \in {NoOp, o} \cup {e \in Ops : result[e] \notin {"none", "ok"}}
                                \cup {e \in Remote : caller[e] = "offered"}

\* The update that is waiting for its turn never finds its party gone.
NoNilParty == Alive

(* Action properties.                                                        *)

\* Unless the node has let in two operations at once, the pointer to a running
\* party is neither replaced nor cleared by another operation.
PartyKept ==
  [][overlapped' \/ \A k \in Kinds : ptr[k] # NoOp /\ ptr'[k] # ptr[k] =>
       worker[ptr[k]] = "reset" \/ result[ptr[k]] = "deadline"]_vars

(* Liveness.                                                                 *)

\* Every operation that enters returns, whatever fails, or the process ends.
OperationReturns ==
  \A o \in TssOps : Inside(o) ~> (caller[o] = "returned" \/ ~Alive)

\* The event loop gets back to its select from every message it handles, or the
\* process ends, unless it waits on a party that no worker serves: LoopServed says
\* when. It never waits for ever for a party to be made, for Start to let go of a
\* lock, or for a worker whose caller is to take a message first.
LoopReturns ==
  loop # "select" ~>
    (loop \in {"select", "stopped"} \/ ~Alive \/ (LoopBlocked /\ ~Serving(on)))

\* Close returns.
CloseEnds == (closing = "asked") ~> (closing = "closed" \/ ~Alive)

==============================================================================
