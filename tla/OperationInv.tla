---------------------------- MODULE OperationInv ----------------------------
(***************************************************************************)
(* The inductive invariants of the proofs about Operation: what its        *)
(* program counters say about its data, exclusion and the ownership of the *)
(* parties, what a caller sees, who waits for whom, and what a party has   *)
(* received and sent.                                                      *)
(***************************************************************************)
EXTENDS Operation

\* A caller that routes a message has one.
CallInv ==
  CallType /\ \A o \in Ops : caller[o] = "route" => routing[o] \in Outs

\* A worker that offers a message has one, and only some operations have one.
WorkInv ==
  /\ WorkType
  /\ \A o \in Ops : worker[o] = "message" => offering[o] \in Outs
  /\ \A o \in Ops : worker[o] # "none" => o \in TssOps

\* The event loop has the message it handles and the party it updates.
LoopInv ==
  /\ LoopType
  /\ loop \in {"wait", "call", "lock"} => handling \in Messages
  /\ loop \in {"lock", "step", "send", "end"} => on \in TssOps

TypeInv == /\ NodeType /\ TssType /\ CallInv /\ WorkInv
           /\ PartyType /\ LoopInv /\ NetType

\* Until two operations have been let in at once, only one goroutine is between the
\* load and the store of aProcessIsRunning, and the flag is clear while it is.
Gate ==
  \/ overlapped
  \/ \A o \in Ops : caller[o] = "admitted" =>
       ~busy /\ \A p \in Ops : caller[p] = "admitted" => p = o

\* Until then aProcessIsRunning does what its comment says.
SoleProcess == overlapped \/ OneProcess

\* Before an operation enters it has neither worker nor result, and until its
\* worker has made a party its caller is in the select loop.
Early ==
  \A o \in Ops :
    /\ caller[o] \in {"idle", "offered", "admitted"} =>
         worker[o] = "none" /\ result[o] = "none"
    /\ worker[o] \in {"check", "enter", "refused", "noShare", "badData"} =>
         caller[o] = "select"

\* Until two operations have been let in at once, a worker that enters the signer
\* finds it clear.
Unused == overlapped \/ \A o \in Ops : worker[o] = "enter" => ~tssBusy

\* A worker that wants its caller has it, or the caller met an unknown
\* destination.
Present ==
  \A o \in Ops :
    worker[o] \in Errors \cup {"select", "message", "done"} =>
      \/ caller[o] \in {"select", "route"}
      \/ caller[o] \in {"leaving", "returned"} /\ result[o] = "unknown"

\* An operation that passed its deadline, or met data it could not convert, is over
\* for its caller.
Late ==
  \A o \in Ops :
    result[o] \in {"deadline", "convert"} => caller[o] \in {"leaving", "returned"}

\* The owner of a party is the operation of its kind whose worker made it.
Owned ==
  \A k \in Kinds : ptr[k] # NoOp =>
    /\ Kind(ptr[k]) = k
    /\ \/ worker[ptr[k]] \in {"select", "message", "done", "deadline",
                              "library", "convert", "drain", "reset"}
       \/ result[ptr[k]] = "deadline"

Exclusion == /\ Gate /\ SoleProcess /\ OneWorker /\ Unused
             /\ Early /\ Present /\ Late /\ Owned

\* An operation has a result exactly when its caller is leaving.
Answered ==
  \A o \in Ops :
    /\ caller[o] \in {"select", "route", "finish", "ethWait"} => result[o] = "none"
    /\ caller[o] \in {"leaving", "returned"} => result[o] # "none"

\* While a caller finishes, no worker is left that could make another key, unless
\* two operations have been let in at once.
Sole ==
  overlapped \/ \A o, p \in Ops : caller[o] = "finish" =>
    worker[p] \notin {"select", "message", "done"}

\* Nor does it then find another key than it has made; a signature is computed
\* with a key.
KeyMade ==
  overlapped \/ \A o \in TssOps :
    /\ worker[o] = "done" \/ caller[o] = "finish" =>
         IF o \in KeyGens THEN key = o ELSE key # NoOp
    /\ o \in Signs /\ worker[o] \in {"select", "message"} => key # NoOp

\* Only an operation with a worker has a result from one.
Finishing == \A o \in Ops : caller[o] = "finish" => o \in TssOps

Service == Answered /\ Sole /\ KeyMade /\ Finishing

\* The rounds of a party begin in Start and go on in Update; a message that
\* outCh has not taken belongs to the one of them that holds the lock.
Computing ==
  \A o \in Ops :
    /\ worker[o] \in {"none", "check", "enter", "refused", "noShare", "badData"} =>
         starter[o] = "none"
    /\ starter[o] \in {"none", "ready", "failed"} => round[o] = 0
    /\ starter[o] = "running" =>
         round[o] = 1 /\ ~(on = o /\ loop \in {"step", "send", "end"})
    /\ out[o] # {} =>
         starter[o] = "running" \/ (on = o /\ loop = "send")
    /\ on = o /\ loop = "send" => round[o] \in Rounds
    /\ on = o /\ loop = "end" => round[o] = LastRound + 1

\* The worker of an operation has left its select loop, and neither by the deadline
\* nor for data that it could not convert.
Past(o) == \/ worker[o] \in {"done", "library"}
           \/ worker[o] \in {"drain", "reset"} /\ result[o] # "convert"
           \/ /\ worker[o] \in {"clear", "gone"}
              /\ result[o] \notin {"deadline", "convert"}

\* Then its party computes no more, and nothing of it waits for the worker.
Settled ==
  \A o \in Ops : Past(o) =>
    /\ starter[o] \in {"none", "done"} /\ round[o] \notin Rounds
    /\ on = o => loop \notin {"send", "end"}

\* The messages a party holds, and the one the event loop handles, have been received.
GotTaken ==
  /\ loop \in {"wait", "call", "lock"} => handling \in taken
  /\ \A o \in Ops, p \in Peers, r \in Rounds : got[o][<<p, r>>] # NoOp =>
       [op |-> got[o][<<p, r>>], from |-> p, round |-> r] \in taken

\* A party has left a round with a message of every other party.
RoundsHeard ==
  \A o \in Ops, p \in Peers, r \in Rounds :
    p \in parties[o] /\ r < round[o] => got[o][<<p, r>>] # NoOp

\* Every message of every party has been received.
Heard(o) == \A p \in parties[o], r \in Rounds : [op |-> o, from |-> p, round |-> r] \in taken

\* A party that ends has found its own messages; later ones do not take them back.
EndHeard ==
  /\ loop = "end" => Heard(on)
  /\ \A o \in Ops : worker[o] = "done" \/ caller[o] = "finish" \/ result[o] = "ok" => Heard(o)

Hearing == GotTaken /\ RoundsHeard /\ EndHeard

\* Only an operation that other nodes know of has messages, and they come from its
\* parties; to those of a key generation that another node initiates, peers may
\* belong that this node has lost before it enters.
PostedOpen ==
  /\ \A o \in Ops : caller[o] = "offered" => o \in Remote
  /\ taken \subseteq posted
  /\ \A m \in posted : /\ caller[m.op] = "admitted" => m.op \in Remote
                       /\ caller[m.op] # "idle"
                       /\ m.op \notin KeyGens \cap Remote => m.from \in parties[m.op]

\* A message is stored once, and the one that is handled has not been stored.
StoredOnce ==
  /\ \A o, q \in Ops, p \in Peers, r \in Rounds :
       got[o][<<p, r>>] = got[q][<<p, r>>] /\ got[o][<<p, r>>] # NoOp => o = q
  /\ loop \in {"wait", "call", "lock"} =>
       \A o \in Ops : got[o][<<handling.from, handling.round>>] # handling.op

\* A party that ends holds the messages of its own operation; no other party ever
\* gets one of them.
Spent(o) ==
  \A p \in parties[o], r \in Rounds :
    /\ \A q \in Ops : q # o => got[q][<<p, r>>] # o
    /\ loop \in {"wait", "call", "lock"} => handling # [op |-> o, from |-> p, round |-> r]
OwnEnd ==
  /\ loop = "end" => \A p \in parties[on], r \in Rounds : got[on][<<p, r>>] = on
  /\ \A o \in Ops : worker[o] = "done" \/ caller[o] = "finish" \/ result[o] = "ok" => Spent(o)

\* Messages go to a party that exists, and of their kind.
KindKept ==
  /\ \A k \in Kinds : ptr[k] # NoOp => starter[ptr[k]] # "none"
  /\ loop = "lock" => starter[on] # "none" /\ Kind(on) = Kind(handling.op)
  /\ \A o \in Ops, p \in Peers, r \in Rounds :
       got[o][<<p, r>>] # NoOp => starter[o] # "none" /\ Kind(got[o][<<p, r>>]) = Kind(o)

\* The parties of a key generation are among those of the ones that ended before it,
\* unless two operations have been let in at once.
PartiesShrink ==
  /\ \A o \in KeyGens : caller[o] \in {"idle", "offered", "admitted"} => parties[o] = {}
  /\ \A o \in Ops : caller[o] = "finish" \/ result[o] = "ok" => worker[o] # "none"
  /\ \A e \in KeyGens : worker[e] # "none" => peers \subseteq parties[e]
  /\ overlapped \/ \A e, o \in KeyGens :
       result[e] = "ok" /\ result[o] = "none" => parties[o] \subseteq parties[e]

Foreign == PostedOpen /\ StoredOnce /\ OwnEnd /\ KindKept /\ PartiesShrink
             /\ NoForeignMessage

\* A peer that is gone has lost its connection, or Close has emptied peers.
Lost(p) == p \in down \/ closing = "closed"

\* Who is a party of a running operation is one of its targets, unless it is gone
\* or another operation has been let in with it.
TargetsKept ==
  /\ \A p \in Peers \ peers : Lost(p)
  /\ overlapped \/ \A o \in Ops \ KeyGens : caller[o] \in {"select", "route"} =>
       \A p \in parties[o] \ signerPeers : Lost(p)

\* A message to p, or to all, that outCh, the worker or the caller of o has.
Due(o, p, r) == {<<All, r>>, <<p, r>>} \cap (out[o] \cup {offering[o], routing[o]}) # {}

\* A worker and a caller have a message only where they pass it on.
Emptied ==
  \A o \in Ops : /\ worker[o] # "message" => offering[o] = NoOut
                 /\ caller[o] # "route" => routing[o] = NoOut

\* Each round that a party has begun has been sent to p, or is on its way, as long
\* as the worker could convert it.
SentOrDue ==
  \A o \in Ops, p \in Peers, r \in Rounds :
    /\ caller[o] \in {"select", "route"} /\ worker[o] # "convert"
    /\ p \in parties[o] /\ r <= round[o]
    => overlapped \/ Lost(p) \/ <<p, r>> \in sent[o] \/ Due(o, p, r)

\* An operation that has ended has begun and sent every round.
AllSent ==
  \A o \in Ops :
    /\ worker[o] = "done" => round[o] = LastRound + 1
    /\ caller[o] = "finish" \/ result[o] = "ok" =>
         \A p \in parties[o], r \in Rounds : overlapped \/ Lost(p) \/ <<p, r>> \in sent[o]

Sending == TargetsKept /\ Emptied /\ SentOrDue /\ AllSent

-----------------------------------------------------------------------------
\* What a caller sees of an operation.
Phase(o) == IF Inside(o) THEN "inside"
            ELSE IF caller[o] = "returned" THEN "returned" ELSE "idle"

API == INSTANCE NodeService WITH
         NoKey <- NoOp, phase <- [o \in Ops |-> Phase(o)], outcome <- result,
         saved <- stored, StorageFails <- "store" \in Faults

\* The pipeline of callers, workers, parties and the event loop implements what
\* the API promises: one operation at a time, one conclusion per operation, and
\* "ok" only with the key that was made and held, and saved if the storage works.
\* This ends with the step that lets in two operations at once.
ImplementsService == API!Init /\ [][overlapped' \/ API!Next]_(API!svars)

==============================================================================
