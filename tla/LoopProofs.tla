------------------------------ MODULE LoopProofs ------------------------------
(***************************************************************************)
(* The event loop, the starter and the worker of an operation never wait   *)
(* for each other in a circle: proofs about the rounds of a party.         *)
(***************************************************************************)
EXTENDS OperationProofs

\* The invariant is about workers, parties and the update under way.
LEMMA ComputingFrame ==
  /\ Computing /\ UNCHANGED <<worker, starter, round, out, on, loop>> => Computing'
  /\ Settled /\ UNCHANGED <<worker, result, starter, round, on, loop>> => Settled'
<1>1. Computing /\ UNCHANGED <<worker, starter, round, out, on, loop>> => Computing'
  BY DEF Computing
<1>2. Settled /\ UNCHANGED <<worker, result, starter, round, on, loop>> => Settled'
  BY DEF Settled, Past
<1>q. QED
  BY <1>1, <1>2

\* A step of a caller keeps the invariant of the parties.
LEMMA ComputingCaller ==
  ASSUME TypeInv, Exclusion, Computing, Settled, NEW o \in Ops, CallerStep(o)
  PROVE  Computing' /\ Settled'
<1>1. CASE EnterKeyGen(o)
  <2>1. Computing'
    BY <1>1, Domains
       DEF EnterKeyGen, loopVars, partyVars, Computing, Early, Exclusion, TypeInv,
           WorkInv, WorkType
  <2>2. Settled'
    BY <1>1, Domains
       DEF EnterKeyGen, loopVars, partyVars, Settled, Past, Computing, Late,
           Exclusion, TypeInv, WorkInv, WorkType, CallInv, CallType
  <2>q. QED
    BY <2>1, <2>2
<1>2. CASE EnterSign(o)
  <2>1. Computing'
    BY <1>2, Domains
       DEF EnterSign, loopVars, partyVars, Computing, Early, Exclusion, TypeInv,
           WorkInv, WorkType
  <2>2. Settled'
    BY <1>2, Domains
       DEF EnterSign, loopVars, partyVars, Settled, Past, Computing, Late,
           Exclusion, TypeInv, WorkInv, WorkType, CallInv, CallType
  <2>q. QED
    BY <2>1, <2>2
<1>3. CASE JoinSign(o)
  <2>1. Computing'
    BY <1>3, Domains
       DEF JoinSign, loopVars, partyVars, Computing, Early, Exclusion, TypeInv,
           WorkInv, WorkType
  <2>2. Settled'
    BY <1>3, Domains
       DEF JoinSign, loopVars, partyVars, Settled, Past, Computing, Late, Exclusion,
           TypeInv, WorkInv, WorkType
  <2>q. QED
    BY <2>1, <2>2
<1>4. CASE EthSendFails(o)
  <2>1. Settled'
    BY <1>4, Domains
       DEF EthSendFails, loopVars, notCaller, partyVars, workVars, Settled, Past,
           Computing, Late, Exclusion, TypeInv, CallInv, CallType
  <2>q. QED
    BY <1>4, <2>1, ComputingFrame
       DEF EthSendFails, loopVars, notCaller, partyVars, workVars
<1>5. CASE Route(o)
  <2>1. Settled'
    BY <1>5, Domains
       DEF Route, loopVars, partyVars, workVars, Settled, Past, Computing, Late,
           Exclusion, TypeInv, CallInv, CallType
  <2>q. QED
    BY <1>5, <2>1, ComputingFrame
       DEF Route, loopVars, partyVars, workVars
<1>6. CASE Finish(o)
  <2>1. Settled'
    BY <1>6, Domains
       DEF Finish, loopVars, notCaller, partyVars, workVars, Settled, Past,
           Computing, Late, Exclusion, TypeInv, CallInv, CallType
  <2>q. QED
    BY <1>6, <2>1, ComputingFrame
       DEF Finish, loopVars, notCaller, partyVars, workVars
<1>7. CASE Leave(o)
  BY <1>7, ComputingFrame
     DEF Leave, loopVars, notCaller, partyVars, workVars
<1>q. QED
  BY <1>1, <1>2, <1>3, <1>4, <1>5, <1>6, <1>7 DEF CallerStep

\* A step of a worker keeps the invariant of the parties.
LEMMA ComputingWorker ==
  ASSUME TypeInv, Exclusion, Computing, Settled, NEW o \in Ops, WorkerStep(o)
  PROVE  Computing' /\ Settled'
<1>1. CASE WorkerCheck(o)
  <2>1. Computing'
    BY <1>1, Domains
       DEF WorkerCheck, loopVars, notWorker, partyVars, Computing, Early, Exclusion,
           TypeInv, WorkInv, WorkType
  <2>2. Settled'
    BY <1>1, Domains
       DEF WorkerCheck, callVars, loopVars, notWorker, partyVars, Settled, Past,
           Computing, Late, Exclusion, TypeInv, WorkInv, WorkType
  <2>q. QED
    BY <2>1, <2>2
<1>2. CASE WorkerEnter(o)
  <2>1. Computing'
    BY <1>2, Domains
       DEF WorkerEnter, loopVars, Computing, Early, Exclusion, TypeInv, WorkInv,
           WorkType, PartyType
  <2>2. Settled'
    BY <1>2, Domains
       DEF WorkerEnter, callVars, loopVars, Settled, Past, Computing, Late,
           Exclusion, TypeInv, WorkInv, WorkType, PartyType
  <2>q. QED
    BY <2>1, <2>2
<1>3. CASE WorkerDeadline(o)
  <2>1. Computing'
    BY <1>3, Domains
       DEF WorkerDeadline, loopVars, notWorker, partyVars, Computing, Early,
           Exclusion, TypeInv, WorkInv, WorkType
  <2>2. Settled'
    BY <1>3, Domains
       DEF WorkerDeadline, callVars, loopVars, notWorker, partyVars, Settled, Past,
           Computing, Late, Exclusion, TypeInv, WorkInv, WorkType
  <2>q. QED
    BY <2>1, <2>2
<1>4. CASE WorkerTakesError(o)
  <2>1. Computing'
    BY <1>4, Domains
       DEF WorkerTakesError, loopVars, Computing, Early, Exclusion, TypeInv,
           WorkInv, WorkType, PartyType
  <2>2. Settled'
    BY <1>4, Domains, BoundsAssumption
       DEF WorkerTakesError, callVars, loopVars, Settled, Past, Computing, Late,
           Exclusion, TypeInv, WorkInv, WorkType, PartyType, Rounds
  <2>q. QED
    BY <2>1, <2>2
<1>5. CASE WorkerTakesOut(o)
  <2>1. Computing'
    BY <1>5, Domains
       DEF WorkerTakesOut, loopVars, Computing, Early, Exclusion, TypeInv, WorkInv,
           WorkType, PartyType
  <2>2. Settled'
    BY <1>5, Domains
       DEF WorkerTakesOut, callVars, loopVars, Settled, Past, Computing, Late,
           Exclusion, TypeInv, WorkInv, WorkType
  <2>q. QED
    BY <2>1, <2>2
<1>6. CASE WorkerTakesEnd(o)
  <2>1. Computing'
    BY <1>6, Domains
       DEF WorkerTakesEnd, partyVars, Computing, Early, Exclusion, TypeInv, WorkInv,
           WorkType, LoopInv, LoopType
  <2>2. Settled'
    <3>1. /\ round[o] = LastRound + 1 /\ starter[o] \notin {"none", "ready", "failed"}
          /\ starter[o] # "running"
      BY <1>6, BoundsAssumption DEF WorkerTakesEnd, Computing
    <3>2. starter[o] = "done"
      BY <3>1 DEF TypeInv, PartyType, StarterAt
    <3>3. round[o] \notin Rounds
      BY <3>1, BoundsAssumption DEF Rounds
    <3>4. /\ UNCHANGED <<on, result, starter, round>> /\ loop' = "exit"
          /\ \A p \in Ops : p # o => worker'[p] = worker[p]
      BY <1>6
         DEF WorkerTakesEnd, TypeInv, WorkInv, WorkType, partyVars, callVars
    <3>5. ASSUME NEW p \in Ops, Past(p)', p # o
          PROVE  Past(p)
      BY <3>4, <3>5 DEF Past
    <3>q. QED
      BY <3>2, <3>3, <3>4, <3>5 DEF Settled
  <2>q. QED
    BY <2>1, <2>2
<1>7. CASE GiveMessage(o)
  <2>1. Computing'
    BY <1>7, Domains
       DEF GiveMessage, loopVars, partyVars, Computing, Early, Exclusion, TypeInv,
           WorkInv, WorkType
  <2>2. Settled'
    BY <1>7, Domains
       DEF GiveMessage, loopVars, partyVars, Settled, Past, Computing, Late,
           Exclusion, TypeInv, WorkInv, WorkType
  <2>q. QED
    BY <2>1, <2>2
<1>8. CASE GiveError(o)
  <2>1. Computing'
    <3>1. /\ worker[o] \in Errors /\ caller[o] = "select"
          /\ worker' = [worker EXCEPT ![o] = AfterError[worker[o]]]
          /\ result' = [result EXCEPT ![o] = worker[o]]
          /\ UNCHANGED <<starter, round, out, on, loop>>
      BY <1>8 DEF GiveError, partyVars, loopVars
    <3>2. /\ \A p \in Ops : p # o => worker'[p] = worker[p] /\ result'[p] = result[p]
          /\ worker'[o] = AfterError[worker[o]] /\ result'[o] = worker[o]
      BY <3>1 DEF TypeInv, WorkInv, WorkType, CallInv, CallType
    <3>3. worker'[o] \notin {"none", "check", "enter", "refused", "noShare", "badData"}
      BY <3>1, <3>2 DEF Errors, AfterError
    <3>q. QED
      BY <3>1, <3>2, <3>3 DEF Computing
  <2>2. Settled'
    <3>1. /\ worker[o] \in Errors /\ caller[o] = "select"
          /\ worker' = [worker EXCEPT ![o] = AfterError[worker[o]]]
          /\ result' = [result EXCEPT ![o] = worker[o]]
          /\ UNCHANGED <<starter, round, out, on, loop>>
      BY <1>8 DEF GiveError, partyVars, loopVars
    <3>2. /\ \A p \in Ops : p # o => worker'[p] = worker[p] /\ result'[p] = result[p]
          /\ worker'[o] = AfterError[worker[o]] /\ result'[o] = worker[o]
      BY <3>1 DEF TypeInv, WorkInv, WorkType, CallInv, CallType
    <3>3. CASE worker[o] \in {"deadline", "convert"}
      <4>1. ~Past(o)'
        BY <3>2, <3>3 DEF Past, AfterError
      <4>q. QED
        BY <3>1, <3>2, <4>1 DEF Settled, Past
    <3>4. CASE worker[o] = "library"
      <4>1. Past(o)
        BY <3>4 DEF Past
      <4>q. QED
        BY <3>1, <3>2, <4>1 DEF Settled, Past
    <3>5. CASE worker[o] \in {"refused", "noShare", "badData"}
      <4>1. starter[o] = "none" /\ round[o] \notin Rounds
        BY <3>5 DEF Computing, Rounds
      <4>2. on = o => loop \notin {"send", "end"}
        BY <4>1, <3>5, BoundsAssumption DEF Computing, Rounds
      <4>q. QED
        BY <3>1, <3>2, <4>1, <4>2 DEF Settled, Past
    <3>q. QED
      BY <3>1, <3>3, <3>4, <3>5 DEF Errors
  <2>q. QED
    BY <2>1, <2>2
<1>9. CASE GiveDone(o)
  <2>1. Computing'
    BY <1>9, Domains
       DEF GiveDone, loopVars, partyVars, Computing, Early, Exclusion, TypeInv,
           WorkInv, WorkType
  <2>2. Settled'
    BY <1>9, Domains
       DEF GiveDone, loopVars, partyVars, Settled, Past, Computing, Late, Exclusion,
           TypeInv, WorkInv, WorkType
  <2>q. QED
    BY <2>1, <2>2
<1>10. CASE WorkerDrained(o)
  <2>1. Computing'
    BY <1>10, Domains
       DEF WorkerDrained, loopVars, notWorker, partyVars, Computing, Early,
           Exclusion, TypeInv, WorkInv, WorkType
  <2>2. Settled'
    BY <1>10, Domains
       DEF WorkerDrained, callVars, loopVars, notWorker, partyVars, Settled, Past,
           Computing, Late, Exclusion, TypeInv, WorkInv, WorkType
  <2>q. QED
    BY <2>1, <2>2
<1>11. CASE WorkerReset(o)
  <2>1. Computing'
    BY <1>11, Domains
       DEF WorkerReset, loopVars, notWorker, partyVars, Computing, Early, Exclusion,
           TypeInv, WorkInv, WorkType
  <2>2. Settled'
    BY <1>11, Domains
       DEF WorkerReset, callVars, loopVars, notWorker, partyVars, Settled, Past,
           Computing, Late, Exclusion, TypeInv, WorkInv, WorkType
  <2>q. QED
    BY <2>1, <2>2
<1>12. CASE WorkerClear(o)
  <2>1. Computing'
    BY <1>12, Domains
       DEF WorkerClear, loopVars, notWorker, partyVars, Computing, Early, Exclusion,
           TypeInv, WorkInv, WorkType
  <2>2. Settled'
    BY <1>12, Domains
       DEF WorkerClear, callVars, loopVars, notWorker, partyVars, Settled, Past,
           Computing, Late, Exclusion, TypeInv, WorkInv, WorkType
  <2>q. QED
    BY <2>1, <2>2
<1>q. QED
  BY <1>1, <1>2, <1>3, <1>4, <1>5, <1>6, <1>7, <1>8, <1>9, <1>10, <1>11, <1>12
     DEF WorkerStep

\* A step of a starter keeps the invariant of the parties.
LEMMA ComputingParty ==
  ASSUME TypeInv, Exclusion, Computing, Settled, NEW o \in Ops, PartyStep(o)
  PROVE  Computing' /\ Settled'
<1>1. CASE StartParty(o)
  <2>1. Computing'
    BY <1>1, Domains
       DEF StartParty, loopVars, notParty, workVars, Computing, Early, Exclusion,
           TypeInv, PartyType
  <2>2. Settled'
    BY <1>1, Domains
       DEF StartParty, callVars, loopVars, notParty, workVars, Settled, Past,
           Computing, Late, Exclusion, TypeInv, PartyType
  <2>q. QED
    BY <2>1, <2>2
<1>2. CASE StartFails(o)
  <2>1. Computing'
    BY <1>2, Domains
       DEF StartFails, loopVars, notParty, workVars, Computing, Early, Exclusion,
           TypeInv, PartyType
  <2>2. Settled'
    BY <1>2, Domains
       DEF StartFails, callVars, loopVars, notParty, workVars, Settled, Past,
           Computing, Late, Exclusion, TypeInv, PartyType
  <2>q. QED
    BY <2>1, <2>2
<1>3. CASE StartReturns(o)
  <2>1. Computing'
    BY <1>3, Domains
       DEF StartReturns, loopVars, notParty, workVars, Computing, Early, Exclusion,
           TypeInv, PartyType
  <2>2. Settled'
    BY <1>3, Domains
       DEF StartReturns, callVars, loopVars, notParty, workVars, Settled, Past,
           Computing, Late, Exclusion, TypeInv, PartyType
  <2>q. QED
    BY <2>1, <2>2
<1>q. QED
  BY <1>1, <1>2, <1>3 DEF PartyStep

\* What the event loop does with a message keeps the invariant of the parties.
LEMMA ComputingLoop ==
  ASSUME TypeInv, Exclusion, Computing, Settled, LoopHandles
  PROVE  Computing' /\ Settled'
<1>1. CASE PartyReady
  <2>1. Computing'
    BY <1>1, Domains
       DEF PartyReady, notLoop, partyVars, workVars, Computing, Early, Exclusion,
           TypeInv, LoopInv, LoopType
  <2>2. Settled'
    BY <1>1, Domains
       DEF PartyReady, callVars, notLoop, partyVars, workVars, Settled, Past,
           Computing, Late, Exclusion, TypeInv, LoopInv, LoopType
  <2>q. QED
    BY <2>1, <2>2
<1>2. CASE GiveUp
  <2>1. Computing'
    BY <1>2, Domains
       DEF GiveUp, notLoop, partyVars, workVars, Computing, Early, Exclusion,
           TypeInv, LoopInv, LoopType
  <2>2. Settled'
    BY <1>2, Domains
       DEF GiveUp, callVars, notLoop, partyVars, workVars, Settled, Past, Computing,
           Late, Exclusion, TypeInv, LoopInv, LoopType
  <2>q. QED
    BY <2>1, <2>2
<1>3. CASE CallUpdate
  <2>1. Computing'
    BY <1>3, Domains
       DEF CallUpdate, notLoop, partyVars, workVars, Computing, Early, Exclusion,
           TypeInv, LoopInv, LoopType
  <2>2. Settled'
    BY <1>3, Domains
       DEF CallUpdate, callVars, notLoop, partyVars, workVars, Settled, Past,
           Computing, Late, Exclusion, TypeInv, LoopInv, LoopType
  <2>q. QED
    BY <2>1, <2>2
<1>4. CASE Update
  <2>1. Computing'
    BY <1>4, Domains
       DEF Update, notLoop, workVars, Computing, Early, Exclusion, TypeInv, LoopInv,
           LoopType
  <2>2. Settled'
    BY <1>4, Domains
       DEF Update, callVars, notLoop, workVars, Settled, Past, Computing, Late,
           Exclusion, TypeInv, LoopInv, LoopType
  <2>q. QED
    BY <2>1, <2>2
<1>5. CASE Step
  <2>1. Computing'
    <3>1. /\ on \in Ops /\ loop = "step" /\ starter[on] # "running"
          /\ out[on] = {}
          /\ UNCHANGED <<worker, starter, on>>
      BY <1>5, Domains
         DEF Step, Computing, TypeInv, LoopInv, notLoop, workVars
    <3>2. CASE loop' = "exit" /\ UNCHANGED <<round, out>>
      BY <3>1, <3>2 DEF Computing
    <3>3. CASE /\ round[on] \in Rounds /\ round[on] < LastRound
               /\ round' = [round EXCEPT ![on] = @ + 1] /\ loop' = "send"
               /\ \E ms \in RoundOuts(on, round[on] + 1) : out' = [out EXCEPT ![on] = ms]
      <4>1. /\ \A p \in Ops : p # on => round'[p] = round[p] /\ out'[p] = out[p]
            /\ round'[on] = round[on] + 1
        BY <3>1, <3>3 DEF TypeInv, PartyType
      <4>2. round'[on] \in Rounds /\ round[on] # 0
        BY <3>3, <4>1, BoundsAssumption DEF Rounds
      <4>q. QED
        BY <3>1, <3>3, <4>1, <4>2 DEF Computing
    <3>4. CASE /\ round[on] \in Rounds /\ round[on] = LastRound
               /\ round' = [round EXCEPT ![on] = @ + 1] /\ loop' = "end"
               /\ UNCHANGED out
      <4>1. /\ \A p \in Ops : p # on => round'[p] = round[p]
            /\ round'[on] = LastRound + 1
        BY <3>1, <3>4 DEF TypeInv, PartyType
      <4>2. round[on] # 0
        BY <3>4, BoundsAssumption DEF Rounds
      <4>q. QED
        BY <3>1, <3>4, <4>1, <4>2 DEF Computing
    <3>q. QED
      BY <1>5, <3>2, <3>3, <3>4 DEF Step, CanProceed
  <2>2. Settled'
    <3>1. /\ on \in Ops
          /\ UNCHANGED <<worker, result, starter, on>>
      BY <1>5, Domains
         DEF Step, TypeInv, LoopInv, notLoop, workVars, callVars
    <3>2. CASE loop' = "exit" /\ UNCHANGED round
      BY <3>1, <3>2 DEF Settled, Past
    <3>3. CASE round[on] \in Rounds /\ round' = [round EXCEPT ![on] = @ + 1]
      <4>1. ~Past(on)
        BY <3>1, <3>3 DEF Settled
      <4>2. \A p \in Ops : p # on => round'[p] = round[p]
        BY <3>3 DEF TypeInv, PartyType
      <4>q. QED
        BY <3>1, <4>1, <4>2 DEF Settled, Past
    <3>q. QED
      BY <1>5, <3>2, <3>3 DEF Step, CanProceed
  <2>q. QED
    BY <2>1, <2>2
<1>6. CASE StepSent
  <2>1. Computing'
    BY <1>6, Domains
       DEF StepSent, notLoop, partyVars, workVars, Computing, Early, Exclusion,
           TypeInv, LoopInv, LoopType
  <2>2. Settled'
    BY <1>6, Domains
       DEF StepSent, callVars, notLoop, partyVars, workVars, Settled, Past,
           Computing, Late, Exclusion, TypeInv, LoopInv, LoopType
  <2>q. QED
    BY <2>1, <2>2
<1>7. CASE UpdateReturns
  <2>1. Computing'
    BY <1>7, Domains
       DEF UpdateReturns, notLoop, partyVars, workVars, Computing, Early, Exclusion,
           TypeInv, LoopInv, LoopType
  <2>2. Settled'
    BY <1>7, Domains
       DEF UpdateReturns, callVars, notLoop, partyVars, workVars, Settled, Past,
           Computing, Late, Exclusion, TypeInv, LoopInv, LoopType
  <2>q. QED
    BY <2>1, <2>2
<1>q. QED
  BY <1>1, <1>2, <1>3, <1>4, <1>5, <1>6, <1>7 DEF LoopHandles

\* What the event loop receives keeps the invariant of the parties.
LEMMA ComputingReceive ==
  ASSUME TypeInv, Exclusion, Computing, Settled, LoopReceives
  PROVE  Computing' /\ Settled'
<1>1. CASE TakeUpdate
  <2>1. Computing'
    BY <1>1, Domains
       DEF TakeUpdate, notLoop, partyVars, workVars, Computing, Early, Exclusion,
           TypeInv, LoopInv, LoopType
  <2>2. Settled'
    BY <1>1, Domains
       DEF TakeUpdate, callVars, notLoop, partyVars, workVars, Settled, Past,
           Computing, Late, Exclusion, TypeInv, LoopInv, LoopType
  <2>q. QED
    BY <2>1, <2>2
<1>2. CASE DeletePeer
  BY <1>2, ComputingFrame
     DEF DeletePeer, callVars, loopVars, notCaller, partyVars, workVars
<1>3. CASE Quit
  <2>1. Computing'
    BY <1>3, Domains
       DEF Quit, partyVars, workVars, Computing, Early, Exclusion, TypeInv, LoopInv,
           LoopType
  <2>2. Settled'
    BY <1>3, Domains
       DEF Quit, callVars, partyVars, workVars, Settled, Past, Computing, Late,
           Exclusion, TypeInv, LoopInv, LoopType
  <2>q. QED
    BY <2>1, <2>2
<1>4. ASSUME NEW o \in Ops, HandleStart(o)
      PROVE  Computing' /\ Settled'
  <2>1. Settled'
    BY <1>4, Domains
       DEF HandleStart, Admit, notAdmit, loopVars, notCaller, partyVars, workVars,
           Settled, Past, Computing, Late, Exclusion, TypeInv, CallInv, CallType
  <2>q. QED
    BY <1>4, <2>1, ComputingFrame
       DEF HandleStart, Admit, notAdmit, loopVars, notCaller, partyVars, workVars
<1>q. QED
  BY <1>1, <1>2, <1>3, <1>4 DEF LoopReceives

\* Close and the environment keep the invariant of the parties.
LEMMA ComputingOthers ==
  ASSUME TypeInv, Exclusion, Computing, Settled, Close \/ Environment
  PROVE  Computing' /\ Settled'
<1>1. CASE CloseCall
  BY <1>1, ComputingFrame
     DEF CloseCall, callVars, loopVars, notNet, partyVars, workVars
<1>2. CASE CloseReturns
  BY <1>2, ComputingFrame
     DEF CloseReturns, callVars, loopVars, partyVars, workVars
<1>3. CASE PeerFails
  BY <1>3, ComputingFrame
     DEF PeerFails, callVars, loopVars, notNet, partyVars, workVars
<1>4. ASSUME NEW o \in Ops, Call(o)
      PROVE  Computing' /\ Settled'
  BY <1>4, ComputingFrame
     DEF Call, Admit, notAdmit, loopVars, notCaller, partyVars, workVars
<1>5. ASSUME NEW o \in Ops, CallRefused(o)
      PROVE  Computing' /\ Settled'
  <2>1. Settled'
    BY <1>5, Domains
       DEF CallRefused, loopVars, notCaller, partyVars, workVars, Settled, Past,
           Computing, Late, Exclusion, TypeInv, CallInv, CallType
  <2>q. QED
    BY <1>5, <2>1, ComputingFrame
       DEF CallRefused, loopVars, notCaller, partyVars, workVars
<1>6. ASSUME NEW o \in Ops, RemoteStart(o)
      PROVE  Computing' /\ Settled'
  BY <1>6, ComputingFrame
     DEF RemoteStart, loopVars, notCaller, partyVars, workVars
<1>7. ASSUME NEW o \in Ops, PeerSends(o)
      PROVE  Computing' /\ Settled'
  BY <1>7, ComputingFrame
     DEF PeerSends, callVars, loopVars, notNet, partyVars, workVars
<1>8. ASSUME NEW o \in Ops, Expire(o)
      PROVE  Computing' /\ Settled'
  BY <1>8, ComputingFrame
     DEF Expire, callVars, loopVars, notNet, partyVars, workVars
<1>9. CASE ReshareUpdates
  BY <1>9, ComputingFrame
     DEF ReshareUpdates, callVars, loopVars, notNet, partyVars, workVars
<1>q. QED
  BY <1>1, <1>2, <1>3, <1>4, <1>5, <1>6, <1>7, <1>8, <1>9 DEF Close, Environment

\* At the start no party has begun.
LEMMA ComputingInit == Init => Computing /\ Settled
<1> SUFFICES ASSUME Init PROVE Computing /\ Settled
  OBVIOUS
<1>1. Computing
  BY Domains DEF Init, Computing
<1>2. Settled
  BY DEF Init, Settled, Past
<1>q. QED
  BY <1>1, <1>2

\* The invariant of the parties holds, for all constants.
THEOREM ComputingCorrect ==
  Spec => [](TypeInv /\ Exclusion /\ Computing /\ Settled)
<1>1. ASSUME TypeInv, Exclusion, Computing, Settled, [Next]_vars
      PROVE  Computing' /\ Settled'
  <2>1. ASSUME NEW o \in Ops, CallerStep(o) PROVE Computing' /\ Settled'
    BY <1>1, <2>1, ComputingCaller
  <2>2. ASSUME NEW o \in Ops, WorkerStep(o) PROVE Computing' /\ Settled'
    BY <1>1, <2>2, ComputingWorker
  <2>3. ASSUME NEW o \in Ops, PartyStep(o) PROVE Computing' /\ Settled'
    BY <1>1, <2>3, ComputingParty
  <2>4. CASE LoopHandles
    BY <1>1, <2>4, ComputingLoop
  <2>5. CASE LoopReceives
    BY <1>1, <2>5, ComputingReceive
  <2>6. CASE Close \/ Environment
    BY <1>1, <2>6, ComputingOthers
  <2>7. CASE UNCHANGED vars
    BY <1>1, <2>7, ComputingFrame DEF vars, callVars, workVars, partyVars, loopVars
  <2>q. QED
    BY <1>1, <2>1, <2>2, <2>3, <2>4, <2>5, <2>6, <2>7 DEF Next
<1>2. TypeInv /\ Exclusion /\ Computing /\ Settled /\ [Next]_vars
        => (TypeInv /\ Exclusion /\ Computing /\ Settled)'
  BY <1>1, TypeNext, ExclusionNext
<1>3. Init => TypeInv /\ Exclusion /\ Computing /\ Settled
  BY TypeInit, ExclusionInit, ComputingInit
<1>q. QED
  BY <1>2, <1>3, PTL DEF Spec

\* A worker that waits for updates waits for one of its own party that waits for it
\* only when it left its loop for a message or a result it could not convert.
THEOREM NoCircularWaitCorrect ==
  Spec => []NoCircularWait
<1>1. TypeInv /\ Computing /\ Settled => NoCircularWait
  <2> SUFFICES ASSUME TypeInv, Computing, Settled, NEW o \in Ops,
                      worker[o] = "drain", LoopBlocked, on = o, result[o] # "convert"
               PROVE  FALSE
    BY DEF NoCircularWait
  <2>q. QED
    BY DEF Settled, Past, LoopBlocked
<1>q. QED
  BY <1>1, ComputingCorrect, PTL

\* The event loop waits for a worker that does not serve its party only when the
\* operation passed its deadline, met a destination it does not know or data it
\* could not convert.
THEOREM LoopServedCorrect ==
  Spec => []LoopServed
<1>1. TypeInv /\ Exclusion /\ Computing /\ Settled => LoopServed
  <2> SUFFICES ASSUME TypeInv, Exclusion, Computing, Settled, LoopBlocked,
                      ~Serving(on)
               PROVE  {worker[on], result[on]} \cap {"deadline", "unknown", "convert"} # {}
    BY DEF LoopServed
  <2>1. on \in TssOps /\ on \in Ops
    BY Domains DEF LoopBlocked, TypeInv, LoopInv
  <2>2. starter[on] = "running" \/ loop \in {"send", "end"}
    BY DEF LoopBlocked
  <2>3. ~Past(on)
    BY <2>1, <2>2 DEF Settled
  <2>4. starter[on] # "none"
    BY <2>1, <2>2, BoundsAssumption DEF Computing, Rounds
  <2>5. worker[on] \in WorkerAt
    BY <2>1 DEF TypeInv, WorkInv, WorkType
  <2>6. CASE worker[on] = "message"
    BY <2>1, <2>6 DEF Exclusion, Present, Serving
  <2>7. CASE worker[on] \in {"drain", "reset", "clear", "gone"}
    BY <2>3, <2>7 DEF Past
  <2>8. CASE worker[on] \in {"deadline", "convert"}
    BY <2>8
  <2>q. QED
    BY <2>1, <2>3, <2>4, <2>5, <2>6, <2>7, <2>8
       DEF Past, Computing, WorkerAt, Errors, Serving
<1>q. QED
  BY <1>1, ComputingCorrect, PTL

===============================================================================
