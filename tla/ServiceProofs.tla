----------------------------- MODULE ServiceProofs -----------------------------
(***************************************************************************)
(* Operation implements NodeService until the node lets in two operations  *)
(* at once: each step of a caller, a worker or the event loop is a step of *)
(* the API or changes nothing a caller can see.                            *)
(***************************************************************************)
EXTENDS OperationProofs

\* What the invariant and the API are about.
seen == <<caller, result, worker, key, stored, overlapped>>

\* Nothing else matters to them.
LEMMA Unseen ==
  /\ Service /\ UNCHANGED seen => Service'
  /\ UNCHANGED <<caller, result, key, stored>> => UNCHANGED API!svars
  /\ (\A p \in Ops : Phase(p)' = Phase(p)) /\ UNCHANGED <<result, key, stored>>
       => UNCHANGED API!svars
<1>1. Service /\ UNCHANGED seen => Service'
  BY DEF Service, Answered, Sole, KeyMade, Finishing, seen
<1>2. UNCHANGED <<caller, result, key, stored>> => UNCHANGED API!svars
  BY DEF API!svars, Phase, Inside
<1>3. ASSUME \A p \in Ops : Phase(p)' = Phase(p), UNCHANGED <<result, key, stored>>
      PROVE  UNCHANGED API!svars
  BY <1>3 DEF API!svars
<1>q. QED
  BY <1>1, <1>2, <1>3

\* A Start message or a call.
Arrives(o) == HandleStart(o) \/ Call(o) \/ CallRefused(o) \/ RemoteStart(o)

\* Only callers, workers and new operations change it.
LEMMA SeenChanges ==
  ASSUME [Next]_vars
  PROVE  \/ UNCHANGED seen
         \/ \E o \in Ops : CallerStep(o) \/ WorkerStep(o) \/ Arrives(o)
<1>1. ASSUME NEW o \in Ops, PartyStep(o) PROVE UNCHANGED seen
  BY <1>1 DEF PartyStep, StartParty, StartFails, StartReturns, notParty,
              nodeVars, tssVars, callVars, workVars, netVars, seen
<1>2. CASE LoopHandles
  BY <1>2 DEF LoopHandles, PartyReady, GiveUp, CallUpdate, Update, Step, StepSent,
              UpdateReturns, notLoop, nodeVars, tssVars, callVars, workVars, netVars, seen
<1>3. CASE LoopReceives
  BY <1>3 DEF LoopReceives, TakeUpdate, DeletePeer, Quit, Arrives, notLoop,
              notCaller, nodeVars, tssVars, callVars, workVars, netVars, seen
<1>4. CASE Close
  BY <1>4 DEF Close, CloseCall, CloseReturns, notNet, nodeVars, tssVars, callVars,
              workVars, netVars, seen
<1>5. CASE Environment
  BY <1>5
     DEF Environment, PeerFails, ReshareUpdates, PeerSends, Expire, Arrives, notNet,
         nodeVars, tssVars, callVars, workVars, netVars, seen
<1>6. CASE UNCHANGED vars
  BY <1>6 DEF vars, nodeVars, tssVars, callVars, workVars, netVars, seen
<1>q. QED
  BY <1>1, <1>2, <1>3, <1>4, <1>5, <1>6 DEF Next

\* A step of a caller keeps the invariant.
LEMMA ServiceCaller ==
  ASSUME TypeInv, Exclusion, Service, NEW o \in Ops,
         CallerStep(o)
  PROVE  Service'
<1>1. CASE EnterKeyGen(o)
  <2>1. Answered'
    BY <1>1, Domains
       DEF EnterKeyGen, tssVars, Exclusion, Service, Answered, Early, TypeInv,
           CallInv, CallType, WorkInv, WorkType
  <2>2. Sole'
    BY <1>1, Domains
       DEF EnterKeyGen, tssVars, Exclusion, Service, Sole, Early, SoleProcess,
           OneProcess, Inside, OneWorker, SoleWorker, Working, Present, TypeInv,
           CallInv, CallType, WorkInv, WorkType, netVars
  <2>3. KeyMade'
    BY <1>1, Domains
       DEF EnterKeyGen, tssVars, Exclusion, Service, KeyMade, Sole, OneWorker,
           SoleWorker, Working, Early, TypeInv, CallInv, CallType, WorkInv,
           WorkType, netVars
  <2>4. Finishing'
    BY <1>1, Domains
       DEF EnterKeyGen, tssVars, Exclusion, Service, Finishing, TypeInv, CallInv,
           CallType, WorkInv, WorkType
  <2>q. QED
    BY <2>1, <2>2, <2>3, <2>4 DEF Service
<1>2. CASE EnterSign(o)
  <2>1. Answered'
    BY <1>2, Domains
       DEF EnterSign, tssVars, Exclusion, Service, Answered, Early, TypeInv,
           CallInv, CallType, WorkInv, WorkType
  <2>2. Sole'
    BY <1>2, Domains
       DEF EnterSign, tssVars, Exclusion, Service, Sole, Early, SoleProcess,
           OneProcess, Inside, OneWorker, SoleWorker, Working, Present, TypeInv,
           CallInv, CallType, WorkInv, WorkType, netVars
  <2>3. KeyMade'
    BY <1>2, Domains
       DEF EnterSign, tssVars, Exclusion, Service, KeyMade, Sole, OneWorker,
           SoleWorker, Working, Early, TypeInv, CallInv, CallType, WorkInv,
           WorkType, netVars
  <2>4. Finishing'
    BY <1>2, Domains
       DEF EnterSign, tssVars, Exclusion, Service, Finishing, TypeInv, CallInv,
           CallType, WorkInv, WorkType
  <2>q. QED
    BY <2>1, <2>2, <2>3, <2>4 DEF Service
<1>3. CASE JoinSign(o)
  <2>1. Answered'
    BY <1>3, Domains
       DEF JoinSign, tssVars, Exclusion, Service, Answered, Early, TypeInv, CallInv,
           CallType, WorkInv, WorkType
  <2>2. Sole'
    BY <1>3, Domains
       DEF JoinSign, tssVars, Exclusion, Service, Sole, Early, SoleProcess,
           OneProcess, Inside, OneWorker, SoleWorker, Working, Present, TypeInv,
           CallInv, CallType, WorkInv, WorkType, netVars
  <2>3. KeyMade'
    BY <1>3, Domains
       DEF JoinSign, tssVars, Exclusion, Service, KeyMade, Sole, OneWorker,
           SoleWorker, Working, Early, TypeInv, CallInv, CallType, WorkInv,
           WorkType, netVars
  <2>4. Finishing'
    BY <1>3, Domains
       DEF JoinSign, tssVars, Exclusion, Service, Finishing, TypeInv, CallInv,
           CallType, WorkInv, WorkType
  <2>q. QED
    BY <2>1, <2>2, <2>3, <2>4 DEF Service
<1>4. CASE EthSendFails(o)
  <2>1. Answered'
    BY <1>4, Domains
       DEF EthSendFails, nodeVars, notCaller, tssVars, workVars, Exclusion, Service,
           Answered, Early, TypeInv, CallInv, CallType, WorkInv, WorkType
  <2>2. Sole'
    BY <1>4, Domains
       DEF EthSendFails, nodeVars, notCaller, tssVars, workVars, Exclusion, Service,
           Sole, Early, SoleProcess, OneProcess, Inside, OneWorker, SoleWorker,
           Working, Present, TypeInv, CallInv, CallType, WorkInv, WorkType, netVars
  <2>3. KeyMade'
    BY <1>4, Domains
       DEF EthSendFails, nodeVars, notCaller, tssVars, workVars, Exclusion, Service,
           KeyMade, Sole, OneWorker, SoleWorker, Working, Early, TypeInv, CallInv,
           CallType, WorkInv, WorkType, netVars
  <2>4. Finishing'
    BY <1>4, Domains
       DEF EthSendFails, nodeVars, notCaller, tssVars, workVars, Exclusion, Service,
           Finishing, TypeInv, CallInv, CallType, WorkInv, WorkType
  <2>q. QED
    BY <2>1, <2>2, <2>3, <2>4 DEF Service
<1>5. CASE Route(o)
  <2>1. Answered'
    BY <1>5, Domains
       DEF Route, nodeVars, tssVars, workVars, Exclusion, Service, Answered, Early,
           TypeInv, CallInv, CallType, WorkInv, WorkType
  <2>2. Sole'
    BY <1>5, Domains
       DEF Route, nodeVars, tssVars, workVars, Exclusion, Service, Sole, Early,
           SoleProcess, OneProcess, Inside, OneWorker, SoleWorker, Working, Present,
           TypeInv, CallInv, CallType, WorkInv, WorkType, netVars
  <2>3. KeyMade'
    BY <1>5, Domains
       DEF Route, nodeVars, tssVars, workVars, Exclusion, Service, KeyMade, Sole,
           OneWorker, SoleWorker, Working, Early, TypeInv, CallInv, CallType,
           WorkInv, WorkType, netVars
  <2>4. Finishing'
    BY <1>5, Domains
       DEF Route, nodeVars, tssVars, workVars, Exclusion, Service, Finishing,
           TypeInv, CallInv, CallType, WorkInv, WorkType
  <2>q. QED
    BY <2>1, <2>2, <2>3, <2>4 DEF Service
<1>6. CASE Finish(o)
  <2>1. Answered'
    BY <1>6, Domains
       DEF Finish, notCaller, tssVars, workVars, Exclusion, Service, Answered,
           Early, TypeInv, CallInv, CallType, WorkInv, WorkType
  <2>2. Sole'
    BY <1>6, Domains
       DEF Finish, notCaller, tssVars, workVars, Exclusion, Service, Sole, Early,
           SoleProcess, OneProcess, Inside, OneWorker, SoleWorker, Working, Present,
           TypeInv, CallInv, CallType, WorkInv, WorkType, netVars
  <2>3. KeyMade'
    BY <1>6, Domains
       DEF Finish, notCaller, tssVars, workVars, Exclusion, Service, KeyMade, Sole,
           OneWorker, SoleWorker, Working, Early, TypeInv, CallInv, CallType,
           WorkInv, WorkType, netVars
  <2>4. Finishing'
    BY <1>6, Domains
       DEF Finish, notCaller, tssVars, workVars, Exclusion, Service, Finishing,
           TypeInv, CallInv, CallType, WorkInv, WorkType
  <2>q. QED
    BY <2>1, <2>2, <2>3, <2>4 DEF Service
<1>7. CASE Leave(o)
  <2>1. Answered'
    BY <1>7, Domains
       DEF Leave, notCaller, tssVars, workVars, Exclusion, Service, Answered, Early,
           TypeInv, CallInv, CallType, WorkInv, WorkType
  <2>2. Sole'
    BY <1>7, Domains
       DEF Leave, notCaller, tssVars, workVars, Exclusion, Service, Sole, Early,
           SoleProcess, OneProcess, Inside, OneWorker, SoleWorker, Working, Present,
           TypeInv, CallInv, CallType, WorkInv, WorkType, netVars
  <2>3. KeyMade'
    BY <1>7, Domains
       DEF Leave, notCaller, tssVars, workVars, Exclusion, Service, KeyMade, Sole,
           OneWorker, SoleWorker, Working, Early, TypeInv, CallInv, CallType,
           WorkInv, WorkType, netVars
  <2>4. Finishing'
    BY <1>7, Domains
       DEF Leave, notCaller, tssVars, workVars, Exclusion, Service, Finishing,
           TypeInv, CallInv, CallType, WorkInv, WorkType
  <2>q. QED
    BY <2>1, <2>2, <2>3, <2>4 DEF Service
<1>q. QED
  BY <1>1, <1>2, <1>3, <1>4, <1>5, <1>6, <1>7 DEF CallerStep

\* A step of a worker keeps the invariant.
LEMMA ServiceWorker ==
  ASSUME TypeInv, Exclusion, Service, NEW o \in Ops,
         WorkerStep(o)
  PROVE  Service'
<1>1. CASE WorkerCheck(o)
  <2>1. Answered'
    BY <1>1, Domains
       DEF WorkerCheck, callVars, nodeVars, notWorker, tssVars, Exclusion, Service,
           Answered, Early, TypeInv, CallInv, CallType, WorkInv, WorkType
  <2>2. Sole'
    BY <1>1, Domains
       DEF WorkerCheck, callVars, nodeVars, notWorker, tssVars, Exclusion, Service,
           Sole, Early, SoleProcess, OneProcess, Inside, OneWorker, SoleWorker,
           Working, Present, TypeInv, CallInv, CallType, WorkInv, WorkType, netVars
  <2>3. KeyMade'
    BY <1>1, Domains
       DEF WorkerCheck, callVars, nodeVars, notWorker, tssVars, Exclusion, Service,
           KeyMade, Sole, OneWorker, SoleWorker, Working, Early, TypeInv, CallInv,
           CallType, WorkInv, WorkType, netVars
  <2>4. Finishing'
    BY <1>1, Domains
       DEF WorkerCheck, callVars, nodeVars, notWorker, tssVars, Exclusion, Service,
           Finishing, TypeInv, CallInv, CallType, WorkInv, WorkType
  <2>q. QED
    BY <2>1, <2>2, <2>3, <2>4 DEF Service
<1>2. CASE WorkerEnter(o)
  <2>1. Answered'
    BY <1>2, Domains
       DEF WorkerEnter, callVars, nodeVars, Exclusion, Service, Answered, Early,
           TypeInv, CallInv, CallType, WorkInv, WorkType
  <2>2. Sole'
    BY <1>2, Domains
       DEF WorkerEnter, callVars, nodeVars, Exclusion, Service, Sole, Early,
           SoleProcess, OneProcess, Inside, OneWorker, SoleWorker, Working, Present,
           TypeInv, CallInv, CallType, WorkInv, WorkType, netVars
  <2>3. KeyMade'
    BY <1>2, Domains
       DEF WorkerEnter, callVars, nodeVars, Exclusion, Service, KeyMade, Sole,
           OneWorker, SoleWorker, Working, Early, TypeInv, CallInv, CallType,
           WorkInv, WorkType, netVars
  <2>4. Finishing'
    BY <1>2, Domains
       DEF WorkerEnter, callVars, nodeVars, Exclusion, Service, Finishing, TypeInv,
           CallInv, CallType, WorkInv, WorkType
  <2>q. QED
    BY <2>1, <2>2, <2>3, <2>4 DEF Service
<1>3. CASE WorkerDeadline(o)
  <2>1. Answered'
    BY <1>3, Domains
       DEF WorkerDeadline, callVars, nodeVars, notWorker, tssVars, Exclusion,
           Service, Answered, Early, TypeInv, CallInv, CallType, WorkInv, WorkType
  <2>2. Sole'
    BY <1>3, Domains
       DEF WorkerDeadline, callVars, nodeVars, notWorker, tssVars, Exclusion,
           Service, Sole, Early, SoleProcess, OneProcess, Inside, OneWorker,
           SoleWorker, Working, Present, TypeInv, CallInv, CallType, WorkInv,
           WorkType, netVars
  <2>3. KeyMade'
    BY <1>3, Domains
       DEF WorkerDeadline, callVars, nodeVars, notWorker, tssVars, Exclusion,
           Service, KeyMade, Sole, OneWorker, SoleWorker, Working, Early, TypeInv,
           CallInv, CallType, WorkInv, WorkType, netVars
  <2>4. Finishing'
    BY <1>3, Domains
       DEF WorkerDeadline, callVars, nodeVars, notWorker, tssVars, Exclusion,
           Service, Finishing, TypeInv, CallInv, CallType, WorkInv, WorkType
  <2>q. QED
    BY <2>1, <2>2, <2>3, <2>4 DEF Service
<1>4. CASE WorkerTakesError(o)
  <2>1. Answered'
    BY <1>4, Domains
       DEF WorkerTakesError, callVars, nodeVars, tssVars, Exclusion, Service,
           Answered, Early, TypeInv, CallInv, CallType, WorkInv, WorkType
  <2>2. Sole'
    BY <1>4, Domains
       DEF WorkerTakesError, callVars, nodeVars, tssVars, Exclusion, Service, Sole,
           Early, SoleProcess, OneProcess, Inside, OneWorker, SoleWorker, Working,
           Present, TypeInv, CallInv, CallType, WorkInv, WorkType, netVars
  <2>3. KeyMade'
    BY <1>4, Domains
       DEF WorkerTakesError, callVars, nodeVars, tssVars, Exclusion, Service,
           KeyMade, Sole, OneWorker, SoleWorker, Working, Early, TypeInv, CallInv,
           CallType, WorkInv, WorkType, netVars
  <2>4. Finishing'
    BY <1>4, Domains
       DEF WorkerTakesError, callVars, nodeVars, tssVars, Exclusion, Service,
           Finishing, TypeInv, CallInv, CallType, WorkInv, WorkType
  <2>q. QED
    BY <2>1, <2>2, <2>3, <2>4 DEF Service
<1>5. CASE WorkerTakesOut(o)
  <2>1. Answered'
    BY <1>5, Domains
       DEF WorkerTakesOut, callVars, nodeVars, tssVars, Exclusion, Service,
           Answered, Early, TypeInv, CallInv, CallType, WorkInv, WorkType
  <2>2. Sole'
    BY <1>5, Domains
       DEF WorkerTakesOut, callVars, nodeVars, tssVars, Exclusion, Service, Sole,
           Early, SoleProcess, OneProcess, Inside, OneWorker, SoleWorker, Working,
           Present, TypeInv, CallInv, CallType, WorkInv, WorkType, netVars
  <2>3. KeyMade'
    BY <1>5, Domains
       DEF WorkerTakesOut, callVars, nodeVars, tssVars, Exclusion, Service, KeyMade,
           Sole, OneWorker, SoleWorker, Working, Early, TypeInv, CallInv, CallType,
           WorkInv, WorkType, netVars
  <2>4. Finishing'
    BY <1>5, Domains
       DEF WorkerTakesOut, callVars, nodeVars, tssVars, Exclusion, Service,
           Finishing, TypeInv, CallInv, CallType, WorkInv, WorkType
  <2>q. QED
    BY <2>1, <2>2, <2>3, <2>4 DEF Service
<1>6. CASE WorkerTakesEnd(o)
  <2>1. Answered'
    BY <1>6, Domains
       DEF WorkerTakesEnd, callVars, nodeVars, Exclusion, Service, Answered, Early,
           TypeInv, CallInv, CallType, WorkInv, WorkType
  <2>2. Sole'
    BY <1>6, Domains
       DEF WorkerTakesEnd, callVars, nodeVars, Exclusion, Service, Sole, Early,
           SoleProcess, OneProcess, Inside, OneWorker, SoleWorker, Working, Present,
           TypeInv, CallInv, CallType, WorkInv, WorkType, netVars
  <2>3. KeyMade'
    <3>1. CASE overlapped'
      BY <3>1 DEF KeyMade
    <3>2. CASE ~overlapped'
      <4>1. ~overlapped
        BY <1>6, <3>2 DEF WorkerTakesEnd, netVars
      <4>2. ASSUME NEW p \in Ops, p # o
            PROVE  worker[p] \notin {"select", "message", "done"} /\ caller[p] # "finish"
        BY <1>6, <4>1, <4>2
           DEF WorkerTakesEnd, Exclusion, OneWorker, SoleWorker, Working, Service,
               Sole
      <4>3. UNCHANGED caller /\ \A p \in Ops : p # o => worker'[p] = worker[p]
        BY <1>6 DEF WorkerTakesEnd, callVars, TypeInv, WorkInv, WorkType
      <4>4. caller[o] # "finish" /\ worker'[o] \in {"done", "convert"}
        BY <1>6, <4>1
           DEF WorkerTakesEnd, Service, Sole, TypeInv, WorkInv, WorkType
      <4>5. o \in TssOps
        BY <1>6 DEF WorkerTakesEnd, TypeInv, WorkInv
      <4>6. IF o \in KeyGens THEN key' = o ELSE key' # NoOp
        BY <1>6, <4>1, <4>5 DEF WorkerTakesEnd, Service, KeyMade, TssOps
      <4>q. QED
        BY <4>2, <4>3, <4>4, <4>6, Domains DEF KeyMade
    <3>q. QED
      BY <3>1, <3>2
  <2>4. Finishing'
    BY <1>6, Domains
       DEF WorkerTakesEnd, callVars, nodeVars, Exclusion, Service, Finishing,
           TypeInv, CallInv, CallType, WorkInv, WorkType
  <2>q. QED
    BY <2>1, <2>2, <2>3, <2>4 DEF Service
<1>7. CASE GiveMessage(o)
  <2>1. Answered'
    BY <1>7, Domains
       DEF GiveMessage, nodeVars, tssVars, Exclusion, Service, Answered, Early,
           TypeInv, CallInv, CallType, WorkInv, WorkType
  <2>2. Sole'
    BY <1>7, Domains
       DEF GiveMessage, nodeVars, tssVars, Exclusion, Service, Sole, Early,
           SoleProcess, OneProcess, Inside, OneWorker, SoleWorker, Working, Present,
           TypeInv, CallInv, CallType, WorkInv, WorkType, netVars
  <2>3. KeyMade'
    BY <1>7, Domains
       DEF GiveMessage, nodeVars, tssVars, Exclusion, Service, KeyMade, Sole,
           OneWorker, SoleWorker, Working, Early, TypeInv, CallInv, CallType,
           WorkInv, WorkType, netVars
  <2>4. Finishing'
    BY <1>7, Domains
       DEF GiveMessage, nodeVars, tssVars, Exclusion, Service, Finishing, TypeInv,
           CallInv, CallType, WorkInv, WorkType
  <2>q. QED
    BY <2>1, <2>2, <2>3, <2>4 DEF Service
<1>8. CASE GiveError(o)
  <2>1. Answered'
    <3>1. "none" \notin Errors
      BY DEF Errors
    <3>q. QED
      BY <1>8, <3>1
         DEF GiveError, Service, Answered, TypeInv, CallInv, CallType
  <2>2. Sole'
    BY <1>8, Domains
       DEF GiveError, nodeVars, tssVars, Exclusion, Service, Sole, Early,
           SoleProcess, OneProcess, Inside, OneWorker, SoleWorker, Working, Present,
           TypeInv, CallInv, CallType, WorkInv, WorkType, netVars
  <2>3. KeyMade'
    <3>1. \A r \in Errors : AfterError[r] \in {"gone", "clear", "drain"}
      BY DEF Errors, AfterError
    <3>2. worker'[o] \notin {"select", "message", "done"} /\ caller'[o] = "leaving"
      BY <1>8, <3>1
         DEF GiveError, TypeInv, WorkInv, WorkType, CallInv, CallType
    <3>3. \A p \in Ops : p # o => worker'[p] = worker[p] /\ caller'[p] = caller[p]
      BY <1>8 DEF GiveError, TypeInv, WorkInv, WorkType, CallInv, CallType
    <3>4. UNCHANGED key
      BY <1>8 DEF GiveError, tssVars
    <3>5. UNCHANGED overlapped
      BY <1>8 DEF GiveError, netVars
    <3>6. CASE overlapped
      BY <3>5, <3>6 DEF KeyMade
    <3>7. CASE ~overlapped
      BY <3>2, <3>3, <3>4, <3>5, <3>7, Domains DEF Service, KeyMade
    <3>q. QED
      BY <3>6, <3>7
  <2>4. Finishing'
    BY <1>8, Domains
       DEF GiveError, nodeVars, tssVars, Exclusion, Service, Finishing, TypeInv,
           CallInv, CallType, WorkInv, WorkType
  <2>q. QED
    BY <2>1, <2>2, <2>3, <2>4 DEF Service
<1>9. CASE GiveDone(o)
  <2>1. Answered'
    BY <1>9, Domains
       DEF GiveDone, nodeVars, tssVars, Exclusion, Service, Answered, Early,
           TypeInv, CallInv, CallType, WorkInv, WorkType
  <2>2. Sole'
    BY <1>9, Domains
       DEF GiveDone, nodeVars, tssVars, Exclusion, Service, Sole, Early,
           SoleProcess, OneProcess, Inside, OneWorker, SoleWorker, Working, Present,
           TypeInv, CallInv, CallType, WorkInv, WorkType, netVars
  <2>3. KeyMade'
    BY <1>9, Domains
       DEF GiveDone, nodeVars, tssVars, Exclusion, Service, KeyMade, Sole,
           OneWorker, SoleWorker, Working, Early, TypeInv, CallInv, CallType,
           WorkInv, WorkType, netVars
  <2>4. Finishing'
    BY <1>9, Domains
       DEF GiveDone, nodeVars, tssVars, Exclusion, Service, Finishing, TypeInv,
           CallInv, CallType, WorkInv, WorkType
  <2>q. QED
    BY <2>1, <2>2, <2>3, <2>4 DEF Service
<1>10. CASE WorkerDrained(o)
  <2>1. Answered'
    BY <1>10, Domains
       DEF WorkerDrained, callVars, nodeVars, notWorker, tssVars, Exclusion,
           Service, Answered, Early, TypeInv, CallInv, CallType, WorkInv, WorkType
  <2>2. Sole'
    BY <1>10, Domains
       DEF WorkerDrained, callVars, nodeVars, notWorker, tssVars, Exclusion,
           Service, Sole, Early, SoleProcess, OneProcess, Inside, OneWorker,
           SoleWorker, Working, Present, TypeInv, CallInv, CallType, WorkInv,
           WorkType, netVars
  <2>3. KeyMade'
    BY <1>10, Domains
       DEF WorkerDrained, callVars, nodeVars, notWorker, tssVars, Exclusion,
           Service, KeyMade, Sole, OneWorker, SoleWorker, Working, Early, TypeInv,
           CallInv, CallType, WorkInv, WorkType, netVars
  <2>4. Finishing'
    BY <1>10, Domains
       DEF WorkerDrained, callVars, nodeVars, notWorker, tssVars, Exclusion,
           Service, Finishing, TypeInv, CallInv, CallType, WorkInv, WorkType
  <2>q. QED
    BY <2>1, <2>2, <2>3, <2>4 DEF Service
<1>11. CASE WorkerReset(o)
  <2>1. Answered'
    BY <1>11, Domains
       DEF WorkerReset, callVars, nodeVars, notWorker, Exclusion, Service, Answered,
           Early, TypeInv, CallInv, CallType, WorkInv, WorkType
  <2>2. Sole'
    BY <1>11, Domains
       DEF WorkerReset, callVars, nodeVars, notWorker, Exclusion, Service, Sole,
           Early, SoleProcess, OneProcess, Inside, OneWorker, SoleWorker, Working,
           Present, TypeInv, CallInv, CallType, WorkInv, WorkType, netVars
  <2>3. KeyMade'
    BY <1>11, Domains
       DEF WorkerReset, callVars, nodeVars, notWorker, Exclusion, Service, KeyMade,
           Sole, OneWorker, SoleWorker, Working, Early, TypeInv, CallInv, CallType,
           WorkInv, WorkType, netVars
  <2>4. Finishing'
    BY <1>11, Domains
       DEF WorkerReset, callVars, nodeVars, notWorker, Exclusion, Service,
           Finishing, TypeInv, CallInv, CallType, WorkInv, WorkType
  <2>q. QED
    BY <2>1, <2>2, <2>3, <2>4 DEF Service
<1>12. CASE WorkerClear(o)
  <2>1. Answered'
    BY <1>12, Domains
       DEF WorkerClear, callVars, nodeVars, notWorker, Exclusion, Service, Answered,
           Early, TypeInv, CallInv, CallType, WorkInv, WorkType
  <2>2. Sole'
    BY <1>12, Domains
       DEF WorkerClear, callVars, nodeVars, notWorker, Exclusion, Service, Sole,
           Early, SoleProcess, OneProcess, Inside, OneWorker, SoleWorker, Working,
           Present, TypeInv, CallInv, CallType, WorkInv, WorkType, netVars
  <2>3. KeyMade'
    BY <1>12, Domains
       DEF WorkerClear, callVars, nodeVars, notWorker, Exclusion, Service, KeyMade,
           Sole, OneWorker, SoleWorker, Working, Early, TypeInv, CallInv, CallType,
           WorkInv, WorkType, netVars
  <2>4. Finishing'
    BY <1>12, Domains
       DEF WorkerClear, callVars, nodeVars, notWorker, Exclusion, Service,
           Finishing, TypeInv, CallInv, CallType, WorkInv, WorkType
  <2>q. QED
    BY <2>1, <2>2, <2>3, <2>4 DEF Service
<1>q. QED
  BY <1>1, <1>2, <1>3, <1>4, <1>5, <1>6, <1>7, <1>8, <1>9, <1>10, <1>11, <1>12
     DEF WorkerStep

\* A new operation keeps the invariant.
LEMMA ServiceArrives ==
  ASSUME TypeInv, Exclusion, Service, NEW o \in Ops,
         Arrives(o)
  PROVE  Service'
<1>1. CASE HandleStart(o)
  <2>1. Answered'
    BY <1>1, Domains
       DEF HandleStart, Admit, notAdmit, nodeVars, notCaller, tssVars, workVars,
           Exclusion, Service, Answered, Early, TypeInv, CallInv, CallType, WorkInv,
           WorkType
  <2>2. Sole'
    <3>1. overlapped => overlapped'
      BY <1>1 DEF HandleStart, Admit, notCaller, netVars
    <3>2. UNCHANGED worker /\ \A p \in Ops : caller'[p] = "finish" => caller[p] = "finish"
      BY <1>1
         DEF HandleStart, Admit, notAdmit, notCaller, workVars, TypeInv, CallInv,
             CallType
    <3>q. QED
      BY <3>1, <3>2 DEF Service, Sole
  <2>3. KeyMade'
    BY <1>1, Domains
       DEF HandleStart, Admit, notAdmit, nodeVars, notCaller, tssVars, workVars,
           Exclusion, Service, KeyMade, Sole, OneWorker, SoleWorker, Working, Early,
           TypeInv, CallInv, CallType, WorkInv, WorkType, netVars
  <2>4. Finishing'
    BY <1>1, Domains
       DEF HandleStart, Admit, notAdmit, nodeVars, notCaller, tssVars, workVars,
           Exclusion, Service, Finishing, TypeInv, CallInv, CallType, WorkInv,
           WorkType
  <2>q. QED
    BY <2>1, <2>2, <2>3, <2>4 DEF Service
<1>2. CASE Call(o)
  <2>1. Answered'
    BY <1>2, Domains
       DEF Call, Admit, notAdmit, nodeVars, notCaller, tssVars, workVars, Exclusion,
           Service, Answered, Early, TypeInv, CallInv, CallType, WorkInv, WorkType
  <2>2. Sole'
    BY <1>2, Domains
       DEF Call, Admit, notAdmit, nodeVars, notCaller, tssVars, workVars, Exclusion,
           Service, Sole, Early, SoleProcess, OneProcess, Inside, OneWorker,
           SoleWorker, Working, Present, TypeInv, CallInv, CallType, WorkInv,
           WorkType, netVars
  <2>3. KeyMade'
    BY <1>2, Domains
       DEF Call, Admit, notAdmit, nodeVars, notCaller, tssVars, workVars, Exclusion,
           Service, KeyMade, Sole, OneWorker, SoleWorker, Working, Early, TypeInv,
           CallInv, CallType, WorkInv, WorkType, netVars
  <2>4. Finishing'
    BY <1>2, Domains
       DEF Call, Admit, notAdmit, nodeVars, notCaller, tssVars, workVars, Exclusion,
           Service, Finishing, TypeInv, CallInv, CallType, WorkInv, WorkType
  <2>q. QED
    BY <2>1, <2>2, <2>3, <2>4 DEF Service
<1>3. CASE CallRefused(o)
  <2>1. Answered'
    BY <1>3, Domains
       DEF CallRefused, nodeVars, notCaller, tssVars, workVars, Exclusion, Service,
           Answered, Early, TypeInv, CallInv, CallType, WorkInv, WorkType
  <2>2. Sole'
    BY <1>3, Domains
       DEF CallRefused, nodeVars, notCaller, tssVars, workVars, Exclusion, Service,
           Sole, Early, SoleProcess, OneProcess, Inside, OneWorker, SoleWorker,
           Working, Present, TypeInv, CallInv, CallType, WorkInv, WorkType, netVars
  <2>3. KeyMade'
    BY <1>3, Domains
       DEF CallRefused, nodeVars, notCaller, tssVars, workVars, Exclusion, Service,
           KeyMade, Sole, OneWorker, SoleWorker, Working, Early, TypeInv, CallInv,
           CallType, WorkInv, WorkType, netVars
  <2>4. Finishing'
    BY <1>3, Domains
       DEF CallRefused, nodeVars, notCaller, tssVars, workVars, Exclusion, Service,
           Finishing, TypeInv, CallInv, CallType, WorkInv, WorkType
  <2>q. QED
    BY <2>1, <2>2, <2>3, <2>4 DEF Service
<1>4. CASE RemoteStart(o)
  <2>1. Answered'
    BY <1>4, Domains
       DEF RemoteStart, nodeVars, notCaller, tssVars, workVars, Exclusion, Service,
           Answered, Early, TypeInv, CallInv, CallType, WorkInv, WorkType
  <2>2. Sole'
    BY <1>4, Domains
       DEF RemoteStart, nodeVars, notCaller, tssVars, workVars, Exclusion, Service,
           Sole, Early, SoleProcess, OneProcess, Inside, OneWorker, SoleWorker,
           Working, Present, TypeInv, CallInv, CallType, WorkInv, WorkType, netVars
  <2>3. KeyMade'
    BY <1>4, Domains
       DEF RemoteStart, nodeVars, notCaller, tssVars, workVars, Exclusion, Service,
           KeyMade, Sole, OneWorker, SoleWorker, Working, Early, TypeInv, CallInv,
           CallType, WorkInv, WorkType, netVars
  <2>4. Finishing'
    BY <1>4, Domains
       DEF RemoteStart, nodeVars, notCaller, tssVars, workVars, Exclusion, Service,
           Finishing, TypeInv, CallInv, CallType, WorkInv, WorkType
  <2>q. QED
    BY <2>1, <2>2, <2>3, <2>4 DEF Service
<1>q. QED
  BY <1>1, <1>2, <1>3, <1>4 DEF Arrives

\* A step of a caller is a step of the API.
LEMMA CallerImplements ==
  ASSUME TypeInv, Exclusion, Service, NEW o \in Ops,
         CallerStep(o), ~overlapped
  PROVE  API!Next \/ UNCHANGED API!svars
<1>1. CASE EnterKeyGen(o)
  <2>1. API!Begin(o)
    BY <1>1, Domains
       DEF EnterKeyGen, tssVars, API!Begin, API!SomeInside, Exclusion, Gate,
           SoleProcess,
           OneProcess, TypeInv, CallInv, CallType, Phase, Inside
  <2>q. QED
    BY <2>1 DEF API!Next
<1>2. CASE EnterSign(o)
  <2>1. API!Begin(o)
    BY ZenonT(30), <1>2, Domains
       DEF EnterSign, tssVars, API!Begin, API!SomeInside, Exclusion, Gate,
           SoleProcess,
           OneProcess, TypeInv, CallInv, CallType, Phase, Inside
  <2>q. QED
    BY <2>1 DEF API!Next
<1>3. CASE JoinSign(o)
  <2>1. API!Begin(o)
    BY <1>3, Domains
       DEF JoinSign, tssVars, API!Begin, API!SomeInside, Exclusion, Gate, SoleProcess,
           OneProcess, TypeInv, CallInv, CallType, Phase, Inside
  <2>q. QED
    BY <2>1 DEF API!Next
<1>4. CASE EthSendFails(o)
  <2>1. API!Fail(o)
    BY <1>4, Domains
       DEF EthSendFails, nodeVars, notCaller, tssVars, workVars, API!Fail,
           API!Failures, Service, Answered, TypeInv, CallInv, CallType, Phase,
           Inside
  <2>q. QED
    BY <2>1 DEF API!Next
<1>5. CASE Route(o)
  <2>1. CASE UNCHANGED result
    <3>1. caller' = [caller EXCEPT ![o] = "select"]
      BY <1>5, <2>1 DEF Route, TypeInv, CallInv, CallType, Service, Answered
    <3>2. \A p \in Ops : Phase(p)' = Phase(p)
      BY <1>5, <3>1 DEF Route, Phase, Inside, TypeInv, CallInv, CallType
    <3>q. QED
      BY <1>5, <2>1, <3>2, Unseen DEF Route, nodeVars, tssVars
  <2>2. CASE ~UNCHANGED result
    <3>1. /\ caller' = [caller EXCEPT ![o] = "leaving"]
          /\ result' = [result EXCEPT ![o] = "unknown"]
      BY <1>5, <2>2 DEF Route
    <3>2. API!Fail(o)
      BY <1>5, <3>1
         DEF Route, API!Fail, API!Failures, Service, Answered, nodeVars,
             tssVars, TypeInv, CallInv, CallType, Phase, Inside
    <3>q. QED
      BY <3>2 DEF API!Next
  <2>q. QED
    BY <2>1, <2>2
<1>6. CASE Finish(o)
  <2>1. API!Succeed(o)
    BY <1>6, Domains
       DEF Finish, notCaller, tssVars, workVars, API!Succeed, Service,
           Answered, KeyMade, Finishing, TypeInv, CallInv, CallType, Phase,
           Inside
  <2>q. QED
    BY <2>1 DEF API!Next
<1>7. CASE Leave(o)
  <2>1. API!End(o)
    BY <1>7, Domains
       DEF Leave, notCaller, tssVars, workVars, API!End, Service, Answered,
           TypeInv, CallInv, CallType, Phase, Inside
  <2>q. QED
    BY <2>1 DEF API!Next
<1>q. QED
  BY <1>1, <1>2, <1>3, <1>4, <1>5, <1>6, <1>7 DEF CallerStep

\* A step of a worker is a step of the API, or changes nothing of it.
LEMMA WorkerImplements ==
  ASSUME TypeInv, Exclusion, Service, NEW o \in Ops,
         WorkerStep(o)
  PROVE  API!Next \/ UNCHANGED API!svars
<1>1. CASE WorkerCheck(o)
  BY <1>1, Unseen
     DEF WorkerCheck, callVars, nodeVars, notWorker, tssVars, Phase, Inside
<1>2. CASE WorkerEnter(o)
  BY <1>2, Unseen
     DEF WorkerEnter, callVars, nodeVars, Phase, Inside
<1>3. CASE WorkerDeadline(o)
  BY <1>3, Unseen
     DEF WorkerDeadline, callVars, nodeVars, notWorker, tssVars, Phase, Inside
<1>4. CASE WorkerTakesError(o)
  BY <1>4, Unseen
     DEF WorkerTakesError, callVars, nodeVars, tssVars, Phase, Inside
<1>5. CASE WorkerTakesOut(o)
  BY <1>5, Unseen
     DEF WorkerTakesOut, callVars, nodeVars, tssVars, Phase, Inside
<1>6. CASE WorkerTakesEnd(o)
  <2>1. CASE o \in KeyGens
    <3>1. Phase(o) # "idle" /\ result[o] \in {"none", "unknown"}
      BY <1>6
         DEF WorkerTakesEnd, Exclusion, Present, Service, Answered, Phase, Inside
    <3>2. API!MakeKey(o)
      BY <1>6, <2>1, <3>1
         DEF WorkerTakesEnd, API!MakeKey, Phase, Inside, nodeVars, callVars
    <3>q. QED
      BY <3>2 DEF API!Next
  <2>2. CASE o \notin KeyGens
    BY <1>6, <2>2, Unseen DEF WorkerTakesEnd, nodeVars, callVars
  <2>q. QED
    BY <2>1, <2>2
<1>7. CASE GiveMessage(o)
  <2>1. \A p \in Ops : Phase(p)' = Phase(p)
    BY <1>7
       DEF GiveMessage, nodeVars, tssVars, TypeInv, CallInv, CallType, Phase, Inside
  <2>2. UNCHANGED <<result, key, stored>>
    BY <1>7
       DEF GiveMessage, nodeVars, tssVars
  <2>q. QED
    BY <2>1, <2>2, Unseen
<1>8. CASE GiveError(o)
  <2>1. API!Fail(o)
    BY <1>8, Domains
       DEF GiveError, nodeVars, tssVars, API!Fail, API!Failures, Errors,
           Service, Answered, TypeInv, CallInv, CallType, Phase, Inside
  <2>q. QED
    BY <2>1 DEF API!Next
<1>9. CASE GiveDone(o)
  <2>1. \A p \in Ops : Phase(p)' = Phase(p)
    BY <1>9
       DEF GiveDone, nodeVars, tssVars, TypeInv, CallInv, CallType, Phase, Inside
  <2>2. UNCHANGED <<result, key, stored>>
    BY <1>9
       DEF GiveDone, nodeVars, tssVars
  <2>q. QED
    BY <2>1, <2>2, Unseen
<1>10. CASE WorkerDrained(o)
  BY <1>10, Unseen
     DEF WorkerDrained, callVars, nodeVars, notWorker, tssVars, Phase, Inside
<1>11. CASE WorkerReset(o)
  BY <1>11, Unseen
     DEF WorkerReset, callVars, nodeVars, notWorker, Phase, Inside
<1>12. CASE WorkerClear(o)
  BY <1>12, Unseen
     DEF WorkerClear, callVars, nodeVars, notWorker, Phase, Inside
<1>q. QED
  BY <1>1, <1>2, <1>3, <1>4, <1>5, <1>6, <1>7, <1>8, <1>9, <1>10, <1>11, <1>12
     DEF WorkerStep

\* A new operation is declined, or has not begun.
LEMMA ArrivalImplements ==
  ASSUME TypeInv, Exclusion, Service, NEW o \in Ops,
         Arrives(o), ~overlapped
  PROVE  API!Next \/ UNCHANGED API!svars
<1>1. CASE HandleStart(o)
  <2>1. CASE busy
    <3>1. API!Decline(o)
      BY <1>1, <2>1
         DEF HandleStart, Admit, notAdmit, API!Decline, API!SomeInside, Exclusion,
             SoleProcess, OneProcess,
             notCaller, nodeVars, tssVars, TypeInv, CallInv, CallType, Phase,
             Inside
    <3>q. QED
      BY <3>1 DEF API!Next
  <2>2. CASE ~busy
    <3>1. \A p \in Ops : Phase(p)' = Phase(p)
      BY <1>1, <2>2
         DEF HandleStart, Admit, notAdmit, TypeInv, CallInv, CallType, Phase, Inside
    <3>q. QED
      BY <1>1, <2>2, <3>1, Unseen
         DEF HandleStart, Admit, notAdmit, notCaller, nodeVars, tssVars
  <2>q. QED
    BY <2>1, <2>2
<1>2. CASE Call(o)
  <2>1. \A p \in Ops : Phase(p)' = Phase(p)
    BY <1>2
       DEF Call, Admit, notAdmit, nodeVars, notCaller, tssVars, workVars, TypeInv,
           CallInv, CallType, Phase, Inside
  <2>2. UNCHANGED <<result, key, stored>>
    BY <1>2
       DEF Call, Admit, notAdmit, nodeVars, notCaller, tssVars, workVars
  <2>q. QED
    BY <2>1, <2>2, Unseen
<1>3. CASE CallRefused(o)
  <2>1. API!Decline(o)
    BY ZenonT(30), <1>3, Domains
       DEF CallRefused, nodeVars, notCaller, tssVars, workVars, API!Decline,
           API!SomeInside, Exclusion, SoleProcess, OneProcess, TypeInv, CallInv, CallType,
           Phase, Inside
  <2>q. QED
    BY <2>1 DEF API!Next
<1>4. CASE RemoteStart(o)
  <2>1. \A p \in Ops : Phase(p)' = Phase(p)
    BY <1>4
       DEF RemoteStart, nodeVars, notCaller, tssVars, workVars, TypeInv, CallInv,
           CallType, Phase, Inside
  <2>2. UNCHANGED <<result, key, stored>>
    BY <1>4
       DEF RemoteStart, nodeVars, notCaller, tssVars, workVars
  <2>q. QED
    BY <2>1, <2>2, Unseen
<1>q. QED
  BY <1>1, <1>2, <1>3, <1>4 DEF Arrives

\* The invariant of the refinement holds, for all constants.
THEOREM ServiceCorrect ==
  Spec => [](TypeInv /\ Exclusion /\ Service)
<1>1. Init => TypeInv /\ Exclusion /\ Service
  <2>1. Init => Service
    BY OpsAssumption
       DEF Init, Service, Answered, Sole, KeyMade, Finishing, TssOps, Ops
  <2>q. QED
    BY <2>1, TypeInit, ExclusionInit
<1>2. TypeInv /\ Exclusion /\ Service /\ [Next]_vars
        => (TypeInv /\ Exclusion /\ Service)'
  <2>1. ASSUME TypeInv, Exclusion, Service, [Next]_vars PROVE Service'
    BY <2>1, SeenChanges, Unseen, ServiceCaller, ServiceWorker, ServiceArrives
  <2>q. QED
    BY <2>1, TypeNext, ExclusionNext
<1>q. QED
  BY <1>1, <1>2, PTL DEF Spec

\* The implementation of a node is an implementation of its API until it lets in two
\* operations at once.
THEOREM ServiceImplemented ==
  Spec => ImplementsService
<1>1. Init => API!Init
  BY DEF Init, API!Init, Phase, Inside
<1>2. ASSUME TypeInv, Exclusion, Service, [Next]_vars
      PROVE  [overlapped' \/ API!Next]_(API!svars)
  <2> SUFFICES ASSUME ~overlapped' PROVE API!Next \/ UNCHANGED API!svars
    OBVIOUS
  <2>1. UNCHANGED seen => UNCHANGED API!svars
    BY Unseen DEF seen
  <2>2. ~overlapped
    BY <1>2, OverlappedStays
  <2>q. QED
    BY <1>2, <2>1, <2>2, SeenChanges, CallerImplements, WorkerImplements,
       ArrivalImplements
<1>3. TypeInv /\ Exclusion /\ Service /\ [Next]_vars
        => [overlapped' \/ API!Next]_(API!svars)
  BY <1>2
<1>q. QED
  BY <1>1, <1>3, ServiceCorrect, PTL DEF Spec, ImplementsService

================================================================================
