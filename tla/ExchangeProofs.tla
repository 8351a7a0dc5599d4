---------------------------- MODULE ExchangeProofs ----------------------------
(***************************************************************************)
(* What the parties of Operation exchange: proofs that an operation which  *)
(* returns a result has received and sent everything, and about whose      *)
(* messages a party holds.                                                 *)
(***************************************************************************)
EXTENDS LoopProofs, ServiceProofs

\* Which steps change the data of an operation.
DataSteps ==
  \A o \in Ops :
    /\ parties'[o] # parties[o] => RemoteStart(o) \/ EnterKeyGen(o) \/ EnterSign(o)
    /\ got'[o] # got[o] => Update /\ on = o
    /\ round'[o] # round[o] => StartParty(o) \/ (Step /\ on = o)
    /\ out'[o] # out[o] => StartParty(o) \/ WorkerTakesOut(o) \/ (Step /\ on = o)
    /\ offering'[o] # offering[o] => WorkerTakesOut(o) \/ GiveMessage(o)
    /\ routing'[o] # routing[o] => GiveMessage(o) \/ Route(o)
    /\ sent'[o] # sent[o] => Route(o)

\* Which steps change where its caller, worker and starter are, and its result.
ControlSteps ==
  \A o \in Ops :
    /\ caller'[o] \in {"select", "route"} =>
         caller[o] \in {"select", "route"} \/ EnterKeyGen(o) \/ EnterSign(o) \/ JoinSign(o)
    /\ caller'[o] = "finish" => caller[o] = "finish" \/ GiveDone(o)
    /\ caller'[o] = "idle" => caller[o] = "idle"
    /\ caller'[o] = "offered" => caller[o] = "offered" \/ RemoteStart(o)
    /\ caller'[o] = "admitted" =>
         \/ caller[o] = "admitted"
         \/ caller[o] = "offered" /\ HandleStart(o)
         \/ caller[o] = "idle"
    /\ caller[o] = "offered" => caller'[o] = "offered" \/ HandleStart(o)
    /\ caller[o] = "route" /\ caller'[o] # "route" => Route(o)
    /\ result'[o] # result[o] => result[o] = "none" /\ result'[o] # "none"
    /\ result'[o] = "ok" => result[o] = "ok" \/ Finish(o)
    /\ worker'[o] \in {"select", "message"} =>
         worker[o] \in {"select", "message"} \/ WorkerEnter(o)
    /\ worker'[o] = "done" => worker[o] = "done" \/ WorkerTakesEnd(o)
    /\ worker'[o] = "none" => worker[o] = "none"
    /\ worker[o] = "none" /\ worker'[o] # "none" =>
         EnterKeyGen(o) \/ EnterSign(o) \/ JoinSign(o)
    /\ worker[o] = "message" /\ worker'[o] # "message" => GiveMessage(o)
    /\ worker[o] = "convert" /\ worker'[o] # "convert" => caller'[o] = "leaving"
    /\ starter'[o] = "none" => starter[o] = "none"

\* Which steps change what the node has in common.
SharedSteps ==
  /\ taken \subseteq taken' /\ (taken' # taken => TakeUpdate)
  /\ posted \subseteq posted'
  /\ \A m \in posted' \ posted : Open(m.op) /\ m.from \in Senders(m.op)
  /\ peers' \subseteq peers /\ \A p \in peers \ peers' : Lost(p)'
  /\ \A p \in Peers : Lost(p) => Lost(p)'
  /\ signerPeers' # signerPeers => \E o \in Ops : caller[o] = "admitted"
  /\ \A k \in Kinds : ptr'[k] \notin {ptr[k], NoOp} =>
       ptr'[k] \in Ops /\ starter'[ptr'[k]] # "none"
  /\ loop' \in {"wait", "call", "lock"} =>
       TakeUpdate \/ (loop \in {"wait", "call", "lock"} /\ handling' = handling)
  /\ loop' = "lock" => CallUpdate \/ (loop = "lock" /\ on' = on)
  /\ loop' = "end" => Step \/ (loop = "end" /\ on' = on)

AllSteps == DataSteps /\ ControlSteps /\ SharedSteps

\* A step of a caller is one of those that AllSteps allows.
LEMMA StepsCaller ==
  ASSUME TypeInv, Exclusion, Computing, Service, NEW o \in Ops, CallerStep(o)
  PROVE  AllSteps
<1>1. CASE EnterKeyGen(o)
  <2>1. DataSteps
    BY <1>1, Domains
       DEF DataSteps, EnterKeyGen, nodeVars, tssVars, callVars, workVars, partyVars,
           loopVars, netVars, TypeInv, CallInv, CallType, WorkInv, WorkType,
           PartyType, LoopInv, NetType
  <2>2. ControlSteps
    <3>1. /\ caller[o] = "admitted" /\ caller'[o] \in {"select", "leaving"}
          /\ worker'[o] \in {worker[o], "check"} /\ result'[o] \in {"none", "notEnough"}
          /\ worker[o] = "none" /\ result[o] = "none" /\ UNCHANGED starter
      BY <1>1
         DEF EnterKeyGen, partyVars, TypeInv, CallInv, CallType, WorkInv, WorkType,
             Exclusion, Early
    <3>2. \A p \in Ops : p # o =>
            caller'[p] = caller[p] /\ worker'[p] = worker[p] /\ result'[p] = result[p]
      BY <1>1 DEF EnterKeyGen, TypeInv, CallInv, CallType, WorkInv, WorkType
    <3> QED
      BY <1>1, <3>1, <3>2 DEF ControlSteps
  <2>3. SharedSteps
    BY <1>1, Domains
       DEF SharedSteps, EnterKeyGen, nodeVars, tssVars, callVars, workVars,
           partyVars, loopVars, netVars, TypeInv, TssType, WorkInv, LoopInv,
           PartyType, NodeType, Lost
  <2> QED
    BY <2>1, <2>2, <2>3 DEF AllSteps
<1>2. CASE EnterSign(o)
  <2>1. DataSteps
    BY <1>2, Domains
       DEF DataSteps, EnterSign, nodeVars, tssVars, callVars, workVars, partyVars,
           loopVars, netVars, TypeInv, CallInv, CallType, WorkInv, WorkType,
           PartyType, LoopInv, NetType, selectRandomlySignerPeer, updateSignerPeers
  <2>2. ControlSteps
    BY <1>2, Domains
       DEF ControlSteps, EnterSign, nodeVars, tssVars, callVars, workVars,
           partyVars, loopVars, netVars, TypeInv, CallInv, CallType, WorkInv,
           WorkType, PartyType, Exclusion, Early, Computing, Service, Answered,
           selectRandomlySignerPeer, updateSignerPeers
  <2>3. SharedSteps
    BY <1>2, Domains
       DEF SharedSteps, EnterSign, nodeVars, tssVars, callVars, workVars, partyVars,
           loopVars, netVars, TypeInv, TssType, WorkInv, LoopInv, PartyType,
           NodeType, Lost, selectRandomlySignerPeer, updateSignerPeers
  <2> QED
    BY <2>1, <2>2, <2>3 DEF AllSteps
<1>3. CASE JoinSign(o)
  <2>1. DataSteps
    BY <1>3, Domains
       DEF DataSteps, JoinSign, nodeVars, tssVars, callVars, workVars, partyVars,
           loopVars, netVars, TypeInv, CallInv, CallType, WorkInv, WorkType,
           PartyType, LoopInv, NetType, updateSignerPeers
  <2>2. ControlSteps
    BY ZenonT(30), <1>3, Domains
       DEF ControlSteps, JoinSign, nodeVars, tssVars, callVars, workVars, partyVars,
           loopVars, netVars, TypeInv, CallInv, CallType, WorkInv, WorkType,
           PartyType, Exclusion, Early, Computing, Service, Answered,
           updateSignerPeers
  <2>3. SharedSteps
    BY <1>3, Domains
       DEF SharedSteps, JoinSign, nodeVars, tssVars, callVars, workVars, partyVars,
           loopVars, netVars, TypeInv, TssType, WorkInv, LoopInv, PartyType,
           NodeType, Lost, updateSignerPeers
  <2> QED
    BY <2>1, <2>2, <2>3 DEF AllSteps
<1>4. CASE EthSendFails(o)
  <2>1. DataSteps
    BY <1>4, Domains
       DEF DataSteps, EthSendFails, notCaller, nodeVars, tssVars, callVars,
           workVars, partyVars, loopVars, netVars, TypeInv, CallInv, CallType,
           WorkInv, WorkType, PartyType, LoopInv, NetType
  <2>2. ControlSteps
    BY <1>4, Domains
       DEF ControlSteps, EthSendFails, notCaller, nodeVars, tssVars, callVars,
           workVars, partyVars, loopVars, netVars, TypeInv, CallInv, CallType,
           WorkInv, WorkType, PartyType, Exclusion, Early, Computing, Service,
           Answered
  <2>3. SharedSteps
    BY <1>4, Domains
       DEF SharedSteps, EthSendFails, notCaller, nodeVars, tssVars, callVars,
           workVars, partyVars, loopVars, netVars, TypeInv, TssType, WorkInv,
           LoopInv, PartyType, NodeType, Lost
  <2> QED
    BY <2>1, <2>2, <2>3 DEF AllSteps
<1>5. CASE Route(o)
  <2>1. DataSteps
    <3>1. /\ UNCHANGED <<parties, got, round, out, offering>>
          /\ \A p \in Ops : p # o => routing'[p] = routing[p] /\ sent'[p] = sent[p]
      BY <1>5 DEF Route, workVars, partyVars, TypeInv, CallInv, CallType, NetType
    <3> QED
      BY <1>5, <3>1 DEF DataSteps
  <2>2. ControlSteps
    <3>1. /\ UNCHANGED <<worker, starter>>
          /\ caller[o] = "route" /\ caller'[o] \in {"select", "leaving"}
          /\ result[o] = "none" /\ result'[o] \in {"none", "unknown"}
          /\ \A p \in Ops : p # o => caller'[p] = caller[p] /\ result'[p] = result[p]
      BY <1>5
         DEF Route, workVars, partyVars, TypeInv, CallInv, CallType, Service,
             Answered
    <3> QED
      BY <1>5, <3>1 DEF ControlSteps
  <2>3. SharedSteps
    BY <1>5, Domains
       DEF SharedSteps, Route, nodeVars, tssVars, callVars, workVars, partyVars,
           loopVars, netVars, TypeInv, TssType, WorkInv, LoopInv, PartyType,
           NodeType, Lost
  <2> QED
    BY <2>1, <2>2, <2>3 DEF AllSteps
<1>6. CASE Finish(o)
  <2>1. DataSteps
    BY <1>6, Domains
       DEF DataSteps, Finish, notCaller, nodeVars, tssVars, callVars, workVars,
           partyVars, loopVars, netVars, TypeInv, CallInv, CallType, WorkInv,
           WorkType, PartyType, LoopInv, NetType
  <2>2. ControlSteps
    BY ZenonT(30), <1>6, Domains
       DEF ControlSteps, Finish, notCaller, nodeVars, tssVars, callVars, workVars,
           partyVars, loopVars, netVars, TypeInv, CallInv, CallType, WorkInv,
           WorkType, PartyType, Exclusion, Early, Computing, Service, Answered
  <2>3. SharedSteps
    BY <1>6, Domains
       DEF SharedSteps, Finish, notCaller, nodeVars, tssVars, callVars, workVars,
           partyVars, loopVars, netVars, TypeInv, TssType, WorkInv, LoopInv,
           PartyType, NodeType, Lost
  <2> QED
    BY <2>1, <2>2, <2>3 DEF AllSteps
<1>7. CASE Leave(o)
  <2>1. DataSteps
    BY <1>7, Domains
       DEF DataSteps, Leave, notCaller, nodeVars, tssVars, callVars, workVars,
           partyVars, loopVars, netVars, TypeInv, CallInv, CallType, WorkInv,
           WorkType, PartyType, LoopInv, NetType
  <2>2. ControlSteps
    BY <1>7, Domains
       DEF ControlSteps, Leave, notCaller, nodeVars, tssVars, callVars, workVars,
           partyVars, loopVars, netVars, TypeInv, CallInv, CallType, WorkInv,
           WorkType, PartyType, Exclusion, Early, Computing, Service, Answered
  <2>3. SharedSteps
    BY <1>7, Domains
       DEF SharedSteps, Leave, notCaller, nodeVars, tssVars, callVars, workVars,
           partyVars, loopVars, netVars, TypeInv, TssType, WorkInv, LoopInv,
           PartyType, NodeType, Lost
  <2> QED
    BY <2>1, <2>2, <2>3 DEF AllSteps
<1> QED
  BY <1>1, <1>2, <1>3, <1>4, <1>5, <1>6, <1>7 DEF CallerStep

\* A step of a worker is one of them.
LEMMA StepsWorker ==
  ASSUME TypeInv, Exclusion, Computing, Service, NEW o \in Ops, WorkerStep(o)
  PROVE  AllSteps
<1>1. CASE WorkerCheck(o)
  <2>1. DataSteps
    BY <1>1, Domains
       DEF DataSteps, WorkerCheck, notWorker, nodeVars, tssVars, callVars, workVars,
           partyVars, loopVars, netVars, TypeInv, CallInv, CallType, WorkInv,
           WorkType, PartyType, LoopInv, NetType
  <2>2. ControlSteps
    BY <1>1, Domains
       DEF ControlSteps, WorkerCheck, notWorker, nodeVars, tssVars, callVars,
           workVars, partyVars, loopVars, netVars, TypeInv, CallInv, CallType,
           WorkInv, WorkType, PartyType, Exclusion, Early, Computing, Service,
           Answered
  <2>3. SharedSteps
    BY <1>1, Domains
       DEF SharedSteps, WorkerCheck, notWorker, nodeVars, tssVars, callVars,
           workVars, partyVars, loopVars, netVars, TypeInv, TssType, WorkInv,
           LoopInv, PartyType, NodeType, Lost
  <2> QED
    BY <2>1, <2>2, <2>3 DEF AllSteps
<1>2. CASE WorkerEnter(o)
  <2>1. DataSteps
    BY <1>2, Domains
       DEF DataSteps, WorkerEnter, nodeVars, tssVars, callVars, workVars, partyVars,
           loopVars, netVars, TypeInv, CallInv, CallType, WorkInv, WorkType,
           PartyType, LoopInv, NetType
  <2>2. ControlSteps
    BY <1>2, Domains
       DEF ControlSteps, WorkerEnter, nodeVars, tssVars, callVars, workVars,
           partyVars, loopVars, netVars, TypeInv, CallInv, CallType, WorkInv,
           WorkType, PartyType, Exclusion, Early, Computing, Service, Answered
  <2>3. SharedSteps
    BY <1>2, Domains
       DEF SharedSteps, WorkerEnter, nodeVars, tssVars, callVars, workVars,
           partyVars, loopVars, netVars, TypeInv, TssType, WorkInv, LoopInv,
           PartyType, NodeType, Lost
  <2> QED
    BY <2>1, <2>2, <2>3 DEF AllSteps
<1>3. CASE WorkerDeadline(o)
  <2>1. DataSteps
    BY <1>3, Domains
       DEF DataSteps, WorkerDeadline, notWorker, nodeVars, tssVars, callVars,
           workVars, partyVars, loopVars, netVars, TypeInv, CallInv, CallType,
           WorkInv, WorkType, PartyType, LoopInv, NetType
  <2>2. ControlSteps
    BY <1>3, Domains
       DEF ControlSteps, WorkerDeadline, notWorker, nodeVars, tssVars, callVars,
           workVars, partyVars, loopVars, netVars, TypeInv, CallInv, CallType,
           WorkInv, WorkType, PartyType, Exclusion, Early, Computing, Service,
           Answered
  <2>3. SharedSteps
    BY <1>3, Domains
       DEF SharedSteps, WorkerDeadline, notWorker, nodeVars, tssVars, callVars,
           workVars, partyVars, loopVars, netVars, TypeInv, TssType, WorkInv,
           LoopInv, PartyType, NodeType, Lost
  <2> QED
    BY <2>1, <2>2, <2>3 DEF AllSteps
<1>4. CASE WorkerTakesError(o)
  <2>1. DataSteps
    BY <1>4, Domains
       DEF DataSteps, WorkerTakesError, nodeVars, tssVars, callVars, workVars,
           partyVars, loopVars, netVars, TypeInv, CallInv, CallType, WorkInv,
           WorkType, PartyType, LoopInv, NetType
  <2>2. ControlSteps
    BY <1>4, Domains
       DEF ControlSteps, WorkerTakesError, nodeVars, tssVars, callVars, workVars,
           partyVars, loopVars, netVars, TypeInv, CallInv, CallType, WorkInv,
           WorkType, PartyType, Exclusion, Early, Computing, Service, Answered
  <2>3. SharedSteps
    BY <1>4, Domains
       DEF SharedSteps, WorkerTakesError, nodeVars, tssVars, callVars, workVars,
           partyVars, loopVars, netVars, TypeInv, TssType, WorkInv, LoopInv,
           PartyType, NodeType, Lost
  <2> QED
    BY <2>1, <2>2, <2>3 DEF AllSteps
<1>5. CASE WorkerTakesOut(o)
  <2>1. DataSteps
    BY ZenonT(30), <1>5, Domains
       DEF DataSteps, WorkerTakesOut, nodeVars, tssVars, callVars, workVars,
           partyVars, loopVars, netVars, TypeInv, CallInv, CallType, WorkInv,
           WorkType, PartyType, LoopInv, NetType
  <2>2. ControlSteps
    BY <1>5, Domains
       DEF ControlSteps, WorkerTakesOut, nodeVars, tssVars, callVars, workVars,
           partyVars, loopVars, netVars, TypeInv, CallInv, CallType, WorkInv,
           WorkType, PartyType, Exclusion, Early, Computing, Service, Answered
  <2>3. SharedSteps
    BY <1>5, Domains
       DEF SharedSteps, WorkerTakesOut, nodeVars, tssVars, callVars, workVars,
           partyVars, loopVars, netVars, TypeInv, TssType, WorkInv, LoopInv,
           PartyType, NodeType, Lost
  <2> QED
    BY <2>1, <2>2, <2>3 DEF AllSteps
<1>6. CASE WorkerTakesEnd(o)
  <2>1. DataSteps
    BY <1>6, Domains
       DEF DataSteps, WorkerTakesEnd, nodeVars, tssVars, callVars, workVars,
           partyVars, loopVars, netVars, TypeInv, CallInv, CallType, WorkInv,
           WorkType, PartyType, LoopInv, NetType
  <2>2. ControlSteps
    BY ZenonT(30), <1>6, Domains
       DEF ControlSteps, WorkerTakesEnd, nodeVars, tssVars, callVars, workVars,
           partyVars, loopVars, netVars, TypeInv, CallInv, CallType, WorkInv,
           WorkType, PartyType, Exclusion, Early, Computing, Service, Answered
  <2>3. SharedSteps
    BY <1>6, Domains
       DEF SharedSteps, WorkerTakesEnd, nodeVars, tssVars, callVars, workVars,
           partyVars, loopVars, netVars, TypeInv, TssType, WorkInv, LoopInv,
           PartyType, NodeType, Lost
  <2> QED
    BY <2>1, <2>2, <2>3 DEF AllSteps
<1>7. CASE GiveMessage(o)
  <2>1. DataSteps
    BY <1>7, Domains
       DEF DataSteps, GiveMessage, nodeVars, tssVars, callVars, workVars, partyVars,
           loopVars, netVars, TypeInv, CallInv, CallType, WorkInv, WorkType,
           PartyType, LoopInv, NetType
  <2>2. ControlSteps
    BY ZenonT(30), <1>7, Domains
       DEF ControlSteps, GiveMessage, nodeVars, tssVars, callVars, workVars,
           partyVars, loopVars, netVars, TypeInv, CallInv, CallType, WorkInv,
           WorkType, PartyType, Exclusion, Early, Computing, Service, Answered
  <2>3. SharedSteps
    BY <1>7, Domains
       DEF SharedSteps, GiveMessage, nodeVars, tssVars, callVars, workVars,
           partyVars, loopVars, netVars, TypeInv, TssType, WorkInv, LoopInv,
           PartyType, NodeType, Lost
  <2> QED
    BY <2>1, <2>2, <2>3 DEF AllSteps
<1>8. CASE GiveError(o)
  <2>1. DataSteps
    BY <1>8, Domains
       DEF DataSteps, GiveError, nodeVars, tssVars, callVars, workVars, partyVars,
           loopVars, netVars, TypeInv, CallInv, CallType, WorkInv, WorkType,
           PartyType, LoopInv, NetType, AfterError, Errors
  <2>2. ControlSteps
    BY <1>8, Domains
       DEF ControlSteps, GiveError, nodeVars, tssVars, callVars, workVars,
           partyVars, loopVars, netVars, TypeInv, CallInv, CallType, WorkInv,
           WorkType, PartyType, Exclusion, Early, Computing, Service, Answered,
           AfterError, Errors
  <2>3. SharedSteps
    BY <1>8, Domains
       DEF SharedSteps, GiveError, nodeVars, tssVars, callVars, workVars, partyVars,
           loopVars, netVars, TypeInv, TssType, WorkInv, LoopInv, PartyType,
           NodeType, Lost, AfterError, Errors
  <2> QED
    BY <2>1, <2>2, <2>3 DEF AllSteps
<1>9. CASE GiveDone(o)
  <2>1. DataSteps
    BY <1>9, Domains
       DEF DataSteps, GiveDone, nodeVars, tssVars, callVars, workVars, partyVars,
           loopVars, netVars, TypeInv, CallInv, CallType, WorkInv, WorkType,
           PartyType, LoopInv, NetType
  <2>2. ControlSteps
    BY ZenonT(30), <1>9, Domains
       DEF ControlSteps, GiveDone, nodeVars, tssVars, callVars, workVars, partyVars,
           loopVars, netVars, TypeInv, CallInv, CallType, WorkInv, WorkType,
           PartyType, Exclusion, Early, Computing, Service, Answered
  <2>3. SharedSteps
    BY <1>9, Domains
       DEF SharedSteps, GiveDone, nodeVars, tssVars, callVars, workVars, partyVars,
           loopVars, netVars, TypeInv, TssType, WorkInv, LoopInv, PartyType,
           NodeType, Lost
  <2> QED
    BY <2>1, <2>2, <2>3 DEF AllSteps
<1>10. CASE WorkerDrained(o)
  <2>1. DataSteps
    BY <1>10, Domains
       DEF DataSteps, WorkerDrained, notWorker, nodeVars, tssVars, callVars,
           workVars, partyVars, loopVars, netVars, TypeInv, CallInv, CallType,
           WorkInv, WorkType, PartyType, LoopInv, NetType
  <2>2. ControlSteps
    BY <1>10, Domains
       DEF ControlSteps, WorkerDrained, notWorker, nodeVars, tssVars, callVars,
           workVars, partyVars, loopVars, netVars, TypeInv, CallInv, CallType,
           WorkInv, WorkType, PartyType, Exclusion, Early, Computing, Service,
           Answered
  <2>3. SharedSteps
    BY <1>10, Domains
       DEF SharedSteps, WorkerDrained, notWorker, nodeVars, tssVars, callVars,
           workVars, partyVars, loopVars, netVars, TypeInv, TssType, WorkInv,
           LoopInv, PartyType, NodeType, Lost
  <2> QED
    BY <2>1, <2>2, <2>3 DEF AllSteps
<1>11. CASE WorkerReset(o)
  <2>1. DataSteps
    BY <1>11, Domains
       DEF DataSteps, WorkerReset, notWorker, nodeVars, tssVars, callVars, workVars,
           partyVars, loopVars, netVars, TypeInv, CallInv, CallType, WorkInv,
           WorkType, PartyType, LoopInv, NetType
  <2>2. ControlSteps
    BY <1>11, Domains
       DEF ControlSteps, WorkerReset, notWorker, nodeVars, tssVars, callVars,
           workVars, partyVars, loopVars, netVars, TypeInv, CallInv, CallType,
           WorkInv, WorkType, PartyType, Exclusion, Early, Computing, Service,
           Answered
  <2>3. SharedSteps
    BY <1>11, Domains
       DEF SharedSteps, WorkerReset, notWorker, nodeVars, tssVars, callVars,
           workVars, partyVars, loopVars, netVars, TypeInv, TssType, WorkInv,
           LoopInv, PartyType, NodeType, Lost
  <2> QED
    BY <2>1, <2>2, <2>3 DEF AllSteps
<1>12. CASE WorkerClear(o)
  <2>1. DataSteps
    BY <1>12, Domains
       DEF DataSteps, WorkerClear, notWorker, nodeVars, tssVars, callVars, workVars,
           partyVars, loopVars, netVars, TypeInv, CallInv, CallType, WorkInv,
           WorkType, PartyType, LoopInv, NetType
  <2>2. ControlSteps
    BY <1>12, Domains
       DEF ControlSteps, WorkerClear, notWorker, nodeVars, tssVars, callVars,
           workVars, partyVars, loopVars, netVars, TypeInv, CallInv, CallType,
           WorkInv, WorkType, PartyType, Exclusion, Early, Computing, Service,
           Answered
  <2>3. SharedSteps
    BY <1>12, Domains
       DEF SharedSteps, WorkerClear, notWorker, nodeVars, tssVars, callVars,
           workVars, partyVars, loopVars, netVars, TypeInv, TssType, WorkInv,
           LoopInv, PartyType, NodeType, Lost
  <2> QED
    BY <2>1, <2>2, <2>3 DEF AllSteps
<1> QED
  BY <1>1, <1>2, <1>3, <1>4, <1>5, <1>6, <1>7, <1>8, <1>9, <1>10, <1>11, <1>12
     DEF WorkerStep

\* So is a step of a starter.
LEMMA StepsParty ==
  ASSUME TypeInv, Exclusion, Computing, Service, NEW o \in Ops, PartyStep(o)
  PROVE  AllSteps
<1>1. CASE StartParty(o)
  <2>1. DataSteps
    BY ZenonT(30), <1>1, Domains
       DEF DataSteps, StartParty, notParty, nodeVars, tssVars, callVars, workVars,
           partyVars, loopVars, netVars, TypeInv, CallInv, CallType, WorkInv,
           WorkType, PartyType, LoopInv, NetType
  <2>2. ControlSteps
    BY <1>1, Domains
       DEF ControlSteps, StartParty, notParty, nodeVars, tssVars, callVars,
           workVars, partyVars, loopVars, netVars, TypeInv, CallInv, CallType,
           WorkInv, WorkType, PartyType, Exclusion, Early, Computing, Service,
           Answered
  <2>3. SharedSteps
    BY <1>1, Domains
       DEF SharedSteps, StartParty, notParty, nodeVars, tssVars, callVars, workVars,
           partyVars, loopVars, netVars, TypeInv, TssType, WorkInv, LoopInv,
           PartyType, NodeType, Lost
  <2> QED
    BY <2>1, <2>2, <2>3 DEF AllSteps
<1>2. CASE StartFails(o)
  <2>1. DataSteps
    BY <1>2, Domains
       DEF DataSteps, StartFails, notParty, nodeVars, tssVars, callVars, workVars,
           partyVars, loopVars, netVars, TypeInv, CallInv, CallType, WorkInv,
           WorkType, PartyType, LoopInv, NetType
  <2>2. ControlSteps
    BY <1>2, Domains
       DEF ControlSteps, StartFails, notParty, nodeVars, tssVars, callVars,
           workVars, partyVars, loopVars, netVars, TypeInv, CallInv, CallType,
           WorkInv, WorkType, PartyType, Exclusion, Early, Computing, Service,
           Answered
  <2>3. SharedSteps
    BY <1>2, Domains
       DEF SharedSteps, StartFails, notParty, nodeVars, tssVars, callVars, workVars,
           partyVars, loopVars, netVars, TypeInv, TssType, WorkInv, LoopInv,
           PartyType, NodeType, Lost
  <2> QED
    BY <2>1, <2>2, <2>3 DEF AllSteps
<1>3. CASE StartReturns(o)
  <2>1. DataSteps
    BY <1>3, Domains
       DEF DataSteps, StartReturns, notParty, nodeVars, tssVars, callVars, workVars,
           partyVars, loopVars, netVars, TypeInv, CallInv, CallType, WorkInv,
           WorkType, PartyType, LoopInv, NetType
  <2>2. ControlSteps
    BY <1>3, Domains
       DEF ControlSteps, StartReturns, notParty, nodeVars, tssVars, callVars,
           workVars, partyVars, loopVars, netVars, TypeInv, CallInv, CallType,
           WorkInv, WorkType, PartyType, Exclusion, Early, Computing, Service,
           Answered
  <2>3. SharedSteps
    BY <1>3, Domains
       DEF SharedSteps, StartReturns, notParty, nodeVars, tssVars, callVars,
           workVars, partyVars, loopVars, netVars, TypeInv, TssType, WorkInv,
           LoopInv, PartyType, NodeType, Lost
  <2> QED
    BY <2>1, <2>2, <2>3 DEF AllSteps
<1> QED
  BY <1>1, <1>2, <1>3 DEF PartyStep

\* So is what the event loop does with a message.
LEMMA StepsHandle ==
  ASSUME TypeInv, Exclusion, Computing, Service, LoopHandles
  PROVE  AllSteps
<1>1. CASE PartyReady
  <2>1. DataSteps
    BY <1>1, Domains
       DEF DataSteps, PartyReady, notLoop, nodeVars, tssVars, callVars, workVars,
           partyVars, loopVars, netVars, TypeInv, CallInv, CallType, WorkInv,
           WorkType, PartyType, LoopInv, NetType
  <2>2. ControlSteps
    BY <1>1, Domains
       DEF ControlSteps, PartyReady, notLoop, nodeVars, tssVars, callVars, workVars,
           partyVars, loopVars, netVars, TypeInv, CallInv, CallType, WorkInv,
           WorkType, PartyType, Exclusion, Early, Computing, Service, Answered
  <2>3. SharedSteps
    BY <1>1, Domains
       DEF SharedSteps, PartyReady, notLoop, nodeVars, tssVars, callVars, workVars,
           partyVars, loopVars, netVars, TypeInv, TssType, WorkInv, LoopInv,
           PartyType, NodeType, Lost
  <2> QED
    BY <2>1, <2>2, <2>3 DEF AllSteps
<1>2. CASE GiveUp
  <2>1. DataSteps
    BY <1>2, Domains
       DEF DataSteps, GiveUp, notLoop, nodeVars, tssVars, callVars, workVars,
           partyVars, loopVars, netVars, TypeInv, CallInv, CallType, WorkInv,
           WorkType, PartyType, LoopInv, NetType
  <2>2. ControlSteps
    BY <1>2, Domains
       DEF ControlSteps, GiveUp, notLoop, nodeVars, tssVars, callVars, workVars,
           partyVars, loopVars, netVars, TypeInv, CallInv, CallType, WorkInv,
           WorkType, PartyType, Exclusion, Early, Computing, Service, Answered
  <2>3. SharedSteps
    BY <1>2, Domains
       DEF SharedSteps, GiveUp, notLoop, nodeVars, tssVars, callVars, workVars,
           partyVars, loopVars, netVars, TypeInv, TssType, WorkInv, LoopInv,
           PartyType, NodeType, Lost
  <2> QED
    BY <2>1, <2>2, <2>3 DEF AllSteps
<1>3. CASE CallUpdate
  <2>1. DataSteps
    BY <1>3, Domains
       DEF DataSteps, CallUpdate, notLoop, nodeVars, tssVars, callVars, workVars,
           partyVars, loopVars, netVars, TypeInv, CallInv, CallType, WorkInv,
           WorkType, PartyType, LoopInv, NetType
  <2>2. ControlSteps
    BY <1>3, Domains
       DEF ControlSteps, CallUpdate, notLoop, nodeVars, tssVars, callVars, workVars,
           partyVars, loopVars, netVars, TypeInv, CallInv, CallType, WorkInv,
           WorkType, PartyType, Exclusion, Early, Computing, Service, Answered
  <2>3. SharedSteps
    BY <1>3, Domains
       DEF SharedSteps, CallUpdate, notLoop, nodeVars, tssVars, callVars, workVars,
           partyVars, loopVars, netVars, TypeInv, TssType, WorkInv, LoopInv,
           PartyType, NodeType, Lost
  <2> QED
    BY <2>1, <2>2, <2>3 DEF AllSteps
<1>4. CASE Update
  <2>1. DataSteps
    BY <1>4, Domains
       DEF DataSteps, Update, notLoop, nodeVars, tssVars, callVars, workVars,
           partyVars, loopVars, netVars, TypeInv, CallInv, CallType, WorkInv,
           WorkType, PartyType, LoopInv, NetType
  <2>2. ControlSteps
    BY <1>4, Domains
       DEF ControlSteps, Update, notLoop, nodeVars, tssVars, callVars, workVars,
           partyVars, loopVars, netVars, TypeInv, CallInv, CallType, WorkInv,
           WorkType, PartyType, Exclusion, Early, Computing, Service, Answered
  <2>3. SharedSteps
    BY <1>4, Domains
       DEF SharedSteps, Update, notLoop, nodeVars, tssVars, callVars, workVars,
           partyVars, loopVars, netVars, TypeInv, TssType, WorkInv, LoopInv,
           PartyType, NodeType, Lost
  <2> QED
    BY <2>1, <2>2, <2>3 DEF AllSteps
<1>5. CASE Step
  <2>1. DataSteps
    BY <1>5, Domains
       DEF DataSteps, Step, notLoop, nodeVars, tssVars, callVars, workVars,
           partyVars, loopVars, netVars, TypeInv, CallInv, CallType, WorkInv,
           WorkType, PartyType, LoopInv, NetType
  <2>2. ControlSteps
    BY <1>5, Domains
       DEF ControlSteps, Step, notLoop, nodeVars, tssVars, callVars, workVars,
           partyVars, loopVars, netVars, TypeInv, CallInv, CallType, WorkInv,
           WorkType, PartyType, Exclusion, Early, Computing, Service, Answered
  <2>3. SharedSteps
    BY <1>5, Domains
       DEF SharedSteps, Step, notLoop, nodeVars, tssVars, callVars, workVars,
           partyVars, loopVars, netVars, TypeInv, TssType, WorkInv, LoopInv,
           PartyType, NodeType, Lost
  <2> QED
    BY <2>1, <2>2, <2>3 DEF AllSteps
<1>6. CASE StepSent
  <2>1. DataSteps
    BY <1>6, Domains
       DEF DataSteps, StepSent, notLoop, nodeVars, tssVars, callVars, workVars,
           partyVars, loopVars, netVars, TypeInv, CallInv, CallType, WorkInv,
           WorkType, PartyType, LoopInv, NetType
  <2>2. ControlSteps
    BY <1>6, Domains
       DEF ControlSteps, StepSent, notLoop, nodeVars, tssVars, callVars, workVars,
           partyVars, loopVars, netVars, TypeInv, CallInv, CallType, WorkInv,
           WorkType, PartyType, Exclusion, Early, Computing, Service, Answered
  <2>3. SharedSteps
    BY <1>6, Domains
       DEF SharedSteps, StepSent, notLoop, nodeVars, tssVars, callVars, workVars,
           partyVars, loopVars, netVars, TypeInv, TssType, WorkInv, LoopInv,
           PartyType, NodeType, Lost
  <2> QED
    BY <2>1, <2>2, <2>3 DEF AllSteps
<1>7. CASE UpdateReturns
  <2>1. DataSteps
    BY <1>7, Domains
       DEF DataSteps, UpdateReturns, notLoop, nodeVars, tssVars, callVars, workVars,
           partyVars, loopVars, netVars, TypeInv, CallInv, CallType, WorkInv,
           WorkType, PartyType, LoopInv, NetType
  <2>2. ControlSteps
    BY <1>7, Domains
       DEF ControlSteps, UpdateReturns, notLoop, nodeVars, tssVars, callVars,
           workVars, partyVars, loopVars, netVars, TypeInv, CallInv, CallType,
           WorkInv, WorkType, PartyType, Exclusion, Early, Computing, Service,
           Answered
  <2>3. SharedSteps
    BY <1>7, Domains
       DEF SharedSteps, UpdateReturns, notLoop, nodeVars, tssVars, callVars,
           workVars, partyVars, loopVars, netVars, TypeInv, TssType, WorkInv,
           LoopInv, PartyType, NodeType, Lost
  <2> QED
    BY <2>1, <2>2, <2>3 DEF AllSteps
<1> QED
  BY <1>1, <1>2, <1>3, <1>4, <1>5, <1>6, <1>7 DEF LoopHandles

\* So is what the event loop receives.
LEMMA StepsReceive ==
  ASSUME TypeInv, Exclusion, Computing, Service, LoopReceives
  PROVE  AllSteps
<1>1. CASE TakeUpdate
  <2>1. DataSteps
    BY <1>1, Domains
       DEF DataSteps, TakeUpdate, notLoop, nodeVars, tssVars, callVars, workVars,
           partyVars, loopVars, netVars, TypeInv, CallInv, CallType, WorkInv,
           WorkType, PartyType, LoopInv, NetType
  <2>2. ControlSteps
    BY <1>1, Domains
       DEF ControlSteps, TakeUpdate, notLoop, nodeVars, tssVars, callVars, workVars,
           partyVars, loopVars, netVars, TypeInv, CallInv, CallType, WorkInv,
           WorkType, PartyType, Exclusion, Early, Computing, Service, Answered
  <2>3. SharedSteps
    BY <1>1, Domains
       DEF SharedSteps, TakeUpdate, notLoop, nodeVars, tssVars, callVars, workVars,
           partyVars, loopVars, netVars, TypeInv, TssType, WorkInv, LoopInv,
           PartyType, NodeType, Lost
  <2> QED
    BY <2>1, <2>2, <2>3 DEF AllSteps
<1>2. CASE DeletePeer
  <2>1. DataSteps
    BY <1>2, Domains
       DEF DataSteps, DeletePeer, notCaller, nodeVars, tssVars, callVars, workVars,
           partyVars, loopVars, netVars, TypeInv, CallInv, CallType, WorkInv,
           WorkType, PartyType, LoopInv, NetType
  <2>2. ControlSteps
    BY <1>2, Domains
       DEF ControlSteps, DeletePeer, notCaller, nodeVars, tssVars, callVars,
           workVars, partyVars, loopVars, netVars, TypeInv, CallInv, CallType,
           WorkInv, WorkType, PartyType, Exclusion, Early, Computing, Service,
           Answered
  <2>3. SharedSteps
    BY <1>2, Domains
       DEF SharedSteps, DeletePeer, notCaller, nodeVars, tssVars, callVars,
           workVars, partyVars, loopVars, netVars, TypeInv, TssType, WorkInv,
           LoopInv, PartyType, NodeType, Lost
  <2> QED
    BY <2>1, <2>2, <2>3 DEF AllSteps
<1>3. CASE Quit
  <2>1. DataSteps
    BY <1>3, Domains
       DEF DataSteps, Quit, nodeVars, tssVars, callVars, workVars, partyVars,
           loopVars, netVars, TypeInv, CallInv, CallType, WorkInv, WorkType,
           PartyType, LoopInv, NetType
  <2>2. ControlSteps
    BY <1>3, Domains
       DEF ControlSteps, Quit, nodeVars, tssVars, callVars, workVars, partyVars,
           loopVars, netVars, TypeInv, CallInv, CallType, WorkInv, WorkType,
           PartyType, Exclusion, Early, Computing, Service, Answered
  <2>3. SharedSteps
    BY <1>3, Domains
       DEF SharedSteps, Quit, nodeVars, tssVars, callVars, workVars, partyVars,
           loopVars, netVars, TypeInv, TssType, WorkInv, LoopInv, PartyType,
           NodeType, Lost
  <2> QED
    BY <2>1, <2>2, <2>3 DEF AllSteps
<1>4. ASSUME NEW o \in Ops, HandleStart(o)
      PROVE  AllSteps
  <2>1. DataSteps
    BY <1>4, Domains
       DEF DataSteps, HandleStart, Admit, notAdmit, notCaller, nodeVars, tssVars,
           callVars, workVars, partyVars, loopVars, netVars, TypeInv, CallInv,
           CallType, WorkInv, WorkType, PartyType, LoopInv, NetType
  <2>2. ControlSteps
    BY <1>4, Domains
       DEF ControlSteps, HandleStart, Admit, notAdmit, notCaller, nodeVars, tssVars,
           callVars, workVars, partyVars, loopVars, netVars, TypeInv, CallInv,
           CallType, WorkInv, WorkType, PartyType, Exclusion, Early, Computing,
           Service, Answered
  <2>3. SharedSteps
    BY <1>4, Domains
       DEF SharedSteps, HandleStart, Admit, notAdmit, notCaller, nodeVars, tssVars,
           callVars, workVars, partyVars, loopVars, netVars, TypeInv, TssType,
           WorkInv, LoopInv, PartyType, NodeType, Lost
  <2> QED
    BY <2>1, <2>2, <2>3 DEF AllSteps
<1> QED
  BY <1>1, <1>2, <1>3, <1>4 DEF LoopReceives

\* So is a step of Close and of the other nodes.
LEMMA StepsOthers ==
  ASSUME TypeInv, Exclusion, Computing, Service, Close \/ Environment
  PROVE  AllSteps
<1>1. CASE CloseCall
  <2>1. DataSteps
    BY <1>1, Domains
       DEF DataSteps, CloseCall, notNet, nodeVars, tssVars, callVars, workVars,
           partyVars, loopVars, netVars, TypeInv, CallInv, CallType, WorkInv,
           WorkType, PartyType, LoopInv, NetType
  <2>2. ControlSteps
    BY <1>1, Domains
       DEF ControlSteps, CloseCall, notNet, nodeVars, tssVars, callVars, workVars,
           partyVars, loopVars, netVars, TypeInv, CallInv, CallType, WorkInv,
           WorkType, PartyType, Exclusion, Early, Computing, Service, Answered
  <2>3. SharedSteps
    BY <1>1, Domains
       DEF SharedSteps, CloseCall, notNet, nodeVars, tssVars, callVars, workVars,
           partyVars, loopVars, netVars, TypeInv, TssType, WorkInv, LoopInv,
           PartyType, NodeType, Lost
  <2> QED
    BY <2>1, <2>2, <2>3 DEF AllSteps
<1>2. CASE CloseReturns
  <2>1. DataSteps
    BY <1>2, Domains
       DEF DataSteps, CloseReturns, nodeVars, tssVars, callVars, workVars,
           partyVars, loopVars, netVars, TypeInv, CallInv, CallType, WorkInv,
           WorkType, PartyType, LoopInv, NetType
  <2>2. ControlSteps
    BY <1>2, Domains
       DEF ControlSteps, CloseReturns, nodeVars, tssVars, callVars, workVars,
           partyVars, loopVars, netVars, TypeInv, CallInv, CallType, WorkInv,
           WorkType, PartyType, Exclusion, Early, Computing, Service, Answered
  <2>3. SharedSteps
    BY <1>2, Domains
       DEF SharedSteps, CloseReturns, nodeVars, tssVars, callVars, workVars,
           partyVars, loopVars, netVars, TypeInv, TssType, WorkInv, LoopInv,
           PartyType, NodeType, Lost
  <2> QED
    BY <2>1, <2>2, <2>3 DEF AllSteps
<1>3. CASE PeerFails
  <2>1. DataSteps
    BY <1>3, Domains
       DEF DataSteps, PeerFails, notNet, nodeVars, tssVars, callVars, workVars,
           partyVars, loopVars, netVars, TypeInv, CallInv, CallType, WorkInv,
           WorkType, PartyType, LoopInv, NetType
  <2>2. ControlSteps
    BY <1>3, Domains
       DEF ControlSteps, PeerFails, notNet, nodeVars, tssVars, callVars, workVars,
           partyVars, loopVars, netVars, TypeInv, CallInv, CallType, WorkInv,
           WorkType, PartyType, Exclusion, Early, Computing, Service, Answered
  <2>3. SharedSteps
    BY <1>3, Domains
       DEF SharedSteps, PeerFails, notNet, nodeVars, tssVars, callVars, workVars,
           partyVars, loopVars, netVars, TypeInv, TssType, WorkInv, LoopInv,
           PartyType, NodeType, Lost
  <2> QED
    BY <2>1, <2>2, <2>3 DEF AllSteps
<1>4. ASSUME NEW o \in Ops, Call(o)
      PROVE  AllSteps
  <2>1. DataSteps
    BY <1>4, Domains
       DEF DataSteps, Call, Admit, notAdmit, notCaller, nodeVars, tssVars, callVars,
           workVars, partyVars, loopVars, netVars, TypeInv, CallInv, CallType,
           WorkInv, WorkType, PartyType, LoopInv, NetType
  <2>2. ControlSteps
    BY <1>4, Domains
       DEF ControlSteps, Call, Admit, notAdmit, notCaller, nodeVars, tssVars,
           callVars, workVars, partyVars, loopVars, netVars, TypeInv, CallInv,
           CallType, WorkInv, WorkType, PartyType, Exclusion, Early, Computing,
           Service, Answered
  <2>3. SharedSteps
    BY <1>4, Domains
       DEF SharedSteps, Call, Admit, notAdmit, notCaller, nodeVars, tssVars,
           callVars, workVars, partyVars, loopVars, netVars, TypeInv, TssType,
           WorkInv, LoopInv, PartyType, NodeType, Lost
  <2> QED
    BY <2>1, <2>2, <2>3 DEF AllSteps
<1>5. ASSUME NEW o \in Ops, CallRefused(o)
      PROVE  AllSteps
  <2>1. DataSteps
    BY <1>5, Domains
       DEF DataSteps, CallRefused, notCaller, nodeVars, tssVars, callVars, workVars,
           partyVars, loopVars, netVars, TypeInv, CallInv, CallType, WorkInv,
           WorkType, PartyType, LoopInv, NetType
  <2>2. ControlSteps
    BY <1>5, Domains
       DEF ControlSteps, CallRefused, notCaller, nodeVars, tssVars, callVars,
           workVars, partyVars, loopVars, netVars, TypeInv, CallInv, CallType,
           WorkInv, WorkType, PartyType, Exclusion, Early, Computing, Service,
           Answered
  <2>3. SharedSteps
    BY <1>5, Domains
       DEF SharedSteps, CallRefused, notCaller, nodeVars, tssVars, callVars,
           workVars, partyVars, loopVars, netVars, TypeInv, TssType, WorkInv,
           LoopInv, PartyType, NodeType, Lost
  <2> QED
    BY <2>1, <2>2, <2>3 DEF AllSteps
<1>6. ASSUME NEW o \in Ops, RemoteStart(o)
      PROVE  AllSteps
  <2>1. DataSteps
    BY <1>6, Domains
       DEF DataSteps, RemoteStart, notCaller, nodeVars, tssVars, callVars, workVars,
           partyVars, loopVars, netVars, TypeInv, CallInv, CallType, WorkInv,
           WorkType, PartyType, LoopInv, NetType
  <2>2. ControlSteps
    <3>1. /\ UNCHANGED <<result, worker, starter>>
          /\ caller[o] = "idle" /\ caller'[o] = "offered"
          /\ \A p \in Ops : p # o => caller'[p] = caller[p]
      BY <1>6
         DEF RemoteStart, notCaller, workVars, partyVars, TypeInv, CallInv, CallType
    <3> QED
      BY <1>6, <3>1 DEF ControlSteps
  <2>3. SharedSteps
    BY <1>6, Domains
       DEF SharedSteps, RemoteStart, notCaller, nodeVars, tssVars, callVars,
           workVars, partyVars, loopVars, netVars, TypeInv, TssType, WorkInv,
           LoopInv, PartyType, NodeType, Lost
  <2> QED
    BY <2>1, <2>2, <2>3 DEF AllSteps
<1>7. ASSUME NEW o \in Ops, PeerSends(o)
      PROVE  AllSteps
  <2>1. DataSteps
    BY <1>7, Domains
       DEF DataSteps, PeerSends, notNet, nodeVars, tssVars, callVars, workVars,
           partyVars, loopVars, netVars, TypeInv, CallInv, CallType, WorkInv,
           WorkType, PartyType, LoopInv, NetType
  <2>2. ControlSteps
    BY <1>7, Domains
       DEF ControlSteps, PeerSends, notNet, nodeVars, tssVars, callVars, workVars,
           partyVars, loopVars, netVars, TypeInv, CallInv, CallType, WorkInv,
           WorkType, PartyType, Exclusion, Early, Computing, Service, Answered
  <2>3. SharedSteps
    BY <1>7, Domains
       DEF SharedSteps, PeerSends, notNet, nodeVars, tssVars, callVars, workVars,
           partyVars, loopVars, netVars, TypeInv, TssType, WorkInv, LoopInv,
           PartyType, NodeType, Lost
  <2> QED
    BY <2>1, <2>2, <2>3 DEF AllSteps
<1>8. ASSUME NEW o \in Ops, Expire(o)
      PROVE  AllSteps
  <2>1. DataSteps
    BY <1>8, Domains
       DEF DataSteps, Expire, notNet, nodeVars, tssVars, callVars, workVars,
           partyVars, loopVars, netVars, TypeInv, CallInv, CallType, WorkInv,
           WorkType, PartyType, LoopInv, NetType
  <2>2. ControlSteps
    BY <1>8, Domains
       DEF ControlSteps, Expire, notNet, nodeVars, tssVars, callVars, workVars,
           partyVars, loopVars, netVars, TypeInv, CallInv, CallType, WorkInv,
           WorkType, PartyType, Exclusion, Early, Computing, Service, Answered
  <2>3. SharedSteps
    BY <1>8, Domains
       DEF SharedSteps, Expire, notNet, nodeVars, tssVars, callVars, workVars,
           partyVars, loopVars, netVars, TypeInv, TssType, WorkInv, LoopInv,
           PartyType, NodeType, Lost
  <2> QED
    BY <2>1, <2>2, <2>3 DEF AllSteps
<1>9. CASE ReshareUpdates
  <2>1. DataSteps
    BY <1>9, Domains
       DEF DataSteps, ReshareUpdates, notNet, nodeVars, tssVars, callVars, workVars,
           partyVars, loopVars, netVars, TypeInv, CallInv, CallType, WorkInv,
           WorkType, PartyType, LoopInv, NetType
  <2>2. ControlSteps
    BY <1>9, Domains
       DEF ControlSteps, ReshareUpdates, notNet, nodeVars, tssVars, callVars,
           workVars, partyVars, loopVars, netVars, TypeInv, CallInv, CallType,
           WorkInv, WorkType, PartyType, Exclusion, Early, Computing, Service,
           Answered
  <2>3. SharedSteps
    BY <1>9, Domains
       DEF SharedSteps, ReshareUpdates, notNet, nodeVars, tssVars, callVars,
           workVars, partyVars, loopVars, netVars, TypeInv, TssType, WorkInv,
           LoopInv, PartyType, NodeType, Lost
  <2> QED
    BY <2>1, <2>2, <2>3 DEF AllSteps
<1> QED
  BY <1>1, <1>2, <1>3, <1>4, <1>5, <1>6, <1>7, <1>8, <1>9 DEF Close, Environment

\* Every step is one of them.
LEMMA Steps ==
  ASSUME TypeInv, Exclusion, Computing, Service, [Next]_vars
  PROVE  AllSteps
<1>1. CASE UNCHANGED vars
  <2>1. DataSteps
    BY <1>1 DEF vars, callVars, workVars, partyVars, netVars, DataSteps
  <2>2. ControlSteps
    BY <1>1 DEF vars, callVars, workVars, partyVars, ControlSteps
  <2>3. SharedSteps
    BY <1>1 DEF vars, nodeVars, tssVars, loopVars, netVars, SharedSteps, Lost
  <2> QED
    BY <2>1, <2>2, <2>3 DEF AllSteps
<1> QED
  BY <1>1, StepsCaller, StepsWorker, StepsParty, StepsHandle, StepsReceive,
     StepsOthers
     DEF Next

\* An operation that has made a key or a signature, whose caller does not know it yet
\* or has returned it.
Ended(o) == worker[o] = "done" \/ caller[o] = "finish" \/ result[o] = "ok"

\* An operation ends when its worker takes the end of the party.
LEMMA EndedSteps ==
  ASSUME AllSteps, NEW o \in Ops, Ended(o)'
  PROVE  Ended(o) \/ WorkerTakesEnd(o)
BY DEF AllSteps, ControlSteps, Ended, GiveDone, Finish

\* The parties of an operation do not change once it has begun.
LEMMA PartiesKept ==
  ASSUME TypeInv, Exclusion, Computing, AllSteps, NEW o \in Ops, parties'[o] # parties[o]
  PROVE  /\ caller[o] \in {"idle", "admitted"} /\ worker[o] = "none" /\ result[o] = "none"
         /\ caller[o] = "idle" => RemoteStart(o)
         /\ starter[o] = "none" /\ round[o] = 0 /\ UNCHANGED <<round, got, on, loop, handling>>
         /\ ~Ended(o) /\ ~Ended(o)'
<1>1. RemoteStart(o) \/ EnterKeyGen(o) \/ EnterSign(o)
  BY DEF AllSteps, DataSteps
<1>2. caller[o] \in {"idle", "admitted"} /\ (caller[o] = "idle" => RemoteStart(o))
      /\ UNCHANGED <<round, got, on, loop, handling>>
  BY <1>1 DEF RemoteStart, EnterKeyGen, EnterSign, notCaller, partyVars, loopVars
<1>3. worker[o] = "none" /\ result[o] = "none"
  BY <1>2 DEF Exclusion, Early
<1>4. starter[o] = "none" /\ round[o] = 0
  BY <1>3 DEF Computing
<1>5. ~Ended(o)
  BY <1>2, <1>3 DEF Ended
<1>6. ~WorkerTakesEnd(o)
  BY <1>3 DEF WorkerTakesEnd
<1>7. ~Ended(o)'
  BY <1>5, <1>6, EndedSteps
<1> QED
  BY <1>2, <1>3, <1>4, <1>5, <1>7

-----------------------------------------------------------------------------
(* What a party has received when it ends.                                   *)

\* The message that Update stores is the one that the event loop handles.
LEMMA GotChanges ==
  ASSUME TypeInv, AllSteps, NEW o \in Ops, NEW p \in Peers, NEW r \in Rounds,
         got'[o][<<p, r>>] # got[o][<<p, r>>]
  PROVE  /\ Update /\ on = o /\ handling.from = p /\ handling.round = r /\ loop = "lock"
         /\ got'[o][<<p, r>>] = handling.op /\ handling \in Messages
<1>1. Update /\ on = o /\ loop = "lock" /\ handling \in Messages
  BY DEF AllSteps, DataSteps, Update, TypeInv, LoopInv
<1>2. got' = [got EXCEPT ![on][<<handling.from, handling.round>>] = handling.op]
  BY <1>1 DEF Update
<1>3. /\ got[o] \in [Peers \X Rounds -> Ops \cup {NoOp}]
      /\ got \in [Ops -> [Peers \X Rounds -> Ops \cup {NoOp}]]
  BY DEF TypeInv, PartyType
<1>4. got'[o] = [got[o] EXCEPT ![<<handling.from, handling.round>>] = handling.op]
  BY <1>1, <1>2, <1>3
<1>5. <<p, r>> = <<handling.from, handling.round>>
  BY <1>3, <1>4
<1>6. got'[o][<<p, r>>] = handling.op
  BY <1>3, <1>4, <1>5
<1> QED
  BY <1>1, <1>5, <1>6

\* Every step keeps what has been received of the operations that ended.
LEMMA HearingStep ==
  ASSUME TypeInv, Exclusion, Computing, AllSteps, Hearing
  PROVE  Hearing'
<1> DEFINE Holds == {"wait", "call", "lock"}
<1>1. \A o \in Ops, p \in Peers, r \in Rounds :
        \/ got'[o][<<p, r>>] = got[o][<<p, r>>]
        \/ /\ Update /\ on = o /\ handling.from = p /\ handling.round = r /\ loop = "lock"
           /\ got'[o][<<p, r>>] = handling.op /\ handling \in Messages
  BY GotChanges
<1>2. GotTaken'
  <2>1. loop' \in Holds => handling' \in taken'
    <3>1. CASE TakeUpdate
      BY <3>1 DEF TakeUpdate
    <3>2. CASE ~TakeUpdate
      BY <3>2 DEF AllSteps, SharedSteps, Hearing, GotTaken
    <3> QED
      BY <3>1, <3>2
  <2>2. ASSUME NEW o \in Ops, NEW p \in Peers, NEW r \in Rounds, got'[o][<<p, r>>] # NoOp
        PROVE  [op |-> got'[o][<<p, r>>], from |-> p, round |-> r] \in taken'
    <3>1. taken \subseteq taken'
      BY DEF AllSteps, SharedSteps
    <3>2. CASE got'[o][<<p, r>>] = got[o][<<p, r>>]
      BY <2>2, <3>1, <3>2 DEF Hearing, GotTaken
    <3>3. CASE got'[o][<<p, r>>] # got[o][<<p, r>>]
      <4>1. handling = [op |-> got'[o][<<p, r>>], from |-> p, round |-> r] /\ handling \in taken
        BY <1>1, <3>3 DEF Messages, Hearing, GotTaken
      <4> QED
        BY <3>1, <4>1
    <3> QED
      BY <3>2, <3>3
  <2> QED
    BY <2>1, <2>2 DEF GotTaken
<1>3. \A o \in Ops, p \in Peers, r \in Rounds : got[o][<<p, r>>] # NoOp => got'[o][<<p, r>>] # NoOp
  BY <1>1, Domains DEF Messages
<1>4. RoundsHeard'
  <2> SUFFICES ASSUME NEW o \in Ops, NEW p \in Peers, NEW r \in Rounds,
                      p \in parties'[o], r < round'[o]
               PROVE  got'[o][<<p, r>>] # NoOp
    BY DEF RoundsHeard
  <2>1. r \in Nat \ {0} /\ round[o] \in Nat
    BY BoundsAssumption DEF Rounds, TypeInv, PartyType
  <2>2. parties'[o] = parties[o]
    BY <2>1, PartiesKept
  <2>3. CASE round'[o] = round[o]
    BY <1>3, <2>2, <2>3 DEF Hearing, RoundsHeard
  <2>4. CASE StartParty(o)
    <3>1. round'[o] = 1
      BY <2>4 DEF StartParty, TypeInv, PartyType
    <3> QED
      BY <2>1, <3>1
  <2>5. CASE Step /\ on = o /\ round'[o] # round[o]
    <3>1. CanProceed(o) /\ round'[o] = round[o] + 1
      BY <2>5 DEF Step, TypeInv, PartyType
    <3>2. r < round[o] \/ r = round[o]
      BY <2>1, <3>1
    <3> QED
      BY <1>3, <2>2, <3>1, <3>2 DEF Hearing, RoundsHeard, CanProceed
  <2> QED
    BY <2>3, <2>4, <2>5 DEF AllSteps, DataSteps
<1>5. loop' = "end" => Heard(on)'
  <2> SUFFICES ASSUME loop' = "end", NEW p \in parties'[on'], NEW r \in Rounds
               PROVE  [op |-> on', from |-> p, round |-> r] \in taken'
    BY DEF Heard
  <2>1. CASE Step
    <3>1. /\ CanProceed(on) /\ round[on] = LastRound /\ OwnMessages(on)
          /\ UNCHANGED <<on, parties, got, taken>> /\ on \in Ops
      BY <2>1, Domains DEF Step, notLoop, callVars, TypeInv, LoopInv
    <3>2. p \in parties[on] /\ p \in Peers
      BY <3>1 DEF TypeInv, CallInv, CallType
    <3>3. r < round[on] \/ r = round[on]
      BY <3>1, BoundsAssumption DEF Rounds
    <3>4. got[on][<<p, r>>] # NoOp
      BY <3>1, <3>2, <3>3 DEF Hearing, RoundsHeard, CanProceed
    <3>5. got[on][<<p, r>>] = on
      BY <3>1, <3>2, <3>4 DEF OwnMessages
    <3> QED
      BY <3>1, <3>2, <3>4, <3>5 DEF Hearing, GotTaken
  <2>2. CASE loop = "end" /\ on' = on
    <3>1. on \in Ops /\ round[on] = LastRound + 1
      BY <2>2, Domains DEF Computing, TypeInv, LoopInv
    <3>2. parties'[on] = parties[on]
      BY <3>1, PartiesKept, BoundsAssumption
    <3> QED
      BY <2>2, <3>2 DEF Hearing, EndHeard, Heard, AllSteps, SharedSteps
  <2> QED
    BY <2>1, <2>2 DEF AllSteps, SharedSteps
<1>6. ASSUME NEW o \in Ops, Ended(o)'
      PROVE  Heard(o)'
  <2>1. Ended(o) \/ WorkerTakesEnd(o)
    BY <1>6, EndedSteps
  <2>2. parties'[o] = parties[o]
    BY <1>6, PartiesKept
  <2>3. Heard(o)
    BY <2>1 DEF WorkerTakesEnd, Ended, Hearing, EndHeard
  <2> QED
    BY <2>2, <2>3 DEF Heard, AllSteps, SharedSteps
<1>7. EndHeard'
  BY <1>5, <1>6 DEF EndHeard, Ended
<1> QED
  BY <1>2, <1>4, <1>7 DEF Hearing

-----------------------------------------------------------------------------
(* What an operation has sent when it ends.                                  *)

\* Nothing of a message is taken back.
LEMMA SentGrows ==
  ASSUME TypeInv, AllSteps, NEW o \in Ops
  PROVE  sent[o] \subseteq sent'[o]
<1>1. CASE Route(o)
  <2>1. sent' = sent \/ \E S : sent' = [sent EXCEPT ![o] = @ \cup S]
    BY <1>1 DEF Route
  <2> QED
    BY <2>1 DEF TypeInv, NetType
<1>2. CASE ~Route(o)
  BY <1>2 DEF AllSteps, DataSteps
<1> QED
  BY <1>1, <1>2

\* A routed message is sent to each of its receivers that is a target.
LEMMA RouteSends ==
  ASSUME TypeInv, NEW o \in Ops, Route(o), caller'[o] \in {"select", "route"},
         NEW p \in Peers, NEW r \in Rounds, routing[o] \in {<<All, r>>, <<p, r>>}
  PROVE  \/ routing[o] = <<All, r>> /\ p \notin Targets(o)
         \/ <<p, r>> \in sent'[o]
<1> DEFINE to == routing[o][1]
<1> DEFINE rs == IF to = All THEN Targets(o) ELSE {to}
<1>1. caller'[o] # "leaving" /\ sent \in [Ops -> SUBSET (Peers \X Rounds)]
  BY DEF TypeInv, NetType
<1>2. sent' = [sent EXCEPT ![o] = @ \cup (rs \X {routing[o][2]})]
  BY <1>1 DEF Route, TypeInv, CallInv, CallType
<1>3. sent'[o] = sent[o] \cup (rs \X {routing[o][2]})
  BY <1>1, <1>2
<1>4. routing[o][2] = r /\ to \in {All, p}
  OBVIOUS
<1>5. CASE to = All
  <2>1. routing[o] = <<All, r>>
    BY <1>5, OpsAssumption
  <2>2. p \in Targets(o) => <<p, r>> \in sent'[o]
    BY <1>3, <1>4, <1>5
  <2> QED
    BY <2>1, <2>2
<1>6. CASE to # All
  BY <1>3, <1>4, <1>6
<1> QED
  BY <1>5, <1>6

\* A party of a running operation is lost before it is no target any more.
LEMMA TargetsStep ==
  ASSUME TypeInv, TypeInv', Exclusion, Computing, AllSteps, TargetsKept,
         overlapped => overlapped'
  PROVE  TargetsKept'
<1>1. \A p \in Peers : Lost(p) => Lost(p)'
  BY DEF AllSteps, SharedSteps
<1>2. \A p \in Peers \ peers' : Lost(p)'
  BY <1>1 DEF AllSteps, SharedSteps, TargetsKept
<1>3. ASSUME NEW o \in Ops \ KeyGens, caller'[o] \in {"select", "route"},
             NEW p \in parties'[o] \ signerPeers', p \in Peers, ~overlapped
      PROVE  Lost(p)'
  <2>1. CASE caller[o] \in {"select", "route"}
    <3>1. parties'[o] = parties[o]
      BY <2>1, PartiesKept
    <3>2. busy /\ \A q \in Ops : caller[q] # "admitted"
      BY <1>3, <2>1 DEF Inside, Exclusion, SoleProcess, OneProcess, Gate
    <3>3. signerPeers' = signerPeers
      BY <3>2 DEF AllSteps, SharedSteps
    <3> QED
      BY <1>1, <1>3, <2>1, <3>1, <3>3 DEF TargetsKept
  <2>2. CASE EnterSign(o)
    <3>1. caller'[o] # "leaving"
      BY <1>3
    <3>2. PICK S \in selectRandomlySignerPeer :
            signerPeers' = S \cap peers /\ parties' = [parties EXCEPT ![o] = S]
      BY <2>2, <3>1 DEF EnterSign, updateSignerPeers, TypeInv, CallInv, CallType
    <3>3. parties'[o] = S
      BY <3>2 DEF TypeInv, CallInv, CallType
    <3> QED
      BY <1>3, <3>2, <3>3 DEF selectRandomlySignerPeer
  <2>3. CASE JoinSign(o)
    <3>1. signerPeers' = parties[o] \cap peers /\ parties' = parties
      BY <2>3 DEF JoinSign, updateSignerPeers
    <3> QED
      BY <1>1, <1>3, <3>1 DEF TargetsKept
  <2> QED
    BY <1>3, <2>1, <2>2, <2>3 DEF AllSteps, ControlSteps, EnterKeyGen
<1>4. \A o \in Ops : parties'[o] \subseteq Peers
  BY DEF TypeInv, CallInv, CallType
<1> QED
  BY <1>2, <1>3, <1>4 DEF TargetsKept

\* What a worker or a caller passes on, it does not keep.
LEMMA EmptiedStep ==
  ASSUME TypeInv, AllSteps, Emptied
  PROVE  Emptied'
<1> SUFFICES ASSUME NEW o \in Ops
             PROVE  /\ worker'[o] # "message" => offering'[o] = NoOut
                    /\ caller'[o] # "route" => routing'[o] = NoOut
  BY DEF Emptied
<1>1. CASE WorkerTakesOut(o)
  <2>1. /\ worker[o] = "select" /\ UNCHANGED <<caller, routing>>
        /\ worker'[o] = "message" \/ UNCHANGED offering
    BY <1>1 DEF WorkerTakesOut, callVars, TypeInv, WorkInv, WorkType
  <2> QED
    BY <2>1 DEF Emptied
<1>2. CASE GiveMessage(o)
  <2>1. offering'[o] = NoOut /\ caller'[o] = "route"
    BY <1>2 DEF GiveMessage, TypeInv, WorkInv, WorkType, CallInv, CallType
  <2> QED
    BY <2>1
<1>3. CASE Route(o)
  <2>1. routing'[o] = NoOut /\ UNCHANGED <<worker, offering>>
    BY <1>3 DEF Route, workVars, TypeInv, CallInv, CallType
  <2> QED
    BY <2>1 DEF Emptied
<1> QED
  BY <1>1, <1>2, <1>3 DEF AllSteps, DataSteps, ControlSteps, Emptied

\* A message of a round moves from outCh over the worker to the caller, who sends
\* it; the next round begins when outCh has taken all of them.
LEMMA SentOrDueStep ==
  ASSUME TypeInv, TypeInv', Exclusion, Computing, AllSteps, TargetsKept, Emptied,
         SentOrDue, overlapped => overlapped'
  PROVE  SentOrDue'
<1> SUFFICES ASSUME NEW o \in Ops, NEW p \in Peers, NEW r \in Rounds,
                    caller'[o] \in {"select", "route"}, p \in parties'[o], r <= round'[o],
                    worker'[o] # "convert", ~overlapped',
                    ~Lost(p)', <<p, r>> \notin sent'[o]
             PROVE  Due(o, p, r)'
  BY DEF SentOrDue
<1>1. r \in Nat \ {0} /\ round[o] \in Nat /\ round'[o] \in Nat
  BY BoundsAssumption DEF Rounds, TypeInv, PartyType
<1>2. <<All, r>> # NoOut /\ <<p, r>> # NoOut
  BY <1>1 DEF NoOut
<1>3. ~Lost(p) /\ <<p, r>> \notin sent[o] /\ ~overlapped
  BY SentGrows DEF AllSteps, SharedSteps
<1>4. CASE caller[o] \notin {"select", "route"}
  <2>1. caller[o] = "admitted" /\ UNCHANGED round
    BY <1>4 DEF AllSteps, ControlSteps, EnterKeyGen, EnterSign, JoinSign, partyVars
  <2>2. round[o] = 0
    BY <2>1 DEF Exclusion, Early, Computing
  <2> QED
    BY <1>1, <2>1, <2>2
<1>5. CASE caller[o] \in {"select", "route"} /\ r <= round[o]
  <2>1. parties'[o] = parties[o]
    BY <1>5, PartiesKept
  <2>2. Due(o, p, r)
    <3>1. worker[o] # "convert"
      BY <1>5 DEF AllSteps, ControlSteps
    <3> QED
      BY <1>3, <1>5, <2>1, <3>1 DEF SentOrDue
  <2>3. PICK d \in {<<All, r>>, <<p, r>>} : d \in out[o] \cup {offering[o], routing[o]}
    BY <2>2 DEF Due
  <2>4. CASE d \in out[o] /\ out'[o] = out[o]
    BY <2>4 DEF Due
  <2>5. CASE d \in out[o] /\ WorkerTakesOut(o)
    <3>1. PICK m \in out[o] : /\ out' = [out EXCEPT ![o] = @ \ {m}]
                              /\ offering' = [offering EXCEPT ![o] = m]
      BY <2>5 DEF WorkerTakesOut, TypeInv, WorkInv, WorkType
    <3>2. out'[o] = out[o] \ {m} /\ offering'[o] = m
      BY <3>1 DEF TypeInv, PartyType, WorkInv, WorkType
    <3> QED
      BY <2>5, <3>2 DEF Due
  <2>6. CASE d \in out[o] /\ StartParty(o)
    <3>1. round[o] = 0
      BY <2>6 DEF StartParty, Computing
    <3> QED
      BY <1>1, <1>5, <3>1
  <2>7. CASE d \in out[o] /\ Step /\ on = o /\ out'[o] # out[o]
    <3>1. out[o] = {}
      BY <2>7 DEF Step, Computing
    <3> QED
      BY <2>7, <3>1
  <2>8. CASE d = offering[o] /\ offering'[o] = offering[o]
    BY <2>8 DEF Due
  <2>9. CASE d = offering[o] /\ WorkerTakesOut(o)
    <3>1. offering[o] = NoOut
      BY <2>9 DEF WorkerTakesOut, Emptied
    <3> QED
      BY <1>2, <2>9, <3>1
  <2>10. CASE d = offering[o] /\ GiveMessage(o)
    <3>1. routing'[o] = offering[o]
      BY <2>10 DEF GiveMessage, TypeInv, CallInv, CallType
    <3> QED
      BY <2>10, <3>1 DEF Due
  <2>11. CASE d = routing[o] /\ routing'[o] = routing[o]
    BY <2>11 DEF Due
  <2>12. CASE d = routing[o] /\ GiveMessage(o)
    <3>1. routing[o] = NoOut
      BY <2>12 DEF GiveMessage, Emptied
    <3> QED
      BY <1>2, <2>12, <3>1
  <2>13. CASE d = routing[o] /\ Route(o)
    <3>1. p \notin Targets(o) /\ caller[o] = "route"
      BY <2>13, RouteSends DEF Route
    <3>2. p \in parties[o]
      BY <2>1
    <3> QED
      BY <1>3, <3>1, <3>2 DEF Targets, TargetsKept
  <2> QED
    BY <2>3, <2>4, <2>5, <2>6, <2>7, <2>8, <2>9, <2>10, <2>11, <2>12, <2>13
       DEF AllSteps, DataSteps
<1>6. CASE caller[o] \in {"select", "route"} /\ ~(r <= round[o])
  <2>1. parties'[o] = parties[o]
    BY <1>6, PartiesKept
  <2>2. CASE StartParty(o)
    <3>1. round'[o] = 1 /\ \E ms \in RoundOuts(o, 1) : out'[o] = ms
      BY <2>2 DEF StartParty, TypeInv, PartyType
    <3>2. r = 1
      BY <1>1, <3>1
    <3>3. p \in parties[o]
      BY <2>1
    <3>4. <<All, r>> \in out'[o] \/ <<p, r>> \in out'[o]
      BY <3>1, <3>2, <3>3 DEF RoundOuts
    <3> QED
      BY <3>4 DEF Due
  <2>3. CASE Step /\ on = o
    <3>1. round'[o] = round[o] + 1
      BY <1>1, <1>6, <2>3 DEF Step, TypeInv, PartyType
    <3>2. r = round[o] + 1
      BY <1>1, <1>6, <3>1
    <3>3. round[o] # LastRound
      BY <3>2, BoundsAssumption DEF Rounds
    <3>4. \E ms \in RoundOuts(on, round[on] + 1) : out' = [out EXCEPT ![on] = ms]
      BY <1>1, <2>3, <3>1, <3>3 DEF Step
    <3>5. \E ms \in RoundOuts(o, r) : out'[o] = ms
      BY <2>3, <3>2, <3>4 DEF TypeInv, PartyType
    <3>6. p \in parties[o]
      BY <2>1
    <3>7. <<All, r>> \in out'[o] \/ <<p, r>> \in out'[o]
      BY <3>5, <3>6 DEF RoundOuts
    <3> QED
      BY <3>7 DEF Due
  <2>4. round'[o] # round[o]
    BY <1>1, <1>6
  <2> QED
    BY <2>2, <2>3, <2>4 DEF AllSteps, DataSteps
<1> QED
  BY <1>4, <1>5, <1>6

\* When the caller takes the result, nothing is left on the way.
LEMMA AllSentStep ==
  ASSUME TypeInv, TypeInv', Exclusion, Computing, Settled, AllSteps, Emptied, SentOrDue,
         AllSent, overlapped => overlapped'
  PROVE  AllSent'
<1>1. ASSUME NEW o \in Ops, worker'[o] = "done"
      PROVE  round'[o] = LastRound + 1
  <2>1. CASE worker[o] = "done"
    <3>1. starter[o] \in {"none", "done"} /\ round[o] \notin Rounds /\ round[o] = LastRound + 1
      BY <2>1 DEF Settled, Past, AllSent
    <3>2. ~StartParty(o)
      BY <3>1 DEF StartParty
    <3>3. CASE Step /\ on = o
      <4>1. ~CanProceed(o)
        BY <3>1 DEF CanProceed
      <4>2. round' = round
        BY <3>3, <4>1 DEF Step
      <4> QED
        BY <3>1, <4>2
    <3> QED
      BY <3>1, <3>2, <3>3 DEF AllSteps, DataSteps
  <2>2. CASE WorkerTakesEnd(o)
    <3>1. on = o /\ loop = "end" /\ UNCHANGED round
      BY <2>2 DEF WorkerTakesEnd, partyVars
    <3> QED
      BY <3>1 DEF Computing
  <2> QED
    BY <1>1, <2>1, <2>2 DEF AllSteps, ControlSteps
<1>2. ASSUME NEW o \in Ops, caller'[o] = "finish" \/ result'[o] = "ok",
             NEW p \in parties'[o], NEW r \in Rounds, p \in Peers, ~overlapped'
      PROVE  Lost(p)' \/ <<p, r>> \in sent'[o]
  <2>1. Ended(o)'
    BY <1>2 DEF Ended
  <2>2. parties'[o] = parties[o]
    BY <2>1, PartiesKept
  <2>3. (Lost(p) => Lost(p)') /\ sent[o] \subseteq sent'[o]
    <3>1. sent[o] \subseteq sent'[o]
      BY SentGrows
    <3>2. Lost(p) => Lost(p)'
      BY <1>2 DEF AllSteps, SharedSteps
    <3> QED
      BY <3>1, <3>2
  <2>4. CASE caller[o] = "finish" \/ result[o] = "ok"
    BY <1>2, <2>2, <2>3, <2>4 DEF AllSent
  <2>5. CASE GiveDone(o)
    <3>1. worker[o] = "done" /\ caller[o] = "select"
      BY <2>5 DEF GiveDone
    <3>2. offering[o] = NoOut /\ routing[o] = NoOut
      BY <3>1 DEF Emptied
    <3>3. out[o] = {}
      BY <3>1 DEF Settled, Past, Computing
    <3>4. r \in Nat \ {0} /\ r <= round[o]
      BY <3>1, BoundsAssumption DEF AllSent, Rounds
    <3>5. ~Due(o, p, r)
      BY <3>2, <3>3, <3>4 DEF Due, NoOut
    <3> QED
      BY <1>2, <2>2, <2>3, <3>1, <3>4, <3>5 DEF SentOrDue
  <2>6. CASE Finish(o)
    BY <2>4, <2>6 DEF Finish
  <2> QED
    BY <1>2, <2>4, <2>5, <2>6 DEF AllSteps, ControlSteps
<1>3. \A o \in Ops : parties'[o] \subseteq Peers
  BY DEF TypeInv, CallInv, CallType
<1> QED
  BY <1>1, <1>2, <1>3 DEF AllSent

\* Nothing has ended at the start.
LEMMA HearingInit == Init => Hearing /\ Sending
<1> SUFFICES ASSUME Init PROVE Hearing /\ Sending
  OBVIOUS
<1>1. GotTaken /\ EndHeard
  BY DEF Init, GotTaken, EndHeard
<1>2. RoundsHeard
  BY BoundsAssumption DEF Init, RoundsHeard, Rounds
<1>3. TargetsKept /\ Emptied /\ SentOrDue /\ AllSent
  BY DEF Init, TargetsKept, Emptied, SentOrDue, AllSent
<1> QED
  BY <1>1, <1>2, <1>3 DEF Hearing, Sending

\* What the parties have received and sent is kept by every step.
THEOREM ExchangeCorrect == Spec => [](Hearing /\ Sending)
<1>1. ASSUME TypeInv, TypeInv', Exclusion, Service, Computing, Settled, Hearing, Sending,
             [Next]_vars
      PROVE  Hearing' /\ Sending'
  <2>1. AllSteps /\ (overlapped => overlapped')
    BY <1>1, Steps, OverlappedStays
  <2>2. Hearing'
    BY <1>1, <2>1, HearingStep
  <2>3. TargetsKept /\ Emptied /\ SentOrDue /\ AllSent
    BY <1>1 DEF Sending
  <2>4. TargetsKept' /\ Emptied' /\ SentOrDue' /\ AllSent'
    BY <1>1, <2>1, <2>3, TargetsStep, EmptiedStep, SentOrDueStep, AllSentStep
  <2> QED
    BY <2>2, <2>4 DEF Sending
<1>2. TypeInv /\ Exclusion /\ Service /\ Computing /\ Settled /\ Hearing /\ Sending
        /\ [Next]_vars => Hearing' /\ Sending'
  BY <1>1, TypeNext
<1>3. Spec => [](TypeInv /\ Exclusion /\ Service)
  BY ServiceCorrect
<1>4. Spec => [](TypeInv /\ Exclusion /\ Computing /\ Settled)
  BY ComputingCorrect
<1> QED
  BY <1>2, <1>3, <1>4, HearingInit, PTL DEF Spec

\* An operation that returns a result has heard every message of every party
\* and has sent each of its own, as long as the connections hold, the node
\* is not closed and no other operation has been let in with it.
THEOREM OkMeansCompleteCorrect == Spec => []OkMeansComplete
<1>1. Hearing /\ Sending => OkMeansComplete
  BY DEF Hearing, EndHeard, Heard, Sending, AllSent, Lost, OkMeansComplete
<1> QED
  BY <1>1, ExchangeCorrect, PTL

-----------------------------------------------------------------------------
(* Whose messages a party holds.                                             *)

\* Who sends a message knows of its operation and is a party of it.
LEMMA PostedStep ==
  ASSUME TypeInv, TypeInv', Exclusion, Computing, AllSteps, PostedOpen
  PROVE  PostedOpen'
<1>1. \A o \in Ops : caller'[o] = "offered" => o \in Remote
  BY DEF AllSteps, ControlSteps, RemoteStart, PostedOpen
<1>2. taken' \subseteq posted'
  <2>1. CASE TakeUpdate
    BY <2>1 DEF TakeUpdate, PostedOpen, AllSteps, SharedSteps
  <2> QED
    BY <2>1 DEF PostedOpen, AllSteps, SharedSteps
<1>3. ASSUME NEW m \in posted'
      PROVE  /\ caller'[m.op] = "admitted" => m.op \in Remote
             /\ caller'[m.op] # "idle"
             /\ m.op \notin KeyGens \cap Remote => m.from \in parties'[m.op]
  <2> DEFINE e == m.op
  <2>1. e \in Ops /\ m.from \in Peers
    BY DEF TypeInv, NetType, Messages
  <2>2. /\ caller[e] = "admitted" => e \in Remote
        /\ caller[e] # "idle"
        /\ e \notin KeyGens \cap Remote => m.from \in parties[e]
    BY DEF PostedOpen, AllSteps, SharedSteps, Open, Senders
  <2>3. caller[e] = "offered" => e \in Remote
    BY <2>1 DEF PostedOpen
  <2> HIDE DEF e
  <2>4. caller'[e] # "idle" /\ (caller'[e] = "admitted" => e \in Remote)
    BY <2>1, <2>2, <2>3 DEF AllSteps, ControlSteps
  <2>5. parties'[e] # parties[e] => e \in KeyGens \cap Remote
    <3>1. SUFFICES ASSUME parties'[e] # parties[e] PROVE e \in KeyGens \cap Remote
      OBVIOUS
    <3>2. caller[e] = "admitted" /\ e \in Remote
      BY <2>1, <2>2, <3>1, PartiesKept
    <3>3. ~EnterSign(e) /\ ~RemoteStart(e)
      BY <3>2, OpsAssumption DEF EnterSign, RemoteStart, TssOps
    <3>4. EnterKeyGen(e)
      BY <2>1, <3>1, <3>3 DEF AllSteps, DataSteps
    <3> QED
      BY <3>2, <3>4 DEF EnterKeyGen
  <2> QED
    BY <2>2, <2>4, <2>5 DEF e
<1> QED
  BY <1>1, <1>2, <1>3 DEF PostedOpen

\* A message that is received is new, and it is stored for one party.
LEMMA StoredStep ==
  ASSUME TypeInv, AllSteps, GotTaken, StoredOnce
  PROVE  StoredOnce'
<1>1. ASSUME NEW o \in Ops, NEW q \in Ops, NEW p \in Peers, NEW r \in Rounds,
             got'[o][<<p, r>>] = got'[q][<<p, r>>], got'[o][<<p, r>>] # NoOp,
             got'[o][<<p, r>>] # got[o][<<p, r>>]
      PROVE  o = q
  <2>1. /\ on = o /\ handling.from = p /\ handling.round = r /\ loop = "lock"
        /\ got'[o][<<p, r>>] = handling.op
    BY <1>1, GotChanges
  <2>2. CASE got'[q][<<p, r>>] # got[q][<<p, r>>]
    BY <2>1, <2>2, GotChanges
  <2>3. CASE got'[q][<<p, r>>] = got[q][<<p, r>>]
    BY <1>1, <2>1, <2>3 DEF StoredOnce
  <2> QED
    BY <2>2, <2>3
<1>2. ASSUME NEW o \in Ops, NEW q \in Ops, NEW p \in Peers, NEW r \in Rounds,
             got'[o][<<p, r>>] = got'[q][<<p, r>>], got'[o][<<p, r>>] # NoOp
      PROVE  o = q
  <2>1. CASE got'[o][<<p, r>>] # got[o][<<p, r>>]
    BY <1>1, <1>2, <2>1
  <2>2. CASE got'[q][<<p, r>>] # got[q][<<p, r>>]
    BY <1>1, <1>2, <2>2
  <2>3. CASE got'[o][<<p, r>>] = got[o][<<p, r>>] /\ got'[q][<<p, r>>] = got[q][<<p, r>>]
    BY <1>2, <2>3 DEF StoredOnce
  <2> QED
    BY <2>1, <2>2, <2>3
<1>3. ASSUME loop' \in {"wait", "call", "lock"}, NEW o \in Ops
      PROVE  got'[o][<<handling'.from, handling'.round>>] # handling'.op
  <2>1. got' [o]= got[o]
    BY <1>3 DEF AllSteps, DataSteps, Update
  <2>2. CASE TakeUpdate
    <3>1. PICK m \in posted \ taken : handling' = m
      BY <2>2 DEF TakeUpdate
    <3>2. m \in Messages /\ m.op # NoOp
      BY Domains DEF TypeInv, NetType, Messages
    <3>3. m = [op |-> m.op, from |-> m.from, round |-> m.round]
      BY <3>2 DEF Messages
    <3>4. m.from \in Peers /\ m.round \in Rounds
      BY <3>2 DEF Messages
    <3> QED
      BY <2>1, <3>1, <3>2, <3>3, <3>4 DEF GotTaken
  <2>3. CASE ~TakeUpdate
    BY <1>3, <2>1, <2>3 DEF AllSteps, SharedSteps, StoredOnce
  <2> QED
    BY <2>2, <2>3
<1> QED
  BY <1>2, <1>3 DEF StoredOnce

\* A party that ends has the messages of its own operation, and they are gone
\* for any other party.
LEMMA OwnEndStep ==
  ASSUME TypeInv, TypeInv', Exclusion, Computing, AllSteps, Hearing, StoredOnce, OwnEnd
  PROVE  OwnEnd'
<1>1. ASSUME loop' = "end", NEW p \in parties'[on'], NEW r \in Rounds
      PROVE  got'[on'][<<p, r>>] = on'
  <2>1. CASE Step
    <3>1. /\ CanProceed(on) /\ round[on] = LastRound /\ OwnMessages(on)
          /\ UNCHANGED <<on, parties, got>> /\ on \in Ops
      BY <1>1, <2>1, Domains DEF Step, notLoop, callVars, TypeInv, LoopInv
    <3>2. p \in parties[on] /\ p \in Peers
      BY <1>1, <3>1 DEF TypeInv, CallInv, CallType
    <3>3. r < round[on] \/ r = round[on]
      BY <3>1, BoundsAssumption DEF Rounds
    <3>4. got[on][<<p, r>>] # NoOp
      BY <3>1, <3>2, <3>3 DEF Hearing, RoundsHeard, CanProceed
    <3> QED
      BY <3>1, <3>2, <3>4 DEF OwnMessages
  <2>2. CASE loop = "end" /\ on' = on
    <3>1. on \in Ops /\ round[on] = LastRound + 1
      BY <2>2, Domains DEF Computing, TypeInv, LoopInv
    <3>2. parties'[on] = parties[on]
      BY <3>1, PartiesKept, BoundsAssumption
    <3>3. got'[on] = got[on]
      BY <2>2, <3>1 DEF AllSteps, DataSteps, Update
    <3> QED
      BY <1>1, <2>2, <3>2, <3>3 DEF OwnEnd
  <2> QED
    BY <1>1, <2>1, <2>2 DEF AllSteps, SharedSteps
<1>2. ASSUME NEW o \in Ops, Ended(o)', NEW p \in parties'[o], NEW r \in Rounds
      PROVE  /\ \A q \in Ops : q # o => got'[q][<<p, r>>] # o
             /\ loop' \in {"wait", "call", "lock"} => handling' # [op |-> o, from |-> p, round |-> r]
  <2>1. Ended(o) \/ WorkerTakesEnd(o)
    BY <1>2, EndedSteps
  <2>2. parties'[o] = parties[o]
    BY <1>2, PartiesKept
  <2>3. p \in parties[o] /\ p \in Peers /\ o # NoOp
    BY <1>2, <2>2, Domains DEF TypeInv, CallInv, CallType
  <2>4. CASE WorkerTakesEnd(o)
    <3>1. loop = "end" /\ on = o /\ loop' = "exit" /\ got' = got
      BY <2>4 DEF WorkerTakesEnd, partyVars
    <3>2. got[o][<<p, r>>] = o
      BY <2>3, <3>1 DEF OwnEnd
    <3> QED
      BY <2>3, <3>1, <3>2 DEF StoredOnce
  <2>5. CASE Ended(o)
    <3>1. Spent(o)
      BY <2>5 DEF Ended, OwnEnd
    <3>2. ASSUME NEW q \in Ops, q # o, got'[q][<<p, r>>] = o
          PROVE  FALSE
      <4>1. got[q][<<p, r>>] # o
        BY <2>3, <3>1, <3>2 DEF Spent
      <4>2. /\ handling.from = p /\ handling.round = r /\ loop = "lock" /\ handling.op = o
            /\ handling \in Messages
        BY <2>3, <3>2, <4>1, GotChanges
      <4>3. handling = [op |-> o, from |-> p, round |-> r]
        BY <4>2 DEF Messages
      <4> QED
        BY <2>3, <3>1, <4>2, <4>3 DEF Spent
    <3>3. ASSUME loop' \in {"wait", "call", "lock"},
                 handling' = [op |-> o, from |-> p, round |-> r]
          PROVE  FALSE
      <4>1. [op |-> o, from |-> p, round |-> r] \in taken
        BY <2>3, <2>5 DEF Ended, Hearing, EndHeard, Heard
      <4>2. ~TakeUpdate
        BY <3>3, <4>1 DEF TakeUpdate
      <4>3. loop \in {"wait", "call", "lock"} /\ handling' = handling
        BY <3>3, <4>2 DEF AllSteps, SharedSteps
      <4> QED
        BY <2>3, <3>1, <3>3, <4>3 DEF Spent
    <3> QED
      BY <3>2, <3>3
  <2> QED
    BY <2>1, <2>4, <2>5
<1> QED
  BY <1>1, <1>2 DEF OwnEnd, Spent, Ended

\* The event loop finds a message's party by the kind of its operation.
LEMMA KindStep ==
  ASSUME TypeInv, Exclusion, AllSteps, KindKept
  PROVE  KindKept'
<1>1. \A o \in Ops : starter[o] # "none" => starter'[o] # "none"
  BY DEF AllSteps, ControlSteps
<1>2. ASSUME NEW k \in Kinds, ptr'[k] # NoOp PROVE starter'[ptr'[k]] # "none"
  <2>1. CASE ptr'[k] = ptr[k]
    <3>1. ptr[k] \in Ops
      BY <1>2, <2>1, Domains DEF TypeInv, TssType
    <3> QED
      BY <1>1, <1>2, <2>1, <3>1 DEF KindKept
  <2> QED
    BY <1>2, <2>1 DEF AllSteps, SharedSteps
<1>3. ASSUME loop' = "lock" PROVE starter'[on'] # "none" /\ Kind(on') = Kind(handling'.op)
  <2>1. CASE CallUpdate
    <3> DEFINE k == Kind(handling.op)
    <3>1. on' = ptr[k] /\ on' # NoOp /\ handling' = handling /\ starter' = starter
      BY <1>3, <2>1 DEF CallUpdate, partyVars
    <3>2. handling \in Messages
      BY <2>1 DEF CallUpdate, TypeInv, LoopInv
    <3>3. k \in Kinds
      BY <3>2, Domains DEF Messages
    <3> QED
      BY <3>1, <3>3 DEF KindKept, Exclusion, Owned
  <2>2. CASE loop = "lock" /\ on' = on
    <3>1. ~TakeUpdate
      BY <2>2 DEF TakeUpdate
    <3>2. handling' = handling /\ on \in Ops
      BY <1>3, <2>2, <3>1, Domains DEF AllSteps, SharedSteps, TypeInv, LoopInv
    <3> QED
      BY <1>1, <2>2, <3>2 DEF KindKept
  <2> QED
    BY <1>3, <2>1, <2>2 DEF AllSteps, SharedSteps
<1>4. ASSUME NEW o \in Ops, NEW p \in Peers, NEW r \in Rounds, got'[o][<<p, r>>] # NoOp
      PROVE  starter'[o] # "none" /\ Kind(got'[o][<<p, r>>]) = Kind(o)
  <2>1. CASE got'[o][<<p, r>>] = got[o][<<p, r>>]
    BY <1>1, <1>4, <2>1 DEF KindKept
  <2>2. CASE got'[o][<<p, r>>] # got[o][<<p, r>>]
    <3>1. on = o /\ loop = "lock" /\ got'[o][<<p, r>>] = handling.op
      BY <2>2, GotChanges
    <3> QED
      BY <1>1, <3>1 DEF KindKept
  <2> QED
    BY <2>1, <2>2
<1> QED
  BY <1>2, <1>3, <1>4 DEF KindKept

\* The node loses peers between two key generations, and gains none.
LEMMA ShrinkStep ==
  ASSUME TypeInv, Exclusion, Computing, Service, AllSteps, PartiesShrink,
         overlapped => overlapped'
  PROVE  PartiesShrink'
<1>1. ASSUME NEW o \in KeyGens, parties'[o] # parties[o]
      PROVE  /\ EnterKeyGen(o) /\ parties'[o] = peers /\ peers' = peers
             /\ parties' = [parties EXCEPT ![o] = peers]
             /\ caller'[o] \in {"select", "leaving"} /\ result[o] = "none"
  <2>1. o \notin Signs \cup EthSigns /\ o \in Ops
    BY Domains, OpsAssumption DEF TssOps
  <2>2. ~EnterSign(o) /\ ~RemoteStart(o)
    BY <1>1, <2>1 DEF EnterSign, RemoteStart
  <2>3. EnterKeyGen(o)
    BY <1>1, <2>1, <2>2 DEF AllSteps, DataSteps
  <2>4. result[o] = "none"
    BY <2>1, <2>3 DEF EnterKeyGen, Exclusion, Early
  <2> QED
    BY <2>1, <2>3, <2>4 DEF EnterKeyGen, TypeInv, CallInv, CallType
<1>2. ASSUME NEW o \in KeyGens, caller'[o] \in {"idle", "offered", "admitted"}
      PROVE  parties'[o] = {}
  <2>1. parties'[o] = parties[o]
    BY <1>1, <1>2
  <2>2. caller[o] \in {"idle", "offered", "admitted"}
    <3>1. o \in Ops /\ o \notin Signs
      BY Domains, OpsAssumption DEF TssOps
    <3>2. ~RemoteStart(o) \/ caller[o] = "idle"
      BY DEF RemoteStart
    <3> QED
      BY <1>2, <3>1, <3>2 DEF AllSteps, ControlSteps
  <2> QED
    BY <2>1, <2>2 DEF PartiesShrink
<1>3. ASSUME NEW o \in Ops, caller'[o] = "finish" \/ result'[o] = "ok"
      PROVE  worker'[o] # "none"
  BY <1>3 DEF AllSteps, ControlSteps, GiveDone, Finish, PartiesShrink
<1>4. ASSUME NEW e \in KeyGens, worker'[e] # "none"
      PROVE  peers' \subseteq parties'[e]
  <2>1. e \in Ops /\ e \notin Signs \cup EthSigns
    BY Domains, OpsAssumption DEF TssOps
  <2>2. CASE worker[e] # "none"
    <3>1. parties'[e] = parties[e]
      BY <2>1, <2>2, PartiesKept
    <3> QED
      BY <2>2, <3>1 DEF PartiesShrink, AllSteps, SharedSteps
  <2>3. CASE worker[e] = "none"
    <3>1. EnterKeyGen(e)
      BY <1>4, <2>1, <2>3 DEF AllSteps, ControlSteps, EnterSign, JoinSign
    <3> QED
      BY <2>1, <3>1 DEF EnterKeyGen, TypeInv, CallInv, CallType
  <2> QED
    BY <2>2, <2>3
<1>5. ASSUME NEW e \in KeyGens, NEW o \in KeyGens, result'[e] = "ok", result'[o] = "none",
             ~overlapped'
      PROVE  parties'[o] \subseteq parties'[e]
  <2>1. e \in Ops /\ o \in Ops /\ result[o] = "none" /\ e # o
    BY <1>5, Domains DEF AllSteps, ControlSteps
  <2>2. parties'[e] = parties[e]
    BY <1>5, <2>1, PartiesKept DEF Ended
  <2>3. CASE result[e] = "ok" /\ parties'[o] = parties[o]
    BY <1>5, <2>1, <2>2, <2>3 DEF PartiesShrink
  <2>4. CASE result[e] = "ok" /\ parties'[o] # parties[o]
    <3>1. peers \subseteq parties[e]
      BY <2>1, <2>4 DEF PartiesShrink
    <3> QED
      BY <1>1, <2>2, <2>4, <3>1
  <2>5. CASE Finish(e)
    <3>1. caller[e] = "finish" /\ parties' = parties
      BY <2>5 DEF Finish
    <3>2. ~Inside(o)
      BY <1>5, <2>1, <3>1 DEF Exclusion, SoleProcess, OneProcess, Inside
    <3>3. caller[o] \in {"idle", "offered", "admitted"}
      BY <2>1, <3>2
         DEF Inside, Service, Answered, TypeInv, CallInv, CallType, CallerAt
    <3> QED
      BY <3>1, <3>3 DEF PartiesShrink
  <2> QED
    BY <1>5, <2>1, <2>3, <2>4, <2>5 DEF AllSteps, ControlSteps
<1> QED
  BY <1>2, <1>3, <1>4, <1>5 DEF PartiesShrink

\* The message of another operation that a party gets is of one that is over here
\* without success, or of one whose Start message is still to come.
LEMMA ForeignStep ==
  ASSUME TypeInv, TypeInv', Exclusion, Computing, Service, AllSteps, Hearing, Foreign,
         ~overlapped, ~overlapped'
  PROVE  NoForeignMessage'
<1> SUFFICES ASSUME NEW o \in Ops, worker'[o] \in {"select", "message"}, result'[o] = "none",
                    NEW p \in parties'[o], NEW r \in Rounds, NEW e,
                    e = got'[o][<<p, r>>], e # NoOp, e # o
             PROVE  \/ e \in Ops /\ result'[e] \notin {"none", "ok"}
                    \/ e \in Remote /\ caller'[e] = "offered"
  BY DEF NoForeignMessage
<1>1. p \in Peers /\ result[o] = "none" /\ e \in Ops
  BY DEF TypeInv, CallInv, CallType, PartyType, AllSteps, ControlSteps
<1>2. CASE WorkerEnter(o)
  <2>1. got' = got /\ starter[o] = "none"
    BY <1>2 DEF WorkerEnter, Computing
  <2> QED
    BY <1>1, <2>1 DEF Foreign, KindKept
<1>3. CASE worker[o] \in {"select", "message"}
  <2>1. parties'[o] = parties[o] /\ p \in parties[o]
    BY <1>3, PartiesKept
  <2>2. Inside(o) /\ busy
    BY <1>1, <1>3 DEF Exclusion, Present, SoleProcess, OneProcess, Inside
  <2>3. CASE got'[o][<<p, r>>] = got[o][<<p, r>>]
    <3>1. \/ e \in Ops /\ result[e] \notin {"none", "ok"}
          \/ e \in Remote /\ caller[e] = "offered"
      BY <1>1, <1>3, <2>1, <2>3 DEF Foreign, NoForeignMessage
    <3>2. CASE result[e] \notin {"none", "ok"}
      BY <1>1, <3>2 DEF AllSteps, ControlSteps
    <3>3. CASE e \in Remote /\ caller[e] = "offered" /\ HandleStart(e)
      <4>1. result'[e] = "dropped"
        BY <1>1, <2>2, <3>3 DEF HandleStart, TypeInv, CallInv, CallType
      <4> QED
        BY <1>1, <4>1
    <3>4. CASE e \in Remote /\ caller[e] = "offered" /\ ~HandleStart(e)
      BY <1>1, <3>4 DEF AllSteps, ControlSteps
    <3> QED
      BY <3>1, <3>2, <3>3, <3>4
  <2>4. CASE got'[o][<<p, r>>] # got[o][<<p, r>>]
    <3>1. /\ Update /\ on = o /\ handling.from = p /\ handling.round = r /\ loop = "lock"
          /\ handling.op = e /\ handling \in Messages
      BY <1>1, <2>4, GotChanges
    <3>2. UNCHANGED <<caller, result>>
      BY <3>1 DEF Update, notLoop, callVars
    <3>3. handling = [op |-> e, from |-> p, round |-> r]
      BY <3>1 DEF Messages
    <3>4. handling \in posted
      BY <3>1 DEF Hearing, GotTaken, Foreign, PostedOpen
    <3>5. /\ caller[e] # "idle"
          /\ e \notin KeyGens \cap Remote => p \in parties[e]
      BY <3>1, <3>4 DEF Foreign, PostedOpen
    <3>6. caller[e] # "admitted" /\ ~Inside(e)
      BY <1>1, <2>2 DEF Exclusion, Gate, SoleProcess, OneProcess
    <3>7. caller[e] \in {"offered", "returned"}
      BY <1>1, <3>5, <3>6 DEF Inside, TypeInv, CallInv, CallType, CallerAt
    <3>8. CASE caller[e] = "offered"
      BY <1>1, <3>2, <3>8 DEF Foreign, PostedOpen
    <3>9. CASE caller[e] = "returned"
      <4>1. result[e] # "none"
        BY <1>1, <3>9 DEF Service, Answered
      <4>2. ASSUME result[e] = "ok" PROVE FALSE
        <5>1. Spent(e)
          BY <1>1, <4>2 DEF Foreign, OwnEnd
        <5>2. p \notin parties[e]
          BY <3>1, <3>3, <5>1 DEF Spent
        <5>3. Kind(o) = Kind(e) /\ e \in KeyGens
          BY <3>1, <3>5, <5>2 DEF Foreign, KindKept
        <5>4. o \in KeyGens
          BY <5>3 DEF Kind
        <5>5. parties[o] \subseteq parties[e]
          BY <1>1, <4>2, <5>3, <5>4 DEF Foreign, PartiesShrink
        <5> QED
          BY <2>1, <5>2, <5>5
      <4> QED
        BY <1>1, <3>2, <4>1, <4>2
    <3> QED
      BY <3>7, <3>8, <3>9
  <2> QED
    BY <2>3, <2>4
<1> QED
  BY <1>2, <1>3 DEF AllSteps, ControlSteps

\* There are no messages at the start.
LEMMA ForeignInit == Init => Foreign
<1> SUFFICES ASSUME Init PROVE Foreign
  OBVIOUS
<1>1. PostedOpen /\ StoredOnce
  BY DEF Init, PostedOpen, StoredOnce
<1>2. OwnEnd /\ NoForeignMessage
  BY DEF Init, OwnEnd, NoForeignMessage
<1>3. KindKept
  BY DEF Init, KindKept
<1>4. PartiesShrink
  BY Domains DEF Init, PartiesShrink
<1> QED
  BY <1>1, <1>2, <1>3, <1>4 DEF Foreign

\* While its caller waits, a party holds messages of its own operation, of one
\* that has ended here without success, or of one that is still offered.
THEOREM NoForeignMessageCorrect == Spec => []NoForeignMessage
<1>1. ASSUME TypeInv, TypeInv', Exclusion, Service, Computing, Hearing, Foreign, [Next]_vars
      PROVE  Foreign'
  <2>1. AllSteps /\ (overlapped => overlapped')
    BY <1>1, Steps, OverlappedStays
  <2>2. PostedOpen /\ StoredOnce /\ OwnEnd /\ KindKept /\ PartiesShrink /\ GotTaken
    BY <1>1 DEF Foreign, Hearing
  <2>3. PostedOpen' /\ StoredOnce' /\ OwnEnd' /\ KindKept' /\ PartiesShrink'
    BY <1>1, <2>1, <2>2, PostedStep, StoredStep, OwnEndStep, KindStep, ShrinkStep
  <2>4. NoForeignMessage'
    BY <1>1, <2>1, ForeignStep DEF NoForeignMessage
  <2> QED
    BY <2>3, <2>4 DEF Foreign
<1>2. TypeInv /\ Exclusion /\ Service /\ Computing /\ Hearing /\ Foreign /\ [Next]_vars
        => Foreign'
  BY <1>1, TypeNext
<1>3. Spec => [](TypeInv /\ Exclusion /\ Service)
  BY ServiceCorrect
<1>4. Spec => [](TypeInv /\ Exclusion /\ Computing /\ Settled)
  BY ComputingCorrect
<1>5. Spec => [](Hearing /\ Sending)
  BY ExchangeCorrect
<1>6. Foreign => NoForeignMessage
  BY DEF Foreign
<1> QED
  BY <1>2, <1>3, <1>4, <1>5, <1>6, ForeignInit, PTL DEF Spec

===============================================================================
