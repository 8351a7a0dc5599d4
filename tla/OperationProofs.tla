--------------------------- MODULE OperationProofs ---------------------------
(***************************************************************************)
(* Proofs about Operation: its types, and that one process and one worker  *)
(* run at a time, each party having the operation that made it as owner.   *)
(***************************************************************************)
EXTENDS OperationInv, TLAPS

\* What the assumptions say of the sets of operations.
LEMMA Domains ==
  /\ TssOps \subseteq Ops /\ KeyGens \subseteq TssOps /\ KeyGens \subseteq Ops
  /\ Signs \subseteq TssOps
  /\ \A o \in Ops : Kind(o) \in Kinds
  /\ NoOp \notin Ops /\ NoOp # Preset /\ Preset \notin Ops
BY OpsAssumption DEF Ops, TssOps, Kind, Kinds

\* Each part of the type invariant is about one group of variables.
LEMMA Frame ==
  /\ NodeType /\ UNCHANGED nodeVars => NodeType'
  /\ TssType /\ UNCHANGED tssVars => TssType'
  /\ CallInv /\ UNCHANGED callVars => CallInv'
  /\ WorkInv /\ UNCHANGED workVars => WorkInv'
  /\ PartyType /\ UNCHANGED partyVars => PartyType'
  /\ LoopInv /\ UNCHANGED loopVars => LoopInv'
  /\ NetType /\ UNCHANGED netVars => NetType'
<1>1. NodeType /\ UNCHANGED nodeVars => NodeType'
  BY DEF NodeType, nodeVars
<1>2. TssType /\ UNCHANGED tssVars => TssType'
  BY DEF TssType, tssVars
<1>3. CallInv /\ UNCHANGED callVars => CallInv'
  BY DEF CallInv, CallType, callVars
<1>4. WorkInv /\ UNCHANGED workVars => WorkInv'
  BY DEF WorkInv, WorkType, workVars
<1>5. PartyType /\ UNCHANGED partyVars => PartyType'
  BY DEF PartyType, partyVars
<1>6. LoopInv /\ UNCHANGED loopVars => LoopInv'
  BY DEF LoopInv, LoopType, loopVars
<1>7. NetType /\ UNCHANGED netVars => NetType'
  BY DEF NetType, netVars
<1>q. QED
  BY <1>1, <1>2, <1>3, <1>4, <1>5, <1>6, <1>7

\* Init puts every goroutine at its beginning and nothing in flight.
LEMMA TypeInit == Init => TypeInv
<1> SUFFICES ASSUME Init PROVE TypeInv
  OBVIOUS
<1>1. NodeType /\ TssType
  BY DEF Init, NodeType, TssType, Kinds
<1>2. CallInv
  BY DEF Init, CallInv, CallType, CallerAt, Results
<1>3. WorkInv
  BY DEF Init, WorkInv, WorkType, WorkerAt
<1>4. PartyType
  BY BoundsAssumption DEF Init, PartyType, StarterAt
<1>5. LoopInv /\ NetType
  BY DEF Init, LoopInv, LoopType, LoopAt, NetType
<1>q. QED
  BY <1>1, <1>2, <1>3, <1>4, <1>5 DEF TypeInv

\* The messages of a round are addressed to peers.
LEMMA RoundOutsType ==
  ASSUME CallType, NEW o \in Ops, NEW r \in Rounds, NEW ms \in RoundOuts(o, r)
  PROVE  ms \subseteq Outs
BY DEF CallType, RoundOuts, Outs

\* A step of a caller keeps the types.
LEMMA TypeCaller ==
  ASSUME TypeInv, NEW o \in Ops, CallerStep(o)
  PROVE  TypeInv'
<1>1. CASE EnterKeyGen(o)
  <2>1. NodeType'
    BY <1>1
       DEF EnterKeyGen, NodeType, TypeInv, nodeVars
  <2>2. CallInv'
    BY <1>1
       DEF EnterKeyGen, CallInv, CallType, CallerAt, Results, Errors, TypeInv,
           callVars, NodeType
  <2>3. WorkInv'
    BY <1>1, Domains
       DEF EnterKeyGen, WorkInv, WorkType, WorkerAt, Errors, TypeInv, workVars
  <2>q. QED
    BY <1>1, <2>1, <2>2, <2>3, Frame
       DEF EnterKeyGen, TypeInv
<1>2. CASE EnterSign(o)
  <2>1. NodeType'
    BY <1>2
       DEF EnterSign, selectRandomlySignerPeer, updateSignerPeers, NodeType,
           TypeInv, nodeVars
  <2>2. CallInv'
    BY <1>2
       DEF EnterSign, selectRandomlySignerPeer, CallInv, CallType, CallerAt,
           Results, Errors, TypeInv, callVars, NodeType
  <2>3. WorkInv'
    BY <1>2, Domains
       DEF EnterSign, WorkInv, WorkType, WorkerAt, Errors, TypeInv, workVars
  <2>q. QED
    BY <1>2, <2>1, <2>2, <2>3, Frame
       DEF EnterSign, TypeInv
<1>3. CASE JoinSign(o)
  <2>1. NodeType'
    BY <1>3
       DEF JoinSign, updateSignerPeers, NodeType, TypeInv, nodeVars
  <2>2. CallInv'
    BY <1>3
       DEF JoinSign, CallInv, CallType, CallerAt, Results, Errors, TypeInv, callVars
  <2>3. WorkInv'
    BY <1>3, Domains
       DEF JoinSign, WorkInv, WorkType, WorkerAt, Errors, TypeInv, workVars
  <2>q. QED
    BY <1>3, <2>1, <2>2, <2>3, Frame
       DEF JoinSign, TypeInv
<1>4. CASE EthSendFails(o)
  <2>1. CallInv'
    BY <1>4
       DEF EthSendFails, CallInv, CallType, CallerAt, Results, Errors, TypeInv,
           callVars, notCaller
  <2>q. QED
    BY <1>4, <2>1, Frame
       DEF EthSendFails, TypeInv, notCaller
<1>5. CASE Route(o)
  <2>1. CallInv'
    BY <1>5
       DEF Route, CallInv, CallType, CallerAt, Results, Errors, TypeInv, callVars
  <2>2. NetType'
    BY <1>5
       DEF Route, NetType, TypeInv, netVars, CallInv, CallType, Targets, NodeType,
           Outs
  <2>q. QED
    BY <1>5, <2>1, <2>2, Frame
       DEF Route, TypeInv
<1>6. CASE Finish(o)
  <2>1. NodeType'
    BY <1>6
       DEF Finish, NodeType, TypeInv, nodeVars, notCaller, TssType
  <2>2. CallInv'
    BY <1>6
       DEF Finish, CallInv, CallType, CallerAt, Results, Errors, TypeInv, callVars,
           notCaller
  <2>q. QED
    BY <1>6, <2>1, <2>2, Frame
       DEF Finish, TypeInv, notCaller
<1>7. CASE Leave(o)
  <2>1. NodeType'
    BY <1>7
       DEF Leave, NodeType, TypeInv, nodeVars, notCaller
  <2>2. CallInv'
    BY <1>7
       DEF Leave, CallInv, CallType, CallerAt, Results, Errors, TypeInv, callVars,
           notCaller
  <2>q. QED
    BY <1>7, <2>1, <2>2, Frame
       DEF Leave, TypeInv, notCaller
<1>q. QED
  BY <1>1, <1>2, <1>3, <1>4, <1>5, <1>6, <1>7 DEF CallerStep

\* A step of a worker keeps the types.
LEMMA TypeWorker ==
  ASSUME TypeInv, NEW o \in Ops, WorkerStep(o)
  PROVE  TypeInv'
<1>1. CASE WorkerCheck(o)
  <2>1. WorkInv'
    BY <1>1
       DEF WorkerCheck, WorkInv, WorkType, WorkerAt, Errors, TypeInv, workVars,
           notWorker
  <2>q. QED
    BY <1>1, <2>1, Frame
       DEF WorkerCheck, TypeInv, notWorker
<1>2. CASE WorkerEnter(o)
  <2>1. TssType'
    BY <1>2, Domains
       DEF WorkerEnter, TssType, Kinds, TypeInv, tssVars, WorkInv
  <2>2. WorkInv'
    BY <1>2
       DEF WorkerEnter, WorkInv, WorkType, WorkerAt, Errors, TypeInv, workVars
  <2>3. PartyType'
    BY <1>2
       DEF WorkerEnter, PartyType, StarterAt, TypeInv, partyVars
  <2>q. QED
    BY <1>2, <2>1, <2>2, <2>3, Frame
       DEF WorkerEnter, TypeInv
<1>3. CASE WorkerDeadline(o)
  <2>1. WorkInv'
    BY <1>3
       DEF WorkerDeadline, WorkInv, WorkType, WorkerAt, Errors, TypeInv, workVars,
           notWorker
  <2>q. QED
    BY <1>3, <2>1, Frame
       DEF WorkerDeadline, TypeInv, notWorker
<1>4. CASE WorkerTakesError(o)
  <2>1. WorkInv'
    BY <1>4
       DEF WorkerTakesError, WorkInv, WorkType, WorkerAt, Errors, TypeInv, workVars
  <2>2. PartyType'
    BY <1>4
       DEF WorkerTakesError, PartyType, StarterAt, TypeInv, partyVars
  <2>q. QED
    BY <1>4, <2>1, <2>2, Frame
       DEF WorkerTakesError, TypeInv
<1>5. CASE WorkerTakesOut(o)
  <2>1. WorkInv'
    <3>1. PICK m \in out[o] :
            \/ /\ offering' = [offering EXCEPT ![o] = m]
               /\ worker' = [worker EXCEPT ![o] = "message"]
            \/ UNCHANGED offering /\ worker' = [worker EXCEPT ![o] = "convert"]
      BY <1>5 DEF WorkerTakesOut
    <3>2. m \in Outs
      BY <3>1 DEF TypeInv, PartyType
    <3>q. QED
      BY <1>5, <3>1, <3>2
         DEF WorkerTakesOut, WorkInv, WorkType, WorkerAt, Errors, TypeInv
  <2>2. PartyType'
    BY <1>5
       DEF WorkerTakesOut, PartyType, StarterAt, TypeInv, partyVars
  <2>q. QED
    BY <1>5, <2>1, <2>2, Frame
       DEF WorkerTakesOut, TypeInv
<1>6. CASE WorkerTakesEnd(o)
  <2>1. TssType'
    BY <1>6
       DEF WorkerTakesEnd, TssType, Kinds, TypeInv, tssVars
  <2>2. WorkInv'
    BY <1>6
       DEF WorkerTakesEnd, WorkInv, WorkType, WorkerAt, Errors, TypeInv, workVars
  <2>3. LoopInv'
    BY <1>6
       DEF WorkerTakesEnd, LoopInv, LoopType, LoopAt, TypeInv, loopVars
  <2>q. QED
    BY <1>6, <2>1, <2>2, <2>3, Frame
       DEF WorkerTakesEnd, TypeInv
<1>7. CASE GiveMessage(o)
  <2>1. CallInv'
    BY <1>7
       DEF GiveMessage, CallInv, CallType, CallerAt, Results, Errors, TypeInv,
           callVars, WorkInv, WorkType
  <2>2. WorkInv'
    BY <1>7
       DEF GiveMessage, WorkInv, WorkType, WorkerAt, Errors, TypeInv, workVars
  <2>q. QED
    BY <1>7, <2>1, <2>2, Frame
       DEF GiveMessage, TypeInv
<1>8. CASE GiveError(o)
  <2>1. CallInv'
    BY <1>8
       DEF GiveError, CallInv, CallType, CallerAt, Results, Errors, TypeInv,
           callVars
  <2>2. WorkInv'
    BY <1>8
       DEF GiveError, WorkInv, WorkType, WorkerAt, Errors, TypeInv, workVars,
           AfterError
  <2>q. QED
    BY <1>8, <2>1, <2>2, Frame
       DEF GiveError, TypeInv
<1>9. CASE GiveDone(o)
  <2>1. CallInv'
    BY <1>9
       DEF GiveDone, CallInv, CallType, CallerAt, Results, Errors, TypeInv, callVars
  <2>2. WorkInv'
    BY <1>9
       DEF GiveDone, WorkInv, WorkType, WorkerAt, Errors, TypeInv, workVars
  <2>q. QED
    BY <1>9, <2>1, <2>2, Frame
       DEF GiveDone, TypeInv
<1>10. CASE WorkerDrained(o)
  <2>1. WorkInv'
    BY <1>10
       DEF WorkerDrained, WorkInv, WorkType, WorkerAt, Errors, TypeInv, workVars,
           notWorker
  <2>q. QED
    BY <1>10, <2>1, Frame
       DEF WorkerDrained, TypeInv, notWorker
<1>11. CASE WorkerReset(o)
  <2>1. TssType'
    BY <1>11
       DEF WorkerReset, TssType, Kinds, TypeInv, tssVars, notWorker
  <2>2. WorkInv'
    BY <1>11
       DEF WorkerReset, WorkInv, WorkType, WorkerAt, Errors, TypeInv, workVars,
           notWorker
  <2>q. QED
    BY <1>11, <2>1, <2>2, Frame
       DEF WorkerReset, TypeInv, notWorker
<1>12. CASE WorkerClear(o)
  <2>1. TssType'
    BY <1>12
       DEF WorkerClear, TssType, Kinds, TypeInv, tssVars, notWorker
  <2>2. WorkInv'
    BY <1>12
       DEF WorkerClear, WorkInv, WorkType, WorkerAt, Errors, TypeInv, workVars,
           notWorker
  <2>q. QED
    BY <1>12, <2>1, <2>2, Frame
       DEF WorkerClear, TypeInv, notWorker
<1>q. QED
  BY <1>1, <1>2, <1>3, <1>4, <1>5, <1>6, <1>7, <1>8, <1>9, <1>10, <1>11, <1>12
     DEF WorkerStep

\* A step of a starter keeps the types.
LEMMA TypeParty ==
  ASSUME TypeInv, NEW o \in Ops, PartyStep(o)
  PROVE  TypeInv'
<1>1. CASE StartParty(o)
  <2>1. PartyType'
    <3>1. PICK ms \in RoundOuts(o, 1) : out' = [out EXCEPT ![o] = ms]
      BY <1>1 DEF StartParty
    <3>2. 1 \in Rounds
      BY BoundsAssumption DEF Rounds
    <3>3. ms \subseteq Outs
      BY <3>1, <3>2, RoundOutsType DEF TypeInv, CallInv
    <3>4. out' \in [Ops -> SUBSET Outs]
      BY <3>1, <3>3 DEF TypeInv, PartyType
    <3>5. round' \in [Ops -> 0..LastRound + 1]
      BY <1>1, BoundsAssumption DEF StartParty, TypeInv, PartyType
    <3>6. starter' \in [Ops -> StarterAt]
      BY <1>1 DEF StartParty, TypeInv, PartyType, StarterAt
    <3>q. QED
      BY <1>1, <3>4, <3>5, <3>6 DEF StartParty, TypeInv, PartyType, notParty
  <2>q. QED
    BY <1>1, <2>1, Frame
       DEF StartParty, TypeInv, notParty
<1>2. CASE StartFails(o)
  <2>1. PartyType'
    BY <1>2
       DEF StartFails, PartyType, StarterAt, TypeInv, partyVars, notParty
  <2>q. QED
    BY <1>2, <2>1, Frame
       DEF StartFails, TypeInv, notParty
<1>3. CASE StartReturns(o)
  <2>1. PartyType'
    BY <1>3
       DEF StartReturns, PartyType, StarterAt, TypeInv, partyVars, notParty
  <2>q. QED
    BY <1>3, <2>1, Frame
       DEF StartReturns, TypeInv, notParty
<1>q. QED
  BY <1>1, <1>2, <1>3 DEF PartyStep

\* What the event loop does with a message keeps the types.
LEMMA TypeLoop ==
  ASSUME TypeInv, LoopHandles
  PROVE  TypeInv'
<1>1. CASE PartyReady
  <2>1. LoopInv'
    BY <1>1
       DEF PartyReady, LoopInv, LoopType, LoopAt, TypeInv, loopVars, notLoop
  <2>q. QED
    BY <1>1, <2>1, Frame
       DEF PartyReady, TypeInv, notLoop
<1>2. CASE GiveUp
  <2>1. LoopInv'
    BY <1>2
       DEF GiveUp, LoopInv, LoopType, LoopAt, TypeInv, loopVars, notLoop
  <2>q. QED
    BY <1>2, <2>1, Frame
       DEF GiveUp, TypeInv, notLoop
<1>3. CASE CallUpdate
  <2>1. LoopInv'
    BY <1>3
       DEF CallUpdate, LoopInv, LoopType, LoopAt, TypeInv, loopVars, notLoop,
           TssType, Kind, Kinds
  <2>q. QED
    BY <1>3, <2>1, Frame
       DEF CallUpdate, TypeInv, notLoop
<1>4. CASE Update
  <2>1. PartyType'
    <3>1. on \in Ops /\ handling \in Messages
      BY <1>4, Domains DEF Update, TypeInv, LoopInv
    <3>2. <<handling.from, handling.round>> \in Peers \X Rounds
          /\ handling.op \in Ops
      BY <3>1 DEF Messages
    <3>3. got' \in [Ops -> [Peers \X Rounds -> Ops \cup {NoOp}]]
      <4>1. CASE UNCHANGED got
        BY <4>1 DEF TypeInv, PartyType
      <4>2. CASE got' = [got EXCEPT ![on][<<handling.from, handling.round>>] =
                                      handling.op]
        BY <3>1, <3>2, <4>2 DEF TypeInv, PartyType
      <4>q. QED
        BY <1>4, <4>1, <4>2 DEF Update
    <3>q. QED
      BY <1>4, <3>3 DEF Update, TypeInv, PartyType
  <2>2. LoopInv'
    BY <1>4
       DEF Update, LoopInv, LoopType, LoopAt, TypeInv, loopVars, notLoop
  <2>q. QED
    BY <1>4, <2>1, <2>2, Frame
       DEF Update, TypeInv, notLoop
<1>5. CASE Step
  <2>1. PartyType'
    <3>1. on \in Ops
      BY <1>5, Domains DEF Step, TypeInv, LoopInv
    <3>2. CASE UNCHANGED <<round, out>>
      BY <1>5, <3>2 DEF Step, TypeInv, PartyType
    <3>3. CASE /\ CanProceed(on) /\ round[on] < LastRound
               /\ round' = [round EXCEPT ![on] = @ + 1]
               /\ \E ms \in RoundOuts(on, round[on] + 1) :
                    out' = [out EXCEPT ![on] = ms]
      <4>1. PICK ms \in RoundOuts(on, round[on] + 1) :
              out' = [out EXCEPT ![on] = ms]
        BY <3>3
      <4>2. round[on] + 1 \in Rounds
        BY <3>3, BoundsAssumption DEF CanProceed, Rounds
      <4>3. ms \subseteq Outs
        BY <3>1, <4>1, <4>2, RoundOutsType DEF TypeInv, CallInv
      <4>4. out' \in [Ops -> SUBSET Outs]
        BY <4>1, <4>3 DEF TypeInv, PartyType
      <4>5. round' \in [Ops -> 0..LastRound + 1]
        BY <3>1, <3>3, BoundsAssumption DEF TypeInv, PartyType
      <4>q. QED
        BY <1>5, <4>4, <4>5 DEF Step, TypeInv, PartyType
    <3>4. CASE /\ CanProceed(on) /\ round[on] = LastRound
               /\ round' = [round EXCEPT ![on] = @ + 1]
               /\ UNCHANGED out
      <4>1. round' \in [Ops -> 0..LastRound + 1]
        BY <3>1, <3>4, BoundsAssumption DEF TypeInv, PartyType
      <4>q. QED
        BY <1>5, <3>4, <4>1 DEF Step, TypeInv, PartyType
    <3>q. QED
      BY <1>5, <3>2, <3>3, <3>4 DEF Step
  <2>2. LoopInv'
    BY <1>5
       DEF Step, LoopInv, LoopType, LoopAt, TypeInv, loopVars, notLoop
  <2>q. QED
    BY <1>5, <2>1, <2>2, Frame
       DEF Step, TypeInv, notLoop
<1>6. CASE StepSent
  <2>1. LoopInv'
    BY <1>6
       DEF StepSent, LoopInv, LoopType, LoopAt, TypeInv, loopVars, notLoop
  <2>q. QED
    BY <1>6, <2>1, Frame
       DEF StepSent, TypeInv, notLoop
<1>7. CASE UpdateReturns
  <2>1. LoopInv'
    BY <1>7
       DEF UpdateReturns, LoopInv, LoopType, LoopAt, TypeInv, loopVars, notLoop
  <2>q. QED
    BY <1>7, <2>1, Frame
       DEF UpdateReturns, TypeInv, notLoop
<1>q. QED
  BY <1>1, <1>2, <1>3, <1>4, <1>5, <1>6, <1>7 DEF LoopHandles

\* What the event loop receives keeps the types.
LEMMA TypeReceive ==
  ASSUME TypeInv, LoopReceives
  PROVE  TypeInv'
<1>1. CASE TakeUpdate
  <2>1. LoopInv'
    BY <1>1
       DEF TakeUpdate, LoopInv, LoopType, LoopAt, TypeInv, loopVars, notLoop,
           NetType
  <2>q. QED
    BY <1>1, <2>1, Frame
       DEF TakeUpdate, TypeInv, notLoop
<1>2. CASE DeletePeer
  <2>1. NodeType'
    BY <1>2
       DEF DeletePeer, NodeType, TypeInv, nodeVars, notCaller
  <2>q. QED
    BY <1>2, <2>1, Frame
       DEF DeletePeer, TypeInv, notCaller
<1>3. CASE Quit
  <2>1. LoopInv'
    BY <1>3
       DEF Quit, LoopInv, LoopType, LoopAt, TypeInv, loopVars
  <2>2. NetType'
    BY <1>3
       DEF Quit, NetType, TypeInv, netVars
  <2>q. QED
    BY <1>3, <2>1, <2>2, Frame
       DEF Quit, TypeInv
<1>4. ASSUME NEW o \in Ops, HandleStart(o)
     PROVE  TypeInv'
  <2>1. CallInv'
    BY <1>4
       DEF HandleStart, CallInv, CallType, CallerAt, Results, Errors, TypeInv,
           callVars, Admit, notAdmit, notCaller
  <2>2. NetType'
    BY <1>4
       DEF HandleStart, NetType, TypeInv, netVars, Admit, notAdmit, notCaller
  <2>q. QED
    BY <1>4, <2>1, <2>2, Frame
       DEF HandleStart, TypeInv, Admit, notAdmit, notCaller
<1>q. QED
  BY <1>1, <1>2, <1>3, <1>4 DEF LoopReceives

\* Close keeps the types.
LEMMA TypeClose ==
  ASSUME TypeInv, Close
  PROVE  TypeInv'
<1>1. CASE CloseCall
  <2>1. NetType'
    BY <1>1
       DEF CloseCall, NetType, TypeInv, netVars, notNet
  <2>q. QED
    BY <1>1, <2>1, Frame
       DEF CloseCall, TypeInv, notNet
<1>2. CASE CloseReturns
  <2>1. NodeType'
    BY <1>2
       DEF CloseReturns, NodeType, TypeInv, nodeVars
  <2>2. NetType'
    BY <1>2
       DEF CloseReturns, NetType, TypeInv, netVars
  <2>q. QED
    BY <1>2, <2>1, <2>2, Frame
       DEF CloseReturns, TypeInv
<1>q. QED
  BY <1>1, <1>2 DEF Close

\* The environment keeps the types.
LEMMA TypeEnvironment ==
  ASSUME TypeInv, Environment
  PROVE  TypeInv'
<1>1. CASE PeerFails
  <2>1. NetType'
    BY <1>1
       DEF PeerFails, NetType, TypeInv, netVars, notNet
  <2>q. QED
    BY <1>1, <2>1, Frame
       DEF PeerFails, TypeInv, notNet
<1>2. ASSUME NEW o \in Ops, Call(o)
     PROVE  TypeInv'
  <2>1. CallInv'
    BY <1>2
       DEF Call, CallInv, CallType, CallerAt, Results, Errors, TypeInv, callVars,
           Admit, notAdmit, notCaller
  <2>2. NetType'
    BY <1>2
       DEF Call, NetType, TypeInv, netVars, Admit, notAdmit, notCaller
  <2>q. QED
    BY <1>2, <2>1, <2>2, Frame
       DEF Call, TypeInv, Admit, notAdmit, notCaller
<1>3. ASSUME NEW o \in Ops, CallRefused(o)
     PROVE  TypeInv'
  <2>1. CallInv'
    BY <1>3
       DEF CallRefused, CallInv, CallType, CallerAt, Results, Errors, TypeInv,
           callVars, notCaller
  <2>q. QED
    BY <1>3, <2>1, Frame
       DEF CallRefused, TypeInv, notCaller
<1>4. ASSUME NEW o \in Ops, RemoteStart(o)
     PROVE  TypeInv'
  <2>1. CallInv'
    BY <1>4
       DEF RemoteStart, CallInv, CallType, CallerAt, Results, Errors, TypeInv,
           callVars, notCaller
  <2>q. QED
    BY <1>4, <2>1, Frame
       DEF RemoteStart, TypeInv, notCaller
<1>5. ASSUME NEW o \in Ops, PeerSends(o)
     PROVE  TypeInv'
  <2>1. NetType'
    BY <1>5
       DEF PeerSends, NetType, TypeInv, netVars, notNet, Messages, Senders, CallInv,
           CallType
  <2>q. QED
    BY <1>5, <2>1, Frame
       DEF PeerSends, TypeInv, notNet
<1>6. ASSUME NEW o \in Ops, Expire(o)
     PROVE  TypeInv'
  <2>1. NetType'
    BY <1>6
       DEF Expire, NetType, TypeInv, netVars, notNet
  <2>q. QED
    BY <1>6, <2>1, Frame
       DEF Expire, TypeInv, notNet
<1>7. CASE ReshareUpdates
  <2>1. NetType'
    BY <1>7
       DEF ReshareUpdates, NetType, TypeInv, netVars, notNet
  <2>q. QED
    BY <1>7, <2>1, Frame
       DEF ReshareUpdates, TypeInv, notNet
<1>q. QED
  BY <1>1, <1>2, <1>3, <1>4, <1>5, <1>6, <1>7 DEF Environment

\* Steps that change nothing keep the types.
LEMMA TypeStutter == TypeInv /\ UNCHANGED vars => TypeInv'
BY Frame DEF TypeInv, vars

\* Every step keeps the types.
LEMMA TypeNext == TypeInv /\ [Next]_vars => TypeInv'
<1> SUFFICES ASSUME TypeInv, [Next]_vars PROVE TypeInv'
  OBVIOUS
<1>1. ASSUME NEW o \in Ops, CallerStep(o) PROVE TypeInv'
  BY <1>1, TypeCaller
<1>2. ASSUME NEW o \in Ops, WorkerStep(o) PROVE TypeInv'
  BY <1>2, TypeWorker
<1>3. ASSUME NEW o \in Ops, PartyStep(o) PROVE TypeInv'
  BY <1>3, TypeParty
<1>4. CASE LoopHandles
  BY <1>4, TypeLoop
<1>5. CASE LoopReceives
  BY <1>5, TypeReceive
<1>6. CASE Close
  BY <1>6, TypeClose
<1>7. CASE Environment
  BY <1>7, TypeEnvironment
<1>8. CASE UNCHANGED vars
  BY <1>8, TypeStutter
<1>q. QED
  BY <1>1, <1>2, <1>3, <1>4, <1>5, <1>6, <1>7, <1>8 DEF Next

\* Every value the program keeps is one that the code can put there, for any
\* peers, operations, threshold, number of rounds and faults.
THEOREM TypeCorrect == Spec => []TypeOK
<1>1. TypeInv => TypeOK
  BY DEF TypeInv, TypeOK, CallInv, WorkInv, LoopInv
<1>q. QED
  BY <1>1, TypeInit, TypeNext, PTL DEF Spec

-----------------------------------------------------------------------------
(* Exclusion and ownership; what is said of exclusion holds until the node   *)
(* has let in two operations at once.                                        *)

\* Each part of the invariant is about a few variables.
LEMMA ExclusionFrame ==
  /\ Gate /\ UNCHANGED <<busy, caller, overlapped>> => Gate'
  /\ SoleProcess /\ UNCHANGED <<busy, caller, overlapped>> => SoleProcess'
  /\ OneWorker /\ UNCHANGED <<tssBusy, worker, overlapped>> => OneWorker'
  /\ Unused /\ UNCHANGED <<tssBusy, worker, overlapped>> => Unused'
  /\ Early /\ UNCHANGED <<caller, result, worker>> => Early'
  /\ Present /\ UNCHANGED <<caller, result, worker>> => Present'
  /\ Late /\ UNCHANGED <<caller, result>> => Late'
  /\ Owned /\ UNCHANGED <<ptr, result, worker>> => Owned'
<1>1. Gate /\ UNCHANGED <<busy, caller, overlapped>> => Gate'
  BY DEF Gate
<1>2. SoleProcess /\ UNCHANGED <<busy, caller, overlapped>> => SoleProcess'
  <2>1. SUFFICES ASSUME OneProcess, UNCHANGED <<busy, caller>> PROVE OneProcess'
    BY DEF SoleProcess
  <2>q. QED
    BY <2>1 DEF OneProcess, Inside
<1>3. OneWorker /\ UNCHANGED <<tssBusy, worker, overlapped>> => OneWorker'
  <2>1. SUFFICES ASSUME SoleWorker, UNCHANGED <<tssBusy, worker>> PROVE SoleWorker'
    BY DEF OneWorker
  <2>q. QED
    BY <2>1 DEF SoleWorker, Working
<1>4. Early /\ UNCHANGED <<caller, result, worker>> => Early'
  BY DEF Early
<1>5. Present /\ UNCHANGED <<caller, result, worker>> => Present'
  BY DEF Present
<1>6. Late /\ UNCHANGED <<caller, result>> => Late'
  BY DEF Late
<1>7. Owned /\ UNCHANGED <<ptr, result, worker>> => Owned'
  BY DEF Owned
<1>8. Unused /\ UNCHANGED <<tssBusy, worker, overlapped>> => Unused'
  BY DEF Unused
<1>q. QED
  BY <1>1, <1>2, <1>3, <1>4, <1>5, <1>6, <1>7, <1>8

\* A step of a caller keeps the exclusion.
LEMMA ExclusionCaller ==
  ASSUME TypeInv, Exclusion, NEW o \in Ops, CallerStep(o)
  PROVE  Exclusion'
<1>1. CASE EnterKeyGen(o)
  <2>1. Gate'
    BY <1>1
       DEF EnterKeyGen, Exclusion, Gate, SoleProcess, OneProcess, Inside, TypeInv,
           NodeType, CallInv, CallType, netVars
  <2>2. SoleProcess'
    BY <1>1
       DEF EnterKeyGen, Exclusion, Gate, SoleProcess, OneProcess, Inside, TypeInv,
           NodeType, CallInv, CallType, netVars
  <2>3. OneWorker'
    <3> SUFFICES ASSUME ~overlapped' PROVE SoleWorker'
      BY DEF OneWorker
    <3>1. SoleWorker /\ ~overlapped
      BY <1>1 DEF EnterKeyGen, Exclusion, OneWorker, netVars
    <3>2. QED
      BY <1>1, <3>1
         DEF EnterKeyGen, Exclusion, SoleWorker, Early, Working, TypeInv, WorkInv,
             WorkType, tssVars, netVars, Errors
  <2>4. Early'
    BY <1>1
       DEF EnterKeyGen, Exclusion, Early, TypeInv, CallInv, CallType, WorkInv,
           WorkType
  <2>5. Present'
    BY <1>1
       DEF EnterKeyGen, Exclusion, Present, Early, TypeInv, WorkInv, WorkType,
           CallInv, CallType
  <2>6. Late'
    BY <1>1
       DEF EnterKeyGen, Exclusion, Late, TypeInv, CallInv, CallType
  <2>7. Owned'
    BY <1>1, Domains
       DEF EnterKeyGen, Exclusion, Owned, TypeInv, WorkInv, WorkType, CallInv,
           CallType, tssVars, Late, Early, TssType, Kinds, Errors
  <2>8. Unused'
    BY <1>1
       DEF EnterKeyGen, Exclusion, Unused, OneWorker, SoleWorker, Working, Early,
           TypeInv, WorkInv, WorkType, tssVars, netVars, SoleProcess, OneProcess,
           Inside
  <2>q. QED
    BY <1>1, <2>1, <2>2, <2>3, <2>4, <2>5, <2>6, <2>7, <2>8
       DEF EnterKeyGen, Exclusion, loopVars, netVars, partyVars, tssVars
<1>2. CASE EnterSign(o)
  <2>1. Gate'
    BY <1>2
       DEF EnterSign, Exclusion, Gate, SoleProcess, OneProcess, Inside, TypeInv,
           NodeType, CallInv, CallType, netVars
  <2>2. SoleProcess'
    <3> SUFFICES ASSUME ~overlapped' PROVE OneProcess'
      BY DEF SoleProcess
    <3>1. OneProcess /\ ~overlapped
      BY <1>2 DEF EnterSign, Exclusion, SoleProcess, netVars
    <3>2. QED
      BY <1>2, <3>1
         DEF EnterSign, Exclusion, Gate, OneProcess, Inside, TypeInv, NodeType,
             CallInv, CallType, netVars
  <2>3. OneWorker'
    <3> SUFFICES ASSUME ~overlapped' PROVE SoleWorker'
      BY DEF OneWorker
    <3>1. SoleWorker /\ ~overlapped
      BY <1>2 DEF EnterSign, Exclusion, OneWorker, netVars
    <3>2. QED
      BY <1>2, <3>1
         DEF EnterSign, Exclusion, SoleWorker, Early, Working, TypeInv, WorkInv,
             WorkType, tssVars, netVars, Errors
  <2>4. Early'
    BY <1>2
       DEF EnterSign, Exclusion, Early, TypeInv, CallInv, CallType, WorkInv,
           WorkType
  <2>5. Present'
    BY <1>2
       DEF EnterSign, Exclusion, Present, Early, TypeInv, WorkInv, WorkType,
           CallInv, CallType
  <2>6. Late'
    BY <1>2
       DEF EnterSign, Exclusion, Late, TypeInv, CallInv, CallType
  <2>7. Owned'
    BY <1>2, Domains
       DEF EnterSign, Exclusion, Owned, TypeInv, WorkInv, WorkType, CallInv,
           CallType, tssVars, Late, Early, TssType, Kinds, Errors
  <2>8. Unused'
    BY <1>2
       DEF EnterSign, Exclusion, Unused, OneWorker, SoleWorker, Working, Early,
           TypeInv, WorkInv, WorkType, tssVars, netVars, SoleProcess, OneProcess,
           Inside
  <2>q. QED
    BY <1>2, <2>1, <2>2, <2>3, <2>4, <2>5, <2>6, <2>7, <2>8
       DEF EnterSign, Exclusion, loopVars, netVars, partyVars, tssVars
<1>3. CASE JoinSign(o)
  <2>1. Gate'
    BY <1>3
       DEF JoinSign, Exclusion, Gate, SoleProcess, OneProcess, Inside, TypeInv,
           NodeType, CallInv, CallType, netVars
  <2>2. SoleProcess'
    BY <1>3
       DEF JoinSign, Exclusion, Gate, SoleProcess, OneProcess, Inside, TypeInv,
           NodeType, CallInv, CallType, netVars
  <2>3. OneWorker'
    <3> SUFFICES ASSUME ~overlapped' PROVE SoleWorker'
      BY DEF OneWorker
    <3>1. SoleWorker /\ ~overlapped
      BY <1>3 DEF JoinSign, Exclusion, OneWorker, netVars
    <3>2. QED
      BY <1>3, <3>1
         DEF JoinSign, Exclusion, SoleWorker, Early, Working, TypeInv, WorkInv,
             WorkType, tssVars, netVars, Errors
  <2>4. Early'
    BY <1>3
       DEF JoinSign, Exclusion, Early, TypeInv, CallInv, CallType, WorkInv, WorkType
  <2>5. Present'
    BY <1>3
       DEF JoinSign, Exclusion, Present, Early, TypeInv, WorkInv, WorkType, CallInv,
           CallType
  <2>6. Late'
    BY <1>3
       DEF JoinSign, Exclusion, Late, TypeInv, CallInv, CallType
  <2>7. Owned'
    BY <1>3, Domains
       DEF JoinSign, Exclusion, Owned, TypeInv, WorkInv, WorkType, tssVars, Late,
           Early, TssType, Kinds, Errors
  <2>8. Unused'
    BY <1>3
       DEF JoinSign, Exclusion, Unused, OneWorker, SoleWorker, Working, Early,
           TypeInv, WorkInv, WorkType, tssVars, netVars, SoleProcess, OneProcess,
           Inside
  <2>q. QED
    BY <1>3, <2>1, <2>2, <2>3, <2>4, <2>5, <2>6, <2>7, <2>8
       DEF JoinSign, Exclusion, loopVars, netVars, partyVars, tssVars
<1>4. CASE EthSendFails(o)
  <2>1. Gate'
    BY <1>4
       DEF EthSendFails, Exclusion, Gate, SoleProcess, OneProcess, Inside, TypeInv,
           CallInv, CallType, nodeVars, notCaller, netVars
  <2>2. SoleProcess'
    BY <1>4
       DEF EthSendFails, Exclusion, Gate, SoleProcess, OneProcess, Inside, TypeInv,
           CallInv, CallType, nodeVars, notCaller, netVars
  <2>3. Early'
    BY <1>4
       DEF EthSendFails, Exclusion, Early, TypeInv, CallInv, CallType, notCaller,
           workVars
  <2>4. Present'
    BY <1>4
       DEF EthSendFails, Exclusion, Present, Early, TypeInv, CallInv, CallType,
           notCaller, workVars
  <2>5. Late'
    BY <1>4
       DEF EthSendFails, Exclusion, Late, TypeInv, CallInv, CallType, notCaller
  <2>6. Owned'
    BY <1>4, Domains
       DEF EthSendFails, Exclusion, Owned, TypeInv, CallInv, CallType, notCaller,
           tssVars, workVars, Late, Early, TssType, Kinds, Errors
  <2>q. QED
    BY <1>4, <2>1, <2>2, <2>3, <2>4, <2>5, <2>6, ExclusionFrame
       DEF EthSendFails, Exclusion, loopVars, netVars, nodeVars, notCaller,
           partyVars, tssVars, workVars
<1>5. CASE Route(o)
  <2>1. Gate'
    BY <1>5
       DEF Route, Exclusion, Gate, SoleProcess, OneProcess, Inside, TypeInv,
           CallInv, CallType, nodeVars, netVars
  <2>2. SoleProcess'
    BY <1>5
       DEF Route, Exclusion, Gate, SoleProcess, OneProcess, Inside, TypeInv,
           CallInv, CallType, nodeVars, netVars
  <2>3. Early'
    BY <1>5
       DEF Route, Exclusion, Early, TypeInv, CallInv, CallType, workVars
  <2>4. Present'
    BY <1>5
       DEF Route, Exclusion, Present, Early, TypeInv, CallInv, CallType, workVars
  <2>5. Late'
    BY <1>5
       DEF Route, Exclusion, Late, TypeInv, CallInv, CallType
  <2>6. Owned'
    BY <1>5, Domains
       DEF Route, Exclusion, Owned, TypeInv, CallInv, CallType, tssVars, workVars,
           Late, Early, TssType, Kinds, Errors
  <2>q. QED
    BY <1>5, <2>1, <2>2, <2>3, <2>4, <2>5, <2>6, ExclusionFrame
       DEF Route, Exclusion, loopVars, nodeVars, partyVars, tssVars, workVars,
           netVars
<1>6. CASE Finish(o)
  <2>1. Gate'
    BY <1>6
       DEF Finish, Exclusion, Gate, SoleProcess, OneProcess, Inside, TypeInv,
           CallInv, CallType, notCaller, netVars
  <2>2. SoleProcess'
    BY <1>6
       DEF Finish, Exclusion, Gate, SoleProcess, OneProcess, Inside, TypeInv,
           CallInv, CallType, notCaller, netVars
  <2>3. Early'
    BY <1>6
       DEF Finish, Exclusion, Early, TypeInv, CallInv, CallType, notCaller, workVars
  <2>4. Present'
    BY <1>6
       DEF Finish, Exclusion, Present, Early, TypeInv, CallInv, CallType, notCaller,
           workVars
  <2>5. Late'
    BY <1>6
       DEF Finish, Exclusion, Late, TypeInv, CallInv, CallType, notCaller
  <2>6. Owned'
    BY <1>6, Domains
       DEF Finish, Exclusion, Owned, TypeInv, CallInv, CallType, notCaller, tssVars,
           workVars, Late, Early, TssType, Kinds, Errors
  <2>q. QED
    BY <1>6, <2>1, <2>2, <2>3, <2>4, <2>5, <2>6, ExclusionFrame
       DEF Finish, Exclusion, loopVars, netVars, notCaller, partyVars, tssVars,
           workVars
<1>7. CASE Leave(o)
  <2>1. Gate'
    BY <1>7
       DEF Leave, Exclusion, Gate, SoleProcess, OneProcess, Inside, TypeInv,
           NodeType, CallInv, CallType, notCaller, netVars
  <2>2. SoleProcess'
    BY <1>7
       DEF Leave, Exclusion, Gate, SoleProcess, OneProcess, Inside, TypeInv,
           NodeType, CallInv, CallType, notCaller, netVars
  <2>3. Early'
    BY <1>7
       DEF Leave, Exclusion, Early, TypeInv, CallInv, CallType, notCaller, workVars
  <2>4. Present'
    BY <1>7
       DEF Leave, Exclusion, Present, Early, TypeInv, CallInv, CallType, notCaller,
           workVars
  <2>5. Late'
    BY <1>7
       DEF Leave, Exclusion, Late, TypeInv, CallInv, CallType, notCaller
  <2>q. QED
    BY <1>7, <2>1, <2>2, <2>3, <2>4, <2>5, ExclusionFrame
       DEF Leave, Exclusion, loopVars, netVars, notCaller, partyVars, tssVars,
           workVars
<1>q. QED
  BY <1>1, <1>2, <1>3, <1>4, <1>5, <1>6, <1>7 DEF CallerStep

\* A step of a worker keeps the exclusion.
LEMMA ExclusionWorker ==
  ASSUME TypeInv, Exclusion, NEW o \in Ops, WorkerStep(o)
  PROVE  Exclusion'
<1>1. CASE WorkerCheck(o)
  <2>1. OneWorker'
    BY <1>1
       DEF WorkerCheck, Exclusion, OneWorker, SoleWorker, Unused, Working, TypeInv,
           WorkInv, WorkType, notWorker, tssVars, netVars, Errors
  <2>2. Early'
    BY <1>1
       DEF WorkerCheck, Exclusion, Early, TypeInv, WorkInv, WorkType, callVars,
           notWorker
  <2>3. Present'
    BY <1>1
       DEF WorkerCheck, Exclusion, Present, Early, TypeInv, WorkInv, WorkType,
           callVars, notWorker
  <2>4. Owned'
    BY <1>1
       DEF WorkerCheck, Exclusion, Owned, TypeInv, WorkInv, WorkType, callVars,
           notWorker, tssVars, Errors
  <2>5. Unused'
    BY <1>1
       DEF WorkerCheck, Exclusion, Unused, OneWorker, SoleWorker, Working, Early,
           TypeInv, WorkInv, WorkType, notWorker, tssVars, netVars, SoleProcess,
           OneProcess, Inside
  <2>q. QED
    BY <1>1, <2>1, <2>2, <2>3, <2>4, <2>5, ExclusionFrame
       DEF WorkerCheck, Exclusion, callVars, loopVars, netVars, nodeVars, notWorker,
           partyVars, tssVars
<1>2. CASE WorkerEnter(o)
  <2>1. OneWorker'
    BY <1>2
       DEF WorkerEnter, Exclusion, OneWorker, SoleWorker, Unused, Working, TypeInv,
           TssType, WorkInv, WorkType, netVars, Errors
  <2>2. Early'
    BY <1>2
       DEF WorkerEnter, Exclusion, Early, TypeInv, WorkInv, WorkType, callVars
  <2>3. Present'
    BY <1>2
       DEF WorkerEnter, Exclusion, Present, Early, TypeInv, WorkInv, WorkType,
           callVars
  <2>4. Owned'
    BY <1>2, Domains
       DEF WorkerEnter, Exclusion, Owned, TypeInv, TssType, Kinds, WorkInv,
           WorkType, callVars, Errors
  <2>5. Unused'
    BY <1>2
       DEF WorkerEnter, Exclusion, Unused, OneWorker, SoleWorker, Working, Early,
           TypeInv, TssType, WorkInv, WorkType, netVars, SoleProcess, OneProcess,
           Inside
  <2>q. QED
    BY <1>2, <2>1, <2>2, <2>3, <2>4, <2>5, ExclusionFrame
       DEF WorkerEnter, Exclusion, callVars, loopVars, netVars, nodeVars
<1>3. CASE WorkerDeadline(o)
  <2>1. OneWorker'
    BY <1>3
       DEF WorkerDeadline, Exclusion, OneWorker, SoleWorker, Unused, Working,
           TypeInv, WorkInv, WorkType, notWorker, tssVars, netVars, Errors
  <2>2. Early'
    BY <1>3
       DEF WorkerDeadline, Exclusion, Early, TypeInv, WorkInv, WorkType, callVars,
           notWorker
  <2>3. Present'
    BY <1>3
       DEF WorkerDeadline, Exclusion, Present, Early, TypeInv, WorkInv, WorkType,
           callVars, notWorker
  <2>4. Owned'
    BY <1>3
       DEF WorkerDeadline, Exclusion, Owned, TypeInv, WorkInv, WorkType, callVars,
           notWorker, tssVars, Errors
  <2>5. Unused'
    BY <1>3
       DEF WorkerDeadline, Exclusion, Unused, OneWorker, SoleWorker, Working, Early,
           TypeInv, WorkInv, WorkType, notWorker, tssVars, netVars, SoleProcess,
           OneProcess, Inside
  <2>q. QED
    BY <1>3, <2>1, <2>2, <2>3, <2>4, <2>5, ExclusionFrame
       DEF WorkerDeadline, Exclusion, callVars, loopVars, netVars, nodeVars,
           notWorker, partyVars, tssVars
<1>4. CASE WorkerTakesError(o)
  <2>1. OneWorker'
    BY <1>4
       DEF WorkerTakesError, Exclusion, OneWorker, SoleWorker, Unused, Working,
           TypeInv, WorkInv, WorkType, tssVars, netVars, Errors
  <2>2. Early'
    BY <1>4
       DEF WorkerTakesError, Exclusion, Early, TypeInv, WorkInv, WorkType, callVars
  <2>3. Present'
    BY <1>4
       DEF WorkerTakesError, Exclusion, Present, Early, TypeInv, WorkInv, WorkType,
           callVars
  <2>4. Owned'
    BY <1>4
       DEF WorkerTakesError, Exclusion, Owned, TypeInv, WorkInv, WorkType, callVars,
           tssVars, Errors
  <2>5. Unused'
    BY <1>4
       DEF WorkerTakesError, Exclusion, Unused, OneWorker, SoleWorker, Working,
           Early, TypeInv, WorkInv, WorkType, tssVars, netVars, SoleProcess,
           OneProcess, Inside
  <2>q. QED
    BY <1>4, <2>1, <2>2, <2>3, <2>4, <2>5, ExclusionFrame
       DEF WorkerTakesError, Exclusion, callVars, loopVars, netVars, nodeVars,
           tssVars
<1>5. CASE WorkerTakesOut(o)
  <2>1. OneWorker'
    BY <1>5
       DEF WorkerTakesOut, Exclusion, OneWorker, SoleWorker, Unused, Working,
           TypeInv, WorkInv, WorkType, tssVars, netVars, Errors
  <2>2. Early'
    BY <1>5
       DEF WorkerTakesOut, Exclusion, Early, TypeInv, WorkInv, WorkType, callVars
  <2>3. Present'
    BY <1>5
       DEF WorkerTakesOut, Exclusion, Present, Early, TypeInv, WorkInv, WorkType,
           callVars
  <2>4. Owned'
    <3>1. PICK w \in {"message", "convert"} : worker' = [worker EXCEPT ![o] = w]
      BY <1>5 DEF WorkerTakesOut
    <3>q. QED
      BY <1>5, <3>1
         DEF WorkerTakesOut, Exclusion, Owned, TypeInv, WorkInv, WorkType, callVars,
             tssVars
  <2>5. Unused'
    BY <1>5
       DEF WorkerTakesOut, Exclusion, Unused, OneWorker, SoleWorker, Working, Early,
           TypeInv, WorkInv, WorkType, tssVars, netVars, SoleProcess, OneProcess,
           Inside
  <2>q. QED
    BY <1>5, <2>1, <2>2, <2>3, <2>4, <2>5, ExclusionFrame
       DEF WorkerTakesOut, Exclusion, callVars, loopVars, netVars, nodeVars, tssVars
<1>6. CASE WorkerTakesEnd(o)
  <2>1. OneWorker'
    BY <1>6
       DEF WorkerTakesEnd, Exclusion, OneWorker, SoleWorker, Unused, Working,
           TypeInv, WorkInv, WorkType, netVars, Errors
  <2>2. Early'
    BY <1>6
       DEF WorkerTakesEnd, Exclusion, Early, TypeInv, WorkInv, WorkType, callVars
  <2>3. Present'
    BY <1>6
       DEF WorkerTakesEnd, Exclusion, Present, Early, TypeInv, WorkInv, WorkType,
           callVars
  <2>4. Owned'
    <3>1. PICK w \in {"done", "convert"} : worker' = [worker EXCEPT ![o] = w]
      BY <1>6 DEF WorkerTakesEnd
    <3>q. QED
      BY <1>6, <3>1
         DEF WorkerTakesEnd, Exclusion, Owned, TypeInv, WorkInv, WorkType, callVars
  <2>5. Unused'
    BY <1>6
       DEF WorkerTakesEnd, Exclusion, Unused, OneWorker, SoleWorker, Working, Early,
           TypeInv, WorkInv, WorkType, netVars, SoleProcess, OneProcess, Inside
  <2>q. QED
    BY <1>6, <2>1, <2>2, <2>3, <2>4, <2>5, ExclusionFrame
       DEF WorkerTakesEnd, Exclusion, callVars, netVars, nodeVars, partyVars
<1>7. CASE GiveMessage(o)
  <2>1. Gate'
    BY <1>7
       DEF GiveMessage, Exclusion, Gate, SoleProcess, OneProcess, Inside, TypeInv,
           CallInv, CallType, nodeVars, netVars
  <2>2. SoleProcess'
    BY <1>7
       DEF GiveMessage, Exclusion, Gate, SoleProcess, OneProcess, Inside, TypeInv,
           CallInv, CallType, nodeVars, netVars
  <2>3. OneWorker'
    <3> SUFFICES ASSUME ~overlapped' PROVE SoleWorker'
      BY DEF OneWorker
    <3>1. SoleWorker /\ ~overlapped
      BY <1>7 DEF GiveMessage, Exclusion, OneWorker, netVars
    <3>2. QED
      BY <1>7, <3>1
         DEF GiveMessage, Exclusion, SoleWorker, Early, Working, TypeInv, WorkInv,
             WorkType, tssVars, netVars, Errors
  <2>4. Early'
    BY <1>7
       DEF GiveMessage, Exclusion, Early, TypeInv, CallInv, CallType, WorkInv,
           WorkType
  <2>5. Present'
    BY <1>7
       DEF GiveMessage, Exclusion, Present, Early, TypeInv, WorkInv, WorkType,
           CallInv, CallType
  <2>6. Late'
    BY <1>7
       DEF GiveMessage, Exclusion, Late, TypeInv, CallInv, CallType
  <2>7. Owned'
    BY <1>7
       DEF GiveMessage, Exclusion, Owned, TypeInv, WorkInv, WorkType, tssVars,
           Errors
  <2>8. Unused'
    BY <1>7
       DEF GiveMessage, Exclusion, Unused, OneWorker, SoleWorker, Working, Early,
           TypeInv, WorkInv, WorkType, tssVars, netVars, SoleProcess, OneProcess,
           Inside
  <2>q. QED
    BY <1>7, <2>1, <2>2, <2>3, <2>4, <2>5, <2>6, <2>7, <2>8
       DEF GiveMessage, Exclusion, loopVars, netVars, nodeVars, partyVars, tssVars
<1>8. CASE GiveError(o)
  <2>1. Gate'
    BY <1>8
       DEF GiveError, Exclusion, Gate, SoleProcess, OneProcess, Inside, TypeInv,
           CallInv, CallType, nodeVars, netVars
  <2>2. SoleProcess'
    BY <1>8
       DEF GiveError, Exclusion, Gate, SoleProcess, OneProcess, Inside, TypeInv,
           CallInv, CallType, nodeVars, netVars
  <2>3. OneWorker'
    <3> SUFFICES ASSUME ~overlapped' PROVE SoleWorker'
      BY DEF OneWorker
    <3>1. SoleWorker /\ ~overlapped
      BY <1>8 DEF GiveError, Exclusion, OneWorker, netVars
    <3>2. QED
      BY <1>8, <3>1
         DEF GiveError, Exclusion, SoleWorker, Early, Working, TypeInv, WorkInv,
             WorkType, tssVars, AfterError, Errors, netVars
  <2>4. Early'
    BY <1>8
       DEF GiveError, Exclusion, Early, TypeInv, CallInv, CallType, WorkInv,
           WorkType, AfterError, Errors
  <2>5. Present'
    BY <1>8
       DEF GiveError, Exclusion, Present, Early, TypeInv, WorkInv, WorkType,
           CallInv, CallType, AfterError, Errors
  <2>6. Late'
    BY <1>8
       DEF GiveError, Exclusion, Late, TypeInv, CallInv, CallType
  <2>7. Owned'
    BY <1>8, Domains
       DEF GiveError, Exclusion, Owned, TypeInv, WorkInv, WorkType, CallInv,
           CallType, tssVars, AfterError, Errors, Late, TssType, Kinds
  <2>8. Unused'
    BY <1>8
       DEF GiveError, Exclusion, Unused, OneWorker, SoleWorker, Working, Early,
           TypeInv, WorkInv, WorkType, tssVars, AfterError, Errors, netVars,
           SoleProcess, OneProcess, Inside
  <2>q. QED
    BY <1>8, <2>1, <2>2, <2>3, <2>4, <2>5, <2>6, <2>7, <2>8
       DEF GiveError, Exclusion, loopVars, netVars, nodeVars, partyVars, tssVars
<1>9. CASE GiveDone(o)
  <2>1. Gate'
    BY <1>9
       DEF GiveDone, Exclusion, Gate, SoleProcess, OneProcess, Inside, TypeInv,
           CallInv, CallType, nodeVars, netVars
  <2>2. SoleProcess'
    BY <1>9
       DEF GiveDone, Exclusion, Gate, SoleProcess, OneProcess, Inside, TypeInv,
           CallInv, CallType, nodeVars, netVars
  <2>3. OneWorker'
    BY <1>9
       DEF GiveDone, Exclusion, OneWorker, SoleWorker, Unused, Working, TypeInv,
           WorkInv, WorkType, tssVars, netVars, Errors
  <2>4. Early'
    BY <1>9
       DEF GiveDone, Exclusion, Early, TypeInv, CallInv, CallType, WorkInv, WorkType
  <2>5. Present'
    BY <1>9
       DEF GiveDone, Exclusion, Present, Early, TypeInv, WorkInv, WorkType, CallInv,
           CallType, Errors
  <2>6. Late'
    BY <1>9
       DEF GiveDone, Exclusion, Late, TypeInv, CallInv, CallType
  <2>7. Owned'
    BY <1>9
       DEF GiveDone, Exclusion, Owned, TypeInv, WorkInv, WorkType, tssVars, Errors
  <2>8. Unused'
    BY <1>9
       DEF GiveDone, Exclusion, Unused, OneWorker, SoleWorker, Working, Early,
           TypeInv, WorkInv, WorkType, tssVars, netVars, SoleProcess, OneProcess,
           Inside
  <2>q. QED
    BY <1>9, <2>1, <2>2, <2>3, <2>4, <2>5, <2>6, <2>7, <2>8
       DEF GiveDone, Exclusion, loopVars, netVars, nodeVars, partyVars, tssVars
<1>10. CASE WorkerDrained(o)
  <2>1. OneWorker'
    BY <1>10
       DEF WorkerDrained, Exclusion, OneWorker, SoleWorker, Unused, Working,
           TypeInv, WorkInv, WorkType, notWorker, tssVars, netVars, Errors
  <2>2. Early'
    BY <1>10
       DEF WorkerDrained, Exclusion, Early, TypeInv, WorkInv, WorkType, callVars,
           notWorker
  <2>3. Present'
    BY <1>10
       DEF WorkerDrained, Exclusion, Present, Early, TypeInv, WorkInv, WorkType,
           callVars, notWorker, Errors
  <2>4. Owned'
    BY <1>10
       DEF WorkerDrained, Exclusion, Owned, TypeInv, WorkInv, WorkType, callVars,
           notWorker, tssVars, Errors
  <2>5. Unused'
    BY <1>10
       DEF WorkerDrained, Exclusion, Unused, OneWorker, SoleWorker, Working, Early,
           TypeInv, WorkInv, WorkType, notWorker, tssVars, netVars, SoleProcess,
           OneProcess, Inside
  <2>q. QED
    BY <1>10, <2>1, <2>2, <2>3, <2>4, <2>5, ExclusionFrame
       DEF WorkerDrained, Exclusion, callVars, loopVars, netVars, nodeVars,
           notWorker, partyVars, tssVars
<1>11. CASE WorkerReset(o)
  <2>1. OneWorker'
    BY <1>11
       DEF WorkerReset, Exclusion, OneWorker, SoleWorker, Unused, Working, TypeInv,
           WorkInv, WorkType, notWorker, netVars, Errors
  <2>2. Early'
    BY <1>11
       DEF WorkerReset, Exclusion, Early, TypeInv, WorkInv, WorkType, callVars,
           notWorker
  <2>3. Present'
    BY <1>11
       DEF WorkerReset, Exclusion, Present, Early, TypeInv, WorkInv, WorkType,
           callVars, notWorker, Errors
  <2>4. Owned'
    BY <1>11
       DEF WorkerReset, Exclusion, Owned, TypeInv, TssType, Kinds, WorkInv,
           WorkType, callVars, notWorker, Errors
  <2>5. Unused'
    BY <1>11
       DEF WorkerReset, Exclusion, Unused, OneWorker, SoleWorker, Working, Early,
           TypeInv, WorkInv, WorkType, notWorker, netVars, SoleProcess, OneProcess,
           Inside
  <2>q. QED
    BY <1>11, <2>1, <2>2, <2>3, <2>4, <2>5, ExclusionFrame
       DEF WorkerReset, Exclusion, callVars, loopVars, netVars, nodeVars, notWorker,
           partyVars
<1>12. CASE WorkerClear(o)
  <2>1. OneWorker'
    BY <1>12
       DEF WorkerClear, Exclusion, OneWorker, SoleWorker, Unused, Working, TypeInv,
           TssType, WorkInv, WorkType, notWorker, netVars, Errors
  <2>2. Early'
    BY <1>12
       DEF WorkerClear, Exclusion, Early, TypeInv, WorkInv, WorkType, callVars,
           notWorker
  <2>3. Present'
    BY <1>12
       DEF WorkerClear, Exclusion, Present, Early, TypeInv, WorkInv, WorkType,
           callVars, notWorker, Errors
  <2>4. Owned'
    BY <1>12
       DEF WorkerClear, Exclusion, Owned, TypeInv, WorkInv, WorkType, callVars,
           notWorker, Errors
  <2>5. Unused'
    BY <1>12
       DEF WorkerClear, Exclusion, Unused, OneWorker, SoleWorker, Working, Early,
           TypeInv, TssType, WorkInv, WorkType, notWorker, netVars, SoleProcess,
           OneProcess, Inside
  <2>q. QED
    BY <1>12, <2>1, <2>2, <2>3, <2>4, <2>5, ExclusionFrame
       DEF WorkerClear, Exclusion, callVars, loopVars, netVars, nodeVars, notWorker,
           partyVars
<1>q. QED
  BY <1>1, <1>2, <1>3, <1>4, <1>5, <1>6, <1>7, <1>8, <1>9, <1>10, <1>11, <1>12
     DEF WorkerStep

\* A step of a starter keeps the exclusion.
LEMMA ExclusionParty ==
  ASSUME TypeInv, Exclusion, NEW o \in Ops, PartyStep(o)
  PROVE  Exclusion'
<1>1. CASE StartParty(o)
  BY <1>1, ExclusionFrame
     DEF StartParty, Exclusion, callVars, loopVars, netVars, nodeVars, notParty,
         tssVars, workVars
<1>2. CASE StartFails(o)
  BY <1>2, ExclusionFrame
     DEF StartFails, Exclusion, callVars, loopVars, netVars, nodeVars, notParty,
         tssVars, workVars
<1>3. CASE StartReturns(o)
  BY <1>3, ExclusionFrame
     DEF StartReturns, Exclusion, callVars, loopVars, netVars, nodeVars, notParty,
         tssVars, workVars
<1>q. QED
  BY <1>1, <1>2, <1>3 DEF PartyStep

\* What the event loop does with a message keeps the exclusion.
LEMMA ExclusionLoop ==
  ASSUME TypeInv, Exclusion, LoopHandles
  PROVE  Exclusion'
<1>1. CASE PartyReady
  BY <1>1, ExclusionFrame
     DEF PartyReady, Exclusion, callVars, netVars, nodeVars, notLoop, partyVars,
         tssVars, workVars
<1>2. CASE GiveUp
  BY <1>2, ExclusionFrame
     DEF GiveUp, Exclusion, callVars, netVars, nodeVars, notLoop, partyVars,
         tssVars, workVars
<1>3. CASE CallUpdate
  BY <1>3, ExclusionFrame
     DEF CallUpdate, Exclusion, callVars, netVars, nodeVars, notLoop, partyVars,
         tssVars, workVars
<1>4. CASE Update
  BY <1>4, ExclusionFrame
     DEF Update, Exclusion, callVars, netVars, nodeVars, notLoop, tssVars, workVars
<1>5. CASE Step
  BY <1>5, ExclusionFrame
     DEF Step, Exclusion, callVars, netVars, nodeVars, notLoop, tssVars, workVars
<1>6. CASE StepSent
  BY <1>6, ExclusionFrame
     DEF StepSent, Exclusion, callVars, netVars, nodeVars, notLoop, partyVars,
         tssVars, workVars
<1>7. CASE UpdateReturns
  BY <1>7, ExclusionFrame
     DEF UpdateReturns, Exclusion, callVars, netVars, nodeVars, notLoop, partyVars,
         tssVars, workVars
<1>q. QED
  BY <1>1, <1>2, <1>3, <1>4, <1>5, <1>6, <1>7 DEF LoopHandles

\* What the event loop receives keeps the exclusion, as a Start message is
\* dropped while a process runs.
LEMMA ExclusionReceive ==
  ASSUME TypeInv, Exclusion, LoopReceives
  PROVE  Exclusion'
<1>1. CASE TakeUpdate
  BY <1>1, ExclusionFrame
     DEF TakeUpdate, Exclusion, callVars, netVars, nodeVars, notLoop, partyVars,
         tssVars, workVars
<1>2. CASE DeletePeer
  BY <1>2, ExclusionFrame
     DEF DeletePeer, Exclusion, callVars, loopVars, netVars, notCaller, partyVars,
         tssVars, workVars
<1>3. CASE Quit
  BY <1>3, ExclusionFrame
     DEF Quit, Exclusion, callVars, nodeVars, partyVars, tssVars, workVars, netVars
<1>4. ASSUME NEW o \in Ops, HandleStart(o)
     PROVE  Exclusion'
  <2>1. Gate'
    BY <1>4
       DEF HandleStart, Exclusion, Gate, SoleProcess, OneProcess, Inside, TypeInv,
           CallInv, CallType, nodeVars, Admit, notAdmit, notCaller, netVars
  <2>2. SoleProcess'
    BY <1>4
       DEF HandleStart, Exclusion, Gate, SoleProcess, OneProcess, Inside, TypeInv,
           CallInv, CallType, nodeVars, Admit, notAdmit, notCaller, netVars
  <2>3. Early'
    BY <1>4
       DEF HandleStart, Exclusion, Early, TypeInv, CallInv, CallType, Admit,
           notAdmit, notCaller, workVars
  <2>4. Present'
    BY <1>4
       DEF HandleStart, Exclusion, Present, Early, TypeInv, CallInv, CallType,
           Admit, notAdmit, notCaller, workVars
  <2>5. Late'
    BY <1>4
       DEF HandleStart, Exclusion, Late, TypeInv, CallInv, CallType, Admit,
           notAdmit, notCaller
  <2>6. Owned'
    BY <1>4, Domains
       DEF HandleStart, Exclusion, Owned, TypeInv, CallInv, CallType, Admit,
           notAdmit, notCaller, tssVars, workVars, Late, Early, TssType, Kinds,
           Errors
  <2>7. OneWorker' /\ Unused'
    <3>3. UNCHANGED overlapped \/ overlapped' = (overlapped \/ \E p \in Ops : caller[p] = "admitted")
      BY <1>4 DEF HandleStart, Admit, notCaller, netVars
    <3>1. UNCHANGED <<tssBusy, worker>>
      BY <1>4 DEF HandleStart, notAdmit, notCaller, tssVars, workVars
    <3>4. overlapped => overlapped'
      BY <3>3
    <3>2. SoleWorker => SoleWorker'
      BY <3>1 DEF SoleWorker, Working
    <3>q. QED
      BY <3>1, <3>2, <3>4 DEF Exclusion, OneWorker, Unused
  <2>q. QED
    BY <1>4, <2>1, <2>2, <2>3, <2>4, <2>5, <2>6, <2>7, ExclusionFrame
       DEF HandleStart, Exclusion, loopVars, netVars, nodeVars, Admit, notAdmit,
           notCaller, partyVars, tssVars, workVars
<1>q. QED
  BY <1>1, <1>2, <1>3, <1>4 DEF LoopReceives

\* Close keeps the exclusion.
LEMMA ExclusionClose ==
  ASSUME TypeInv, Exclusion, Close
  PROVE  Exclusion'
<1>1. CASE CloseCall
  BY <1>1, ExclusionFrame
     DEF CloseCall, Exclusion, callVars, loopVars, nodeVars, notNet, partyVars,
         tssVars, workVars, netVars
<1>2. CASE CloseReturns
  BY <1>2, ExclusionFrame
     DEF CloseReturns, Exclusion, callVars, loopVars, partyVars, tssVars, workVars,
         netVars
<1>q. QED
  BY <1>1, <1>2 DEF Close

\* The environment keeps the exclusion.
LEMMA ExclusionEnvironment ==
  ASSUME TypeInv, Exclusion, Environment
  PROVE  Exclusion'
<1>1. CASE PeerFails
  BY <1>1, ExclusionFrame
     DEF PeerFails, Exclusion, callVars, loopVars, nodeVars, notNet, partyVars,
         tssVars, workVars, netVars
<1>2. ASSUME NEW o \in Ops, Call(o)
     PROVE  Exclusion'
  <2>1. Gate'
    BY <1>2
       DEF Call, Exclusion, Gate, SoleProcess, OneProcess, Inside, TypeInv, CallInv,
           CallType, nodeVars, Admit, notAdmit, notCaller, netVars
  <2>2. SoleProcess'
    BY <1>2
       DEF Call, Exclusion, Gate, SoleProcess, OneProcess, Inside, TypeInv, CallInv,
           CallType, nodeVars, Admit, notAdmit, notCaller, netVars
  <2>3. Early'
    BY <1>2
       DEF Call, Exclusion, Early, TypeInv, CallInv, CallType, Admit, notAdmit,
           notCaller, workVars
  <2>4. Present'
    BY <1>2
       DEF Call, Exclusion, Present, Early, TypeInv, CallInv, CallType, Admit,
           notAdmit, notCaller, workVars
  <2>5. Late'
    BY <1>2
       DEF Call, Exclusion, Late, TypeInv, CallInv, CallType, Admit, notAdmit,
           notCaller
  <2>6. OneWorker' /\ Unused'
    BY <1>2
       DEF Call, Exclusion, OneWorker, SoleWorker, Unused, Working, Admit, notAdmit,
           notCaller, tssVars, workVars, netVars, Errors
  <2>q. QED
    BY <1>2, <2>1, <2>2, <2>3, <2>4, <2>5, <2>6, ExclusionFrame
       DEF Call, Exclusion, loopVars, netVars, nodeVars, Admit, notAdmit, notCaller,
           partyVars, tssVars, workVars
<1>3. ASSUME NEW o \in Ops, CallRefused(o)
     PROVE  Exclusion'
  <2>1. Gate'
    BY <1>3
       DEF CallRefused, Exclusion, Gate, SoleProcess, OneProcess, Inside, TypeInv,
           CallInv, CallType, nodeVars, notCaller, netVars
  <2>2. SoleProcess'
    BY <1>3
       DEF CallRefused, Exclusion, Gate, SoleProcess, OneProcess, Inside, TypeInv,
           CallInv, CallType, nodeVars, notCaller, netVars
  <2>3. Early'
    BY <1>3
       DEF CallRefused, Exclusion, Early, TypeInv, CallInv, CallType, notCaller,
           workVars
  <2>4. Present'
    BY <1>3
       DEF CallRefused, Exclusion, Present, Early, TypeInv, CallInv, CallType,
           notCaller, workVars
  <2>5. Late'
    BY <1>3
       DEF CallRefused, Exclusion, Late, TypeInv, CallInv, CallType, notCaller
  <2>6. Owned'
    BY <1>3, Domains
       DEF CallRefused, Exclusion, Owned, TypeInv, CallInv, CallType, notCaller,
           tssVars, workVars, Late, Early, TssType, Kinds, Errors
  <2>q. QED
    BY <1>3, <2>1, <2>2, <2>3, <2>4, <2>5, <2>6, ExclusionFrame
       DEF CallRefused, Exclusion, loopVars, netVars, nodeVars, notCaller,
           partyVars, tssVars, workVars
<1>4. ASSUME NEW o \in Ops, RemoteStart(o)
     PROVE  Exclusion'
  <2>1. Gate'
    BY <1>4
       DEF RemoteStart, Exclusion, Gate, SoleProcess, OneProcess, Inside, TypeInv,
           CallInv, CallType, nodeVars, notCaller, netVars
  <2>2. SoleProcess'
    BY <1>4
       DEF RemoteStart, Exclusion, Gate, SoleProcess, OneProcess, Inside, TypeInv,
           CallInv, CallType, nodeVars, notCaller, netVars
  <2>3. Early'
    BY <1>4
       DEF RemoteStart, Exclusion, Early, TypeInv, CallInv, CallType, notCaller,
           workVars
  <2>4. Present'
    BY <1>4
       DEF RemoteStart, Exclusion, Present, Early, TypeInv, CallInv, CallType,
           notCaller, workVars
  <2>5. Late'
    BY <1>4
       DEF RemoteStart, Exclusion, Late, TypeInv, CallInv, CallType, notCaller
  <2>q. QED
    BY <1>4, <2>1, <2>2, <2>3, <2>4, <2>5, ExclusionFrame
       DEF RemoteStart, Exclusion, loopVars, netVars, nodeVars, notCaller,
           partyVars, tssVars, workVars
<1>5. ASSUME NEW o \in Ops, PeerSends(o)
     PROVE  Exclusion'
  BY <1>5, ExclusionFrame
     DEF PeerSends, Exclusion, callVars, loopVars, nodeVars, notNet, partyVars,
         tssVars, workVars, netVars
<1>6. ASSUME NEW o \in Ops, Expire(o)
     PROVE  Exclusion'
  BY <1>6, ExclusionFrame
     DEF Expire, Exclusion, callVars, loopVars, nodeVars, notNet, partyVars,
         tssVars, workVars, netVars
<1>7. CASE ReshareUpdates
  BY <1>7, ExclusionFrame
     DEF ReshareUpdates, Exclusion, callVars, loopVars, nodeVars, notNet, partyVars,
         tssVars, workVars, netVars
<1>q. QED
  BY <1>1, <1>2, <1>3, <1>4, <1>5, <1>6, <1>7 DEF Environment

\* At the start nothing runs.
LEMMA ExclusionInit == Init => Exclusion
<1> SUFFICES ASSUME Init PROVE Exclusion
  OBVIOUS
<1>1. Gate /\ SoleProcess
  BY DEF Init, Gate, SoleProcess, OneProcess, Inside
<1>2. OneWorker /\ Unused
  BY DEF Init, OneWorker, SoleWorker, Unused, Working, Errors
<1>3. Early /\ Present /\ Late
  BY DEF Init, Early, Present, Late, Errors
<1>4. Owned
  BY DEF Init, Owned
<1>q. QED
  BY <1>1, <1>2, <1>3, <1>4 DEF Exclusion

\* Every step keeps the exclusion.
LEMMA ExclusionNext ==
  ASSUME TypeInv, Exclusion, [Next]_vars
  PROVE  Exclusion'
<1>1. ASSUME NEW o \in Ops, CallerStep(o) PROVE Exclusion'
  BY <1>1, ExclusionCaller
<1>2. ASSUME NEW o \in Ops, WorkerStep(o) PROVE Exclusion'
  BY <1>2, ExclusionWorker
<1>3. ASSUME NEW o \in Ops, PartyStep(o) PROVE Exclusion'
  BY <1>3, ExclusionParty
<1>4. CASE LoopHandles
  BY <1>4, ExclusionLoop
<1>5. CASE LoopReceives
  BY <1>5, ExclusionReceive
<1>6. CASE Close
  BY <1>6, ExclusionClose
<1>7. CASE Environment
  BY <1>7, ExclusionEnvironment
<1>8. CASE UNCHANGED vars
  BY <1>8, ExclusionFrame
     DEF Exclusion, vars, nodeVars, tssVars, callVars, workVars, netVars
<1>q. QED
  BY <1>1, <1>2, <1>3, <1>4, <1>5, <1>6, <1>7, <1>8 DEF Next

\* The inductive invariant holds, for all constants.
THEOREM ExclusionCorrect ==
  Spec => [](TypeInv /\ Exclusion)
<1>1. Init => TypeInv /\ Exclusion
  BY TypeInit, ExclusionInit
<1>2. TypeInv /\ Exclusion /\ [Next]_vars => (TypeInv /\ Exclusion)'
  BY TypeNext, ExclusionNext
<1>q. QED
  BY <1>1, <1>2, PTL DEF Spec

\* aProcessIsRunning of the signer admits one worker at a time, also when an
\* abandoned worker outlives its caller, until the node lets in two operations at
\* once.
THEOREM OneWorkerCorrect ==
  Spec => []OneWorker
<1>1. TypeInv /\ Exclusion => OneWorker
  BY DEF Exclusion
<1>q. QED
  BY <1>1, ExclusionCorrect, PTL

\* A party the signer points to has a worker whose caller still listens, or that
\* only waits for updates before it resets the party, unless the operation passed
\* its deadline or met an unknown destination.
THEOREM PartyOwnedCorrect ==
  Spec => []PartyOwned
<1>1. TypeInv /\ Exclusion => PartyOwned
  <2> SUFFICES ASSUME TypeInv, Exclusion, NEW k \in Kinds, ptr[k] # NoOp
               PROVE  Bound(ptr[k]) \/ result[ptr[k]] \in {"deadline", "unknown"}
    BY DEF PartyOwned
  <2>1. ptr[k] \in Ops
    BY Domains DEF TypeInv, TssType
  <2>q. QED
    BY <2>1 DEF Exclusion, Owned, Present, Bound, Errors
<1>q. QED
  BY <1>1, ExclusionCorrect, PTL

\* A worker is left without its caller by an unknown destination only.
THEOREM AbandonedCorrect ==
  Spec => []AbandonedOnlyByRoute
<1>1. TypeInv /\ Exclusion => AbandonedOnlyByRoute
  <2> SUFFICES ASSUME Exclusion, NEW o \in Ops,
                      worker[o] \in Errors \cup {"select", "message", "done"},
                      caller[o] \in {"leaving", "returned"}
               PROVE  result[o] = "unknown"
    BY DEF AbandonedOnlyByRoute
  <2>q. QED
    BY DEF Exclusion, Present
<1>q. QED
  BY <1>1, ExclusionCorrect, PTL

\* What has been let in at once stays so.
LEMMA OverlappedStays ==
  ASSUME [Next]_vars
  PROVE  overlapped => overlapped'
<1>1. ASSUME NEW o \in Ops, CallerStep(o) PROVE UNCHANGED overlapped
  BY <1>1 DEF CallerStep, EnterKeyGen, EnterSign, JoinSign, EthSendFails, Route,
              Finish, Leave, notCaller, netVars
<1>2. ASSUME NEW o \in Ops, WorkerStep(o) PROVE UNCHANGED overlapped
  BY <1>2 DEF WorkerStep, WorkerCheck, WorkerEnter, WorkerDeadline,
              WorkerTakesError, WorkerTakesOut, WorkerTakesEnd, GiveMessage,
              GiveError, GiveDone, WorkerDrained, WorkerReset, WorkerClear,
              notWorker, netVars
<1>3. ASSUME NEW o \in Ops, PartyStep(o) PROVE UNCHANGED overlapped
  BY <1>3 DEF PartyStep, StartParty, StartFails, StartReturns, notParty, netVars
<1>4. CASE LoopHandles
  BY <1>4 DEF LoopHandles, PartyReady, GiveUp, CallUpdate, Update, Step, StepSent,
              UpdateReturns, notLoop, netVars
<1>5. ASSUME NEW o \in Ops, Admit(o) PROVE overlapped => overlapped'
  BY <1>5 DEF Admit
<1>6. CASE LoopReceives
  BY <1>5, <1>6 DEF LoopReceives, TakeUpdate, DeletePeer, Quit, HandleStart, notLoop,
              notCaller, netVars
<1>7. CASE Close \/ Environment
  BY <1>5, <1>7 DEF Close, CloseCall, CloseReturns, Environment, PeerFails, Call,
              ReshareUpdates, CallRefused, RemoteStart, PeerSends, Expire, notNet,
              notCaller, netVars
<1>8. CASE UNCHANGED vars
  BY <1>8 DEF vars, netVars
<1>q. QED
  BY <1>1, <1>2, <1>3, <1>4, <1>6, <1>7, <1>8 DEF Next

\* Only a worker that makes or resets its party changes a pointer.
LEMMA PtrChanges ==
  ASSUME [Next]_vars
  PROVE  UNCHANGED ptr \/ \E o \in Ops : WorkerEnter(o) \/ WorkerReset(o)
<1>1. ASSUME NEW o \in Ops, CallerStep(o) PROVE UNCHANGED ptr
  BY <1>1 DEF CallerStep, EnterKeyGen, EnterSign, JoinSign, EthSendFails, Route,
              Finish, Leave, notCaller, tssVars
<1>2. ASSUME NEW o \in Ops, WorkerStep(o)
      PROVE  UNCHANGED ptr \/ WorkerEnter(o) \/ WorkerReset(o)
  BY <1>2 DEF WorkerStep, WorkerCheck, WorkerDeadline, WorkerTakesError,
              WorkerTakesOut, WorkerTakesEnd, GiveMessage, GiveError, GiveDone,
              WorkerDrained, WorkerClear, notWorker, tssVars
<1>3. ASSUME NEW o \in Ops, PartyStep(o) PROVE UNCHANGED ptr
  BY <1>3 DEF PartyStep, StartParty, StartFails, StartReturns, notParty, tssVars
<1>4. CASE LoopHandles
  BY <1>4 DEF LoopHandles, PartyReady, GiveUp, CallUpdate, Update, Step, StepSent,
              UpdateReturns, notLoop, tssVars
<1>5. CASE LoopReceives
  BY <1>5 DEF LoopReceives, TakeUpdate, DeletePeer, Quit, HandleStart, notLoop,
              Admit, notAdmit, notCaller, tssVars
<1>6. CASE Close \/ Environment
  BY <1>6 DEF Close, CloseCall, CloseReturns, Environment, PeerFails, Call,
              ReshareUpdates, Admit, notAdmit, CallRefused, RemoteStart, PeerSends, Expire, notNet, notCaller,
              tssVars
<1>7. CASE UNCHANGED vars
  BY <1>7 DEF vars, tssVars
<1>q. QED
  BY <1>1, <1>2, <1>3, <1>4, <1>5, <1>6, <1>7 DEF Next

\* No operation replaces or clears the party of another one that still runs, until
\* the node lets in two at once.
THEOREM PartyKeptCorrect ==
  Spec => PartyKept
<1> DEFINE Kept == overlapped' \/ \A k \in Kinds : ptr[k] # NoOp /\ ptr'[k] # ptr[k] =>
                     worker[ptr[k]] = "reset" \/ result[ptr[k]] = "deadline"
<1>1. ASSUME TypeInv, Exclusion, [Next]_vars PROVE Kept
  <2>1. CASE UNCHANGED ptr
    BY <2>1
  <2>2. ASSUME NEW o \in Ops, WorkerEnter(o) PROVE Kept
    BY <1>1, <2>2, Domains
       DEF Exclusion, Owned, OneWorker, SoleWorker, Unused, Working, Errors,
           WorkerEnter, TypeInv, TssType, Kinds, netVars
  <2>3. ASSUME NEW o \in Ops, WorkerReset(o) PROVE Kept
    BY <1>1, <2>3, Domains
       DEF Exclusion, Owned, OneWorker, SoleWorker, Working, Errors, WorkerReset,
           TypeInv, TssType, Kinds, notWorker, netVars
  <2>4. UNCHANGED ptr \/ \E o \in Ops : WorkerEnter(o) \/ WorkerReset(o)
    BY <1>1, PtrChanges
  <2>q. QED
    BY <2>1, <2>2, <2>3, <2>4
<1>2. TypeInv /\ Exclusion /\ [Next]_vars => Kept
  BY <1>1
<1>q. QED
  BY <1>2, ExclusionCorrect, PTL DEF Spec, PartyKept

==============================================================================
