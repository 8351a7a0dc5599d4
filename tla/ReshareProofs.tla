---------------------------- MODULE ReshareProofs ----------------------------
(***************************************************************************)
(* Theorems about Reshare and their proofs: the types, what a returned key *)
(* rests on, when the share is replaced, whose updates wg.Wait() waits for *)
(* after Done, and that a returned key leaves no message behind but those  *)
(* of the last round.                                                      *)
(***************************************************************************)
EXTENDS Reshare, TLAPS

\* Workers that hold the signer's aProcessIsRunning.
Alive(o) == worker[o] \in {"createNew", "startOld", "select", "done", "deadline",
                           "library", "convert", "drain", "clear"}

\* Workers that may still replace the share.
Working == {"enter", "createNew", "startOld", "select"}

\* A party computes, sends and ends only after its Start, and ends once.
PartyShape ==
  \A o \in Reshares, s \in Sides :
    /\ hold[o][s] = "end" => awaits[o][s] = 5
    /\ hold[o][s] \in {"start", "send"} => out[o][s] \in Rounds
    /\ awaits[o][s] = 5 => hold[o][s] \in {"free", "step", "end"}
    /\ hold[o][s] \in {"none", "created", "ready", "failed"} => awaits[o][s] = 0

\* Which parties ReshareKey has made.
PartyMade ==
  \A o \in Reshares :
    /\ worker[o] \in {"none", "enter", "refused"} =>
         \A s \in Sides : hold[o][s] = "none"
    /\ worker[o] = "createNew" => hold[o]["new"] = "none"
    /\ worker[o] \in {"createNew", "startOld"} => hold[o]["old"] \in {"none", "created"}
    /\ Me \notin members[o]["old"] => hold[o]["old"] = "none"
    /\ /\ worker[o] \in {"createNew", "startOld", "select", "done"}
       /\ Me \in members[o]["old"]
       => hold[o]["old"] # "none"
    /\ worker[o] \in {"startOld", "select", "done"} => hold[o]["new"] # "none"

\* The end of a party has been taken.
Delivered(o, s) == awaits[o][s] = 5 /\ hold[o][s] # "end"

\* reSharingEnded counts the ends that were taken.
EndCount ==
  \A o \in Reshares :
    ended[o] = IF Delivered(o, "old") THEN IF Delivered(o, "new") THEN 2 ELSE 1
               ELSE IF Delivered(o, "new") THEN 1 ELSE 0

\* One resharing is inside, and an answer ends it.
OneCaller ==
  /\ \A o \in Reshares :
       /\ Inside(o) => busy
       /\ worker[o] \in {"enter", "refused"} => caller[o] = "select"
       /\ caller[o] \in {"idle", "offered"} => worker[o] = "none" /\ result[o] = "none"
       /\ caller[o] \in {"select", "finish"} => result[o] = "none"
  /\ \A g \in pending : worker[g.op] \notin {"none", "enter", "refused"}
  /\ \A o, p \in Reshares : Inside(o) /\ Inside(p) => o = p

\* The signer has one worker.
OneWorker ==
  /\ \A o \in Reshares : Alive(o) => tssBusy
  /\ \A o, p \in Reshares : Alive(o) /\ Alive(p) => o = p

\* A worker that has lost its caller stays, and keeps the signer busy.
Stuck(p) == /\ worker[p] \in {"done", "library", "convert"}
            /\ caller[p] \in {"leaving", "returned"}

\* The node is in the old committee exactly when it has a share, as long as its
\* worker runs.
InOld(o) == Me \in members[o]["old"] <=> share # NoShare

CommitteeKept ==
  \A o \in Reshares :
    /\ worker[o] \in {"createNew", "startOld", "select"} => InOld(o)
    /\ worker[o] = "enter" => InOld(o) \/ \E p \in Reshares : Stuck(p)
    /\ worker[o] = "startOld" => Me \in members[o]["old"]

\* The rounds a party of a side waits for; five is after the last.
WaitsFor(s) == IF s = "old" THEN {0, 2, 4, 5} ELSE {0, 1, 3, 4, 5}

\* A party that sends no more.
Over(o, s) == hold[o][s] = "none" \/ (awaits[o][s] = 5 /\ hold[o][s] # "end")

DoneOver ==
  \A o \in Reshares :
    \/ worker[o] = "done"
    \/ worker[o] \in {"drain", "clear", "gone"} /\ result[o] \in {"none", "ok"}
    => \A s \in Sides : Over(o, s)

\* A party has the messages of the rounds before the one it waits for.
RoundsHeld ==
  \A o \in Reshares, s \in Sides :
    /\ awaits[o][s] \in WaitsFor(s)
    /\ \A r \in Rounds : r < awaits[o][s] /\ s \in SidesOf(r) => Has(o, s, r)

Ends(o) == caller[o] = "finish" \/ (caller[o] = "leaving" /\ result[o] = "ok")

\* What is kept from Done to the return.
ShareKept ==
  \A o \in Reshares :
    /\ caller[o] = "finish" \/ result[o] = "ok" =>
         \A s \in OwnSides(o) : awaits[o][s] = 5
    /\ worker[o] = "done" \/ Ends(o) => share \in Nat
    /\ Ends(o) => \A p \in Reshares : worker[p] \notin Working

ReshareInv ==
  /\ PartyShape /\ PartyMade /\ EndCount
  /\ OneCaller /\ OneWorker /\ CommitteeKept
  /\ DoneOver /\ RoundsHeld /\ ShareKept

-----------------------------------------------------------------------------
(* What a step does to one party, and that it leaves the others alone.       *)

PartyType ==
  /\ hold \in [Reshares -> [Sides -> HoldAt]]
  /\ awaits \in [Reshares -> [Sides -> 0..5]]
  /\ out \in [Reshares -> [Sides -> 0..4]]
  /\ got \in [Reshares -> [Sides -> SUBSET Messages]]

Only(o, s) ==
  \A p \in Reshares, t \in Sides : p # o \/ t # s =>
    /\ hold'[p][t] = hold[p][t] /\ awaits'[p][t] = awaits[p][t]
    /\ out'[p][t] = out[p][t] /\ got'[p][t] = got[p][t]

\* The update of one entry of a function of two arguments.
LEMMA Nested ==
  ASSUME NEW A, NEW B, NEW V, NEW f \in [A -> [B -> V]], NEW a \in A, NEW b \in B,
         NEW v \in V
  PROVE  LET h == [f EXCEPT ![a][b] = v]
         IN  /\ h \in [A -> [B -> V]] /\ h[a][b] = v
             /\ \A x \in A, y \in B : x # a \/ y # b => h[x][y] = f[x][y]
OBVIOUS

\* ReshareKey creates a party, starts it, and takes its error.
LEMMA HoldMoves ==
  ASSUME PartyType, NEW o \in Reshares, NEW s \in Sides, NEW h \in HoldAt,
         hold' = [hold EXCEPT ![o][s] = h], UNCHANGED <<awaits, out, got>>
  PROVE  PartyType' /\ Only(o, s) /\ hold'[o][s] = h
<1>1. hold \in [Reshares -> [Sides -> HoldAt]]
  BY DEF PartyType
<1>2. /\ hold' \in [Reshares -> [Sides -> HoldAt]] /\ hold'[o][s] = h
      /\ \A p \in Reshares, t \in Sides : p # o \/ t # s => hold'[p][t] = hold[p][t]
  BY <1>1, Nested
<1> QED
  BY <1>2 DEF PartyType, Only

LEMMA OldMade ==
  ASSUME PartyType, NEW o \in Reshares, WorkerEnter(o)
  PROVE  /\ PartyType' /\ UNCHANGED <<awaits, out, got>>
         /\ \/ UNCHANGED hold /\ (tssBusy \/ share = NoShare)
            \/ /\ ~tssBusy /\ share # NoShare
               /\ Only(o, "old") /\ hold'[o]["old"] = "created"
<1>1. UNCHANGED <<awaits, out, got>>
  BY DEF WorkerEnter
<1>2. CASE tssBusy \/ share = NoShare
  BY <1>1, <1>2 DEF WorkerEnter, PartyType
<1>3. CASE ~tssBusy /\ share # NoShare
  <2>1. hold' = [hold EXCEPT ![o]["old"] = "created"]
    BY <1>3 DEF WorkerEnter
  <2>2. "old" \in Sides /\ "created" \in HoldAt
    BY DEF Sides, HoldAt
  <2> QED
    BY <1>1, <1>3, <2>1, <2>2, HoldMoves
<1> QED
  BY <1>2, <1>3

LEMMA OutTaken ==
  ASSUME PartyType, NEW o \in Reshares, NEW s \in Sides, WorkerTakesOut(o)!2!(s),
         UNCHANGED <<awaits, got>>
  PROVE  /\ PartyType' /\ Only(o, s) /\ UNCHANGED awaits
         /\ hold[o][s] \in {"start", "send"}
         /\ hold'[o][s] \in {"free", "step"} /\ out'[o][s] = 0
<1> DEFINE h == IF hold[o][s] = "start" THEN "free" ELSE "step"
<1>1. /\ hold' = [hold EXCEPT ![o][s] = h] /\ out' = [out EXCEPT ![o][s] = 0]
      /\ h \in HoldAt /\ h \in {"free", "step"} /\ 0 \in 0..4
  BY DEF PartyType, HoldAt
<1> HIDE DEF h
<1>2. /\ hold' \in [Reshares -> [Sides -> HoldAt]] /\ hold'[o][s] = h
      /\ \A p \in Reshares, t \in Sides : p # o \/ t # s => hold'[p][t] = hold[p][t]
  BY <1>1, Nested DEF PartyType
<1>3. /\ out' \in [Reshares -> [Sides -> 0..4]] /\ out'[o][s] = 0
      /\ \A p \in Reshares, t \in Sides : p # o \/ t # s => out'[p][t] = out[p][t]
  BY <1>1, Nested DEF PartyType
<1> QED
  BY <1>1, <1>2, <1>3 DEF PartyType, Only

LEMMA PartyStarts ==
  ASSUME PartyType, NEW o \in Reshares, NEW s \in Sides, StartParty(o, s)
  PROVE  /\ PartyType' /\ Only(o, s)
         /\ hold[o][s] = "ready" /\ UNCHANGED got
         /\ \/ /\ s = "old" /\ hold'[o][s] = "start"
               /\ awaits'[o][s] = 2 /\ out'[o][s] = 1
            \/ s = "new" /\ hold'[o][s] = "free" /\ awaits'[o][s] = 1
<1> DEFINE h == IF s = "old" THEN "start" ELSE "free"
           a == IF s = "old" THEN 2 ELSE 1
           b == IF s = "old" THEN 1 ELSE 0
<1>1. /\ hold' = [hold EXCEPT ![o][s] = h] /\ awaits' = [awaits EXCEPT ![o][s] = a]
      /\ out' = [out EXCEPT ![o][s] = b]
      /\ h \in HoldAt /\ a \in 0..5 /\ b \in 0..4
      /\ hold[o][s] = "ready" /\ UNCHANGED got
  BY DEF StartParty, HoldAt
<1>2. \/ s = "old" /\ h = "start" /\ a = 2 /\ b = 1
      \/ s = "new" /\ h = "free" /\ a = 1
  BY DEF Sides
<1> HIDE DEF h, a, b
<1>3. /\ hold' \in [Reshares -> [Sides -> HoldAt]] /\ hold'[o][s] = h
      /\ \A p \in Reshares, t \in Sides : p # o \/ t # s => hold'[p][t] = hold[p][t]
  BY <1>1, Nested DEF PartyType
<1>4. /\ awaits' \in [Reshares -> [Sides -> 0..5]] /\ awaits'[o][s] = a
      /\ \A p \in Reshares, t \in Sides : p # o \/ t # s => awaits'[p][t] = awaits[p][t]
  BY <1>1, Nested DEF PartyType
<1>5. /\ out' \in [Reshares -> [Sides -> 0..4]] /\ out'[o][s] = b
      /\ \A p \in Reshares, t \in Sides : p # o \/ t # s => out'[p][t] = out[p][t]
  BY <1>1, Nested DEF PartyType
<1> QED
  BY <1>1, <1>2, <1>3, <1>4, <1>5 DEF PartyType, Only

\* A party that computes stops, sends the next round, or ends.
LEMMA PartySteps ==
  ASSUME PartyType, NEW o \in Reshares, NEW s \in Sides, Step(o, s)
  PROVE  /\ PartyType' /\ Only(o, s)
         /\ hold[o][s] = "step" /\ UNCHANGED got
         /\ \/ /\ hold'[o][s] = "free" /\ awaits'[o][s] = awaits[o][s]
            \/ /\ hold'[o][s] = "send" /\ out'[o][s] = awaits[o][s] + 1
               /\ awaits[o][s] \in 1..3 /\ Has(o, s, awaits[o][s])
               /\ awaits'[o][s] = IF awaits[o][s] = 1 THEN 3 ELSE 4
            \/ /\ hold'[o][s] = "end" /\ awaits'[o][s] = 5
               /\ awaits[o][s] = 4 /\ Has(o, s, 4)
<1>1. CASE hold' = [hold EXCEPT ![o][s] = "free"] /\ UNCHANGED <<awaits, out>>
  <2>1. "free" \in HoldAt /\ hold[o][s] = "step" /\ UNCHANGED got
    BY DEF HoldAt, Step
  <2> QED
    BY <1>1, <2>1, HoldMoves DEF PartyType
<1>2. CASE /\ awaits[o][s] \in 1..3 /\ Has(o, s, awaits[o][s])
           /\ out' = [out EXCEPT ![o][s] = awaits[o][s] + 1]
           /\ awaits' = [awaits EXCEPT ![o][s] = IF @ = 1 THEN 3 ELSE 4]
           /\ hold' = [hold EXCEPT ![o][s] = "send"]
  <2> DEFINE a == IF awaits[o][s] = 1 THEN 3 ELSE 4
             b == awaits[o][s] + 1
  <2>1. /\ awaits' = [awaits EXCEPT ![o][s] = a] /\ out' = [out EXCEPT ![o][s] = b]
        /\ a \in 0..5 /\ b \in 0..4 /\ "send" \in HoldAt
        /\ hold[o][s] = "step" /\ UNCHANGED got
    BY <1>2 DEF PartyType, HoldAt, Step
  <2>2. a = (IF awaits[o][s] = 1 THEN 3 ELSE 4) /\ b = awaits[o][s] + 1
    OBVIOUS
  <2> HIDE DEF a, b
  <2>3. /\ hold' \in [Reshares -> [Sides -> HoldAt]] /\ hold'[o][s] = "send"
        /\ \A p \in Reshares, t \in Sides : p # o \/ t # s => hold'[p][t] = hold[p][t]
    BY <1>2, <2>1, Nested DEF PartyType
  <2>4. /\ awaits' \in [Reshares -> [Sides -> 0..5]] /\ awaits'[o][s] = a
        /\ \A p \in Reshares, t \in Sides : p # o \/ t # s => awaits'[p][t] = awaits[p][t]
    BY <2>1, Nested DEF PartyType
  <2>5. /\ out' \in [Reshares -> [Sides -> 0..4]] /\ out'[o][s] = b
        /\ \A p \in Reshares, t \in Sides : p # o \/ t # s => out'[p][t] = out[p][t]
    BY <2>1, Nested DEF PartyType
  <2> QED
    BY <1>2, <2>1, <2>2, <2>3, <2>4, <2>5 DEF PartyType, Only
<1>3. CASE /\ awaits[o][s] = 4 /\ Has(o, s, 4)
           /\ awaits' = [awaits EXCEPT ![o][s] = 5]
           /\ hold' = [hold EXCEPT ![o][s] = "end"] /\ UNCHANGED out
  <2>1. "end" \in HoldAt /\ 5 \in 0..5 /\ hold[o][s] = "step" /\ UNCHANGED got
    BY DEF HoldAt, Step
  <2>2. /\ hold' \in [Reshares -> [Sides -> HoldAt]] /\ hold'[o][s] = "end"
        /\ \A p \in Reshares, t \in Sides : p # o \/ t # s => hold'[p][t] = hold[p][t]
    BY <1>3, <2>1, Nested DEF PartyType
  <2>3. /\ awaits' \in [Reshares -> [Sides -> 0..5]] /\ awaits'[o][s] = 5
        /\ \A p \in Reshares, t \in Sides : p # o \/ t # s => awaits'[p][t] = awaits[p][t]
    BY <1>3, <2>1, Nested DEF PartyType
  <2> QED
    BY <1>3, <2>1, <2>2, <2>3 DEF PartyType, Only
<1> QED
  BY <1>1, <1>2, <1>3 DEF Step

\* A party stores a message, and computes when it was free.
LEMMA PartyUpdated ==
  ASSUME PartyType, NEW m \in Messages, NEW o \in Reshares, NEW s \in Sides,
         s = m.side, Update(m, o)
  PROVE  /\ PartyType' /\ Only(o, s) /\ UNCHANGED <<awaits, out>>
         /\ got[o][s] \subseteq got'[o][s] /\ got'[o][s] \subseteq got[o][s] \cup {m}
         /\ hold[o][s] \in {"created", "ready", "failed", "free"}
         /\ \/ hold'[o][s] = hold[o][s]
            \/ hold[o][s] = "free" /\ hold'[o][s] = "step"
<1> DEFINE h == IF hold[o][s] = "free" THEN "step" ELSE hold[o][s]
           g == got[o][s] \cup {m}
<1>2. CASE m.from \notin members[o]["new"]
  BY <1>2 DEF Update, PartyType, Only
<1>3. CASE m.from \in members[o]["new"]
  <2>1. /\ hold' = [hold EXCEPT ![o][s] = h] /\ got' = [got EXCEPT ![o][s] = g]
        /\ hold[o][s] \in {"created", "ready", "failed", "free"}
        /\ UNCHANGED <<awaits, out>>
    BY <1>3 DEF Update
  <2>2. h \in HoldAt /\ (h = hold[o][s] \/ (hold[o][s] = "free" /\ h = "step"))
    BY <2>1 DEF HoldAt
  <2>3. /\ g \in SUBSET Messages
        /\ got[o][s] \subseteq g /\ g \subseteq got[o][s] \cup {m}
    BY DEF PartyType
  <2> HIDE DEF h, g
  <2>4. /\ hold' \in [Reshares -> [Sides -> HoldAt]] /\ hold'[o][s] = h
        /\ \A p \in Reshares, t \in Sides : p # o \/ t # s => hold'[p][t] = hold[p][t]
    BY <2>1, <2>2, Nested DEF PartyType
  <2>5. /\ got' \in [Reshares -> [Sides -> SUBSET Messages]] /\ got'[o][s] = g
        /\ \A p \in Reshares, t \in Sides : p # o \/ t # s => got'[p][t] = got[p][t]
    BY <2>1, <2>3, Nested DEF PartyType
  <2> QED
    BY <2>1, <2>2, <2>3, <2>4, <2>5 DEF PartyType, Only
<1> QED
  BY <1>2, <1>3

\* What a step may do to a party.
Kept(o, s) ==
  /\ hold'[o][s] = hold[o][s] /\ awaits'[o][s] = awaits[o][s]
  /\ out'[o][s] = out[o][s] /\ got'[o][s] = got[o][s]

Made(o, s) ==
  /\ awaits'[o][s] = awaits[o][s] /\ got'[o][s] = got[o][s]
  /\ \/ /\ s = "old" /\ WorkerEnter(o) /\ ~tssBusy /\ share # NoShare
        /\ hold'[o][s] = "created"
     \/ s = "new" /\ CreateNew(o) /\ hold'[o][s] = "ready"
     \/ s = "old" /\ StartOld(o) /\ hold'[o][s] = "ready"

Failed(o, s) ==
  /\ awaits'[o][s] = awaits[o][s] /\ got'[o][s] = got[o][s]
  /\ \/ hold[o][s] = "ready" /\ hold'[o][s] = "failed"
     \/ hold[o][s] = "failed" /\ hold'[o][s] = "free"

Started(o, s) ==
  /\ hold[o][s] = "ready" /\ got'[o][s] = got[o][s]
  /\ \/ s = "old" /\ hold'[o][s] = "start" /\ awaits'[o][s] = 2 /\ out'[o][s] = 1
     \/ s = "new" /\ hold'[o][s] = "free" /\ awaits'[o][s] = 1

Stepped(o, s) ==
  /\ hold[o][s] = "step" /\ got'[o][s] = got[o][s]
  /\ \/ /\ hold'[o][s] = "free" /\ awaits'[o][s] = awaits[o][s]
     \/ /\ hold'[o][s] = "send" /\ out'[o][s] = awaits[o][s] + 1
        /\ awaits[o][s] \in 1..3 /\ Has(o, s, awaits[o][s])
        /\ awaits'[o][s] = IF awaits[o][s] = 1 THEN 3 ELSE 4
     \/ /\ hold'[o][s] = "end" /\ awaits'[o][s] = 5
        /\ awaits[o][s] = 4 /\ Has(o, s, 4)

Taken(o, s) ==
  /\ awaits'[o][s] = awaits[o][s] /\ got'[o][s] = got[o][s]
  /\ hold[o][s] \in {"start", "send"} /\ hold'[o][s] \in {"free", "step"}

EndTaken(o, s) ==
  /\ awaits'[o][s] = awaits[o][s] /\ got'[o][s] = got[o][s]
  /\ hold[o][s] = "end" /\ hold'[o][s] = "free" /\ WorkerTakesEnd(o)

Stored(o, s) ==
  /\ awaits'[o][s] = awaits[o][s] /\ out'[o][s] = out[o][s]
  /\ got[o][s] \subseteq got'[o][s] /\ got'[o][s] \subseteq got[o][s] \cup posted
  /\ hold[o][s] \in {"created", "ready", "failed", "free"}
  /\ \/ hold'[o][s] = hold[o][s]
     \/ hold[o][s] = "free" /\ hold'[o][s] = "step"

Change(o, s) ==
  \/ Kept(o, s) \/ Made(o, s) \/ Failed(o, s) \/ Started(o, s) \/ Stepped(o, s)
  \/ Taken(o, s) \/ EndTaken(o, s) \/ Stored(o, s)

LEMMA OnlyChange ==
  ASSUME NEW o \in Reshares, NEW s \in Sides, Only(o, s), Change(o, s)
  PROVE  \A p \in Reshares, t \in Sides : Change(p, t)
BY DEF Only, Change, Kept

LEMMA Changes ==
  ASSUME TypeOK, [Next]_vars
  PROVE  \A o \in Reshares, s \in Sides : Change(o, s)
<1> SUFFICES ASSUME PartyType PROVE \A o \in Reshares, s \in Sides : Change(o, s)
  BY DEF TypeOK, PartyType
<1>s. "old" \in Sides /\ "new" \in Sides
  BY DEF Sides
<1>h. {"created", "ready", "failed", "free"} \subseteq HoldAt
  BY DEF HoldAt
<1>1. CASE UNCHANGED partyVars
  BY <1>1 DEF partyVars, Change, Kept
<1>2. ASSUME NEW o \in Reshares, WorkerEnter(o)
      PROVE  \A p \in Reshares, t \in Sides : Change(p, t)
  <2>1. CASE UNCHANGED partyVars
    BY <2>1 DEF partyVars, Change, Kept
  <2>2. CASE /\ ~tssBusy /\ share # NoShare /\ Only(o, "old")
             /\ hold'[o]["old"] = "created" /\ UNCHANGED <<awaits, out, got>>
    <3>1. Made(o, "old")
      BY <1>2, <2>2 DEF Made
    <3> QED
      BY <2>2, <3>1, <1>s, OnlyChange DEF Change
  <2> QED
    BY <1>2, <2>1, <2>2, OldMade DEF partyVars
<1>3. ASSUME NEW o \in Reshares, CreateNew(o)
      PROVE  \A p \in Reshares, t \in Sides : Change(p, t)
  <2>1. Only(o, "new") /\ hold'[o]["new"] = "ready" /\ UNCHANGED <<awaits, out, got>>
    BY <1>3, <1>s, <1>h, HoldMoves DEF CreateNew
  <2>2. Made(o, "new")
    BY <1>3, <2>1 DEF Made
  <2> QED
    BY <2>1, <2>2, <1>s, OnlyChange DEF Change
<1>4. ASSUME NEW o \in Reshares, StartOld(o)
      PROVE  \A p \in Reshares, t \in Sides : Change(p, t)
  <2>1. Only(o, "old") /\ hold'[o]["old"] = "ready" /\ UNCHANGED <<awaits, out, got>>
    BY <1>4, <1>s, <1>h, HoldMoves DEF StartOld
  <2>2. Made(o, "old")
    BY <1>4, <2>1 DEF Made
  <2> QED
    BY <2>1, <2>2, <1>s, OnlyChange DEF Change
<1>5. ASSUME NEW o \in Reshares, WorkerTakesError(o) \/ StartFails(o)
      PROVE  \A p \in Reshares, t \in Sides : Change(p, t)
  <2>1. PICK h \in {"failed", "free"} :
          /\ hold' = [hold EXCEPT ![o]["old"] = h] /\ UNCHANGED <<awaits, out, got>>
          /\ \/ hold[o]["old"] = "ready" /\ h = "failed"
             \/ hold[o]["old"] = "failed" /\ h = "free"
    BY <1>5 DEF WorkerTakesError, StartFails, tssVars
  <2>2. Only(o, "old") /\ hold'[o]["old"] = h
    BY <2>1, <1>s, <1>h, HoldMoves
  <2>3. Failed(o, "old")
    BY <2>1, <2>2 DEF Failed
  <2> QED
    BY <2>2, <2>3, <1>s, OnlyChange DEF Change
<1>6. ASSUME NEW o \in Reshares, WorkerTakesOut(o)
      PROVE  \A p \in Reshares, t \in Sides : Change(p, t)
  <2>1. PICK s \in Sides : WorkerTakesOut(o)!2!(s)
    BY <1>6 DEF WorkerTakesOut
  <2>2. UNCHANGED <<awaits, got>>
    BY <1>6 DEF WorkerTakesOut
  <2>3. Only(o, s) /\ Taken(o, s)
    BY <2>1, <2>2, OutTaken DEF Taken
  <2> QED
    BY <2>3, OnlyChange DEF Change
<1>7. ASSUME NEW o \in Reshares, WorkerTakesEnd(o)
      PROVE  \A p \in Reshares, t \in Sides : Change(p, t)
  <2>1. PICK s \in Sides : hold[o][s] = "end" /\ hold' = [hold EXCEPT ![o][s] = "free"]
    BY <1>7 DEF WorkerTakesEnd
  <2>2. UNCHANGED <<awaits, out, got>>
    BY <1>7 DEF WorkerTakesEnd
  <2>3. Only(o, s) /\ EndTaken(o, s)
    BY <1>7, <2>1, <2>2, <1>h, HoldMoves DEF EndTaken
  <2> QED
    BY <2>3, OnlyChange DEF Change
<1>8. ASSUME NEW o \in Reshares, NEW s \in Sides, StartParty(o, s) \/ Step(o, s)
      PROVE  \A p \in Reshares, t \in Sides : Change(p, t)
  <2>1. CASE StartParty(o, s)
    BY <2>1, PartyStarts, OnlyChange DEF Started, Change
  <2>2. CASE Step(o, s)
    <3>1. Only(o, s) /\ Stepped(o, s)
      BY <2>2, PartySteps DEF Stepped
    <3> QED
      BY <3>1, OnlyChange DEF Change
  <2> QED
    BY <1>8, <2>1, <2>2
<1>9. ASSUME NEW m \in posted, NEW o \in Reshares, Update(m, o)
      PROVE  \A p \in Reshares, t \in Sides : Change(p, t)
  <2>1. m \in Messages /\ m.side \in Sides
    BY DEF TypeOK, Messages
  <2>2. Only(o, m.side) /\ Stored(o, m.side)
    BY <1>9, <2>1, PartyUpdated DEF Stored
  <2> QED
    BY <2>1, <2>2, OnlyChange DEF Change
<1>10. CASE UNCHANGED vars
  BY <1>10, <1>1 DEF vars
<1>11. CASE \/ \E o \in Reshares :
                \/ RemoteStart(o) \/ Refuse(o) \/ Enter(o) \/ GiveMessage(o)
                \/ CallerStep(o) \/ WorkerDeadline(o) \/ GiveError(o) \/ GiveDone(o)
                \/ WorkerDrained(o) \/ WorkerClear(o) \/ Expire(o)
                \/ \E p \in Peers, r \in Rounds : PeerSends(o, p, r)
            \/ \E m \in posted : Begin(m) \/ GiveUp(m)
            \/ DeletePeer \/ PeerFails \/ OthersEnd
  <2>1. UNCHANGED partyVars
    BY <1>11 DEF RemoteStart, Refuse, Enter, GiveMessage, CallerStep, Finish, Leave,
       WorkerDeadline, GiveError, GiveDone, WorkerDrained, WorkerClear, Expire,
       PeerSends, Begin, GiveUp, DeletePeer, PeerFails, OthersEnd, notNet, notUpdate,
       notWorker
  <2> QED
    BY <2>1, <1>1
<1> QED
  BY <1>2, <1>3, <1>4, <1>5, <1>6, <1>7, <1>8, <1>9, <1>10, <1>11
     DEF Next, UpdateStep, WorkerStep, WorkerRuns, PartyStep

-----------------------------------------------------------------------------
(* Types.                                                                    *)

\* What a message of a round is copied to is a goroutine's to send.
LEMMA FanOutType ==
  ASSUME TypeOK, NEW o \in Reshares, NEW r \in Rounds, NEW fan \in FanOut(o, r)
  PROVE  fan \subseteq Senders /\ fan # {}
<1>1. \A s, c \in Sides : Copy(o, r, s, c) \in Senders
  BY DEF TypeOK, Copy, Senders
<1>2. {"old", "new"} = Sides
  BY DEF Sides
<1> QED
  BY <1>1, <1>2 DEF FanOut, Rounds

LEMMA TypeInit == Init => TypeOK
BY HostsAssumption, ResharesAssumption
   DEF Init, TypeOK, Sides, CallerAt, Results, WorkerAt, Errors, HoldAt, Messages,
       Outgoing, Hosts

LEMMA CommitteesType == TypeOK => Committees \in [Sides -> SUBSET Hosts]
BY DEF TypeOK, Committees, Sides, Hosts

LEMMA TypeStep ==
  ASSUME TypeOK, PartyShape, EndCount, [Next]_vars
  PROVE  TypeOK'
<1> USE DEF TypeOK, nodeVars, tssVars, callVars, workVars, partyVars, loopVars,
            netVars
<1>1. CASE UNCHANGED vars
  BY <1>1 DEF vars
<1>2. ASSUME NEW o \in Reshares,
             RemoteStart(o) \/ Refuse(o) \/ Enter(o) \/ CallerStep(o)
      PROVE  TypeOK'
  <2>1. CASE RemoteStart(o)
    BY <2>1, CommitteesType DEF RemoteStart, CallerAt
  <2>2. CASE Refuse(o)
    BY <2>2 DEF Refuse, CallerAt, Results
  <2>3. CASE Enter(o)
    BY <2>3, CommitteesType DEF Enter, CallerAt, Results, WorkerAt
  <2>4. CASE Finish(o)
    BY <2>4 DEF Finish, CallerAt, Results
  <2>5. CASE Leave(o)
    BY <2>5 DEF Leave, CallerAt
  <2> QED
    BY <1>2, <2>1, <2>2, <2>3, <2>4, <2>5 DEF CallerStep
<1>3. ASSUME NEW o \in Reshares, GiveMessage(o)
      PROVE  TypeOK'
  <2>1. PICK g \in pending, flag \in Flags : GiveMessage(o)!2!(g, flag)
    BY <1>3 DEF GiveMessage
  <2> DEFINE here  == IF flag THEN {} ELSE g.to \cap {Me}
             there == IF flag THEN peers ELSE g.to \ {Me}
             own   == [op : {o}, from : here, round : {g.round}, side : {g.side}]
             new   == [op : {o}, to : there, round : {g.round}, side : {g.side}]
  <2>2. g \in Senders
    OBVIOUS
  <2>3. own \subseteq Messages
    BY <2>2 DEF Senders, Messages, Hosts
  <2>4. there \subseteq peers => new \subseteq Outgoing
    BY <2>2 DEF Senders, Outgoing
  <2>5. CASE there \subseteq peers
    <3>1. /\ pending' \subseteq pending
          /\ sent' = sent \cup new /\ posted' = posted \cup own
          /\ UNCHANGED <<caller, result>>
      BY <2>1, <2>5
    <3> HIDE DEF own, new, there
    <3> QED
      BY <1>3, <3>1, <2>3, <2>4, <2>5 DEF GiveMessage
  <2>6. CASE ~(there \subseteq peers)
    <3>1. /\ pending' \subseteq pending
          /\ posted' \in {posted, posted \cup own}
          /\ UNCHANGED sent
          /\ caller' = [caller EXCEPT ![o] = "leaving"]
          /\ result' = [result EXCEPT ![o] = "unknown"]
      BY <2>1, <2>6
    <3> HIDE DEF own, new, there
    <3> QED
      BY <1>3, <3>1, <2>3 DEF GiveMessage, CallerAt, Results
  <2> QED
    BY <2>5, <2>6
<1>4. ASSUME NEW o \in Reshares, WorkerStep(o)
      PROVE  TypeOK'
  <2>1. CASE WorkerEnter(o)
    <3>1. worker' \in [Reshares -> WorkerAt] /\ tssBusy' \in BOOLEAN
      BY <2>1 DEF WorkerEnter, WorkerAt, Errors
    <3>2. ptr' \in [Sides -> Reshares \cup {NoOp}]
      BY <2>1 DEF WorkerEnter, Sides
    <3>3. PartyType'
      BY <2>1, OldMade DEF PartyType
    <3> QED
      BY <2>1, <3>1, <3>2, <3>3 DEF WorkerEnter, PartyType
  <2>2. CASE CreateNew(o)
    BY <2>2 DEF CreateNew, WorkerAt, HoldAt, Sides
  <2>3. CASE StartOld(o)
    BY <2>3 DEF StartOld, WorkerAt, HoldAt, Sides
  <2>4. CASE WorkerDeadline(o)
    BY <2>4 DEF WorkerDeadline, notWorker, WorkerAt, Errors
  <2>5. CASE WorkerTakesError(o)
    BY <2>5 DEF WorkerTakesError, WorkerAt, Errors, HoldAt, Sides
  <2>6. CASE WorkerTakesOut(o)
    <3>1. PICK s \in Sides : WorkerTakesOut(o)!2!(s)
      BY <2>6 DEF WorkerTakesOut
    <3>2. \/ UNCHANGED pending
          \/ \E fan \in FanOut(o, out[o][s]) : pending' = pending \cup fan
      BY <3>1
    <3>3. pending' \subseteq Senders
      BY <3>1, <3>2, FanOutType DEF PartyShape
    <3>4. worker' \in [Reshares -> WorkerAt]
      BY <3>1 DEF WorkerAt, Errors
    <3>5. hold' \in [Reshares -> [Sides -> HoldAt]]
      BY <3>1 DEF HoldAt
    <3>6. out' \in [Reshares -> [Sides -> 0..4]]
      BY <3>1
    <3> QED
      BY <2>6, <3>3, <3>4, <3>5, <3>6 DEF WorkerTakesOut
  <2>7. CASE WorkerTakesEnd(o)
    <3>1. PICK s \in Sides : WorkerTakesEnd(o)!2!(s)
      BY <2>7 DEF WorkerTakesEnd
    <3>2. ended'[o] \in 0..2
      <4>1. ~Delivered(o, s) /\ s \in {"old", "new"}
        BY <3>1 DEF Delivered, Sides
      <4>2. ended[o] \in 0..1
        BY <4>1 DEF EndCount
      <4> QED
        BY <3>1, <4>2
    <3>3. /\ worker' \in [Reshares -> WorkerAt]
          /\ share' \in Nat \cup {NoShare, Empty}
          /\ partyKey' \in Nat /\ newKey' \in Nat
      <4>1. CASE UNCHANGED <<worker, share, partyKey, newKey>>
        BY <4>1
      <4>2. CASE KeepEnd(o, s)
        <5>1. worker' \in [Reshares -> WorkerAt]
          BY <4>2 DEF KeepEnd, WorkerAt, Errors
        <5>2. share' \in Nat \cup {NoShare, Empty}
          BY <4>2 DEF KeepEnd
        <5>3. partyKey' \in Nat /\ newKey' \in Nat
          BY <4>2 DEF KeepEnd
        <5> QED
          BY <5>1, <5>2, <5>3
      <4> QED
        BY <3>1, <4>1, <4>2
    <3> QED
      BY <2>7, <3>1, <3>2, <3>3 DEF WorkerTakesEnd, HoldAt
  <2>8. CASE GiveError(o)
    BY <2>8 DEF GiveError, CallerAt, Results, WorkerAt, Errors
  <2>9. CASE GiveDone(o)
    BY <2>9 DEF GiveDone, CallerAt, WorkerAt
  <2>10. CASE WorkerDrained(o)
    BY <2>10 DEF WorkerDrained, notWorker, WorkerAt
  <2>11. CASE WorkerClear(o)
    BY <2>11 DEF WorkerClear, notWorker, WorkerAt
  <2> QED
    BY <1>4, <2>1, <2>2, <2>3, <2>4, <2>5, <2>6, <2>7, <2>8, <2>9, <2>10, <2>11
       DEF WorkerStep, WorkerRuns
<1>5. ASSUME NEW o \in Reshares, PartyStep(o)
      PROVE  TypeOK'
  <2>1. CASE StartFails(o)
    BY <2>1 DEF StartFails, HoldAt, Sides
  <2>2. ASSUME NEW s \in Sides, StartParty(o, s)
        PROVE  TypeOK'
    BY <2>2 DEF StartParty, HoldAt
  <2>3. ASSUME NEW s \in Sides, Step(o, s)
        PROVE  TypeOK'
    <3>1. PartyType'
      BY <2>3, PartySteps DEF PartyType
    <3> QED
      BY <2>3, <3>1 DEF Step, PartyType
  <2> QED
    BY <1>5, <2>1, <2>2, <2>3 DEF PartyStep
<1>6. ASSUME NEW m \in posted, Begin(m) \/ GiveUp(m)
      PROVE  TypeOK'
  <2>1. m.side \in Sides
    BY DEF Messages
  <2> QED
    BY <1>6, <2>1 DEF Begin, GiveUp, notUpdate
<1>7. ASSUME NEW m \in posted, NEW o \in Reshares, Update(m, o)
      PROVE  TypeOK'
  <2>1. m \in Messages /\ m.side \in Sides
    BY DEF Messages
  <2>2. PartyType'
    BY <1>7, <2>1, PartyUpdated DEF PartyType
  <2> QED
    BY <1>7, <2>2 DEF Update, notUpdate, PartyType
<1>8. CASE DeletePeer \/ PeerFails \/ OthersEnd \/ \E o \in Reshares : Expire(o)
  BY <1>8 DEF DeletePeer, PeerFails, OthersEnd, Expire, notNet
<1>9. ASSUME NEW o \in Reshares, NEW p \in Peers, NEW r \in Rounds, PeerSends(o, p, r)
      PROVE  TypeOK'
  <2>1. PICK fan \in FanOut(o, r), flag \in Flags :
          posted' = posted \cup {[op |-> o, from |-> p, round |-> r, side |-> g.side] :
                                g \in {f \in fan : flag \/ Me \in f.to}}
    BY <1>9 DEF PeerSends
  <2>2. \A g \in fan : g.side \in Sides
    BY FanOutType DEF Senders
  <2>3. posted' \subseteq Messages
    BY <2>1, <2>2 DEF Messages, Hosts
  <2> QED
    BY <1>9, <2>1, <2>3 DEF PeerSends, notNet
<1> QED
  BY <1>1, <1>2, <1>3, <1>4, <1>5, <1>6, <1>7, <1>8, <1>9 DEF Next, UpdateStep

-----------------------------------------------------------------------------
(* What a step does to the caller and the worker of a resharing.             *)

To(o, w, c, r) == worker'[o] = w /\ caller'[o] = c /\ result'[o] = r

Still(o) == To(o, worker[o], caller[o], result[o]) /\ members'[o] = members[o]

\* What a caller does.
CallerMove(o) ==
  \/ /\ caller[o] = "idle" /\ To(o, worker[o], "offered", result[o])
     /\ members'[o] = Committees /\ share' = share
  \/ /\ caller[o] \in {"idle", "offered"} /\ busy
     /\ To(o, worker[o], "returned", "busy") /\ members'[o] = members[o]
  \/ /\ caller[o] \in {"idle", "offered"} /\ ~busy
     /\ \/ To(o, worker[o], "leaving", "notEnough")
        \/ To(o, "enter", "select", result[o])
     /\ members'[o] = Committees /\ share' = share
  \/ /\ members'[o] = members[o]
     /\ \/ /\ caller[o] = "select" /\ \E g \in pending : g.op = o
           /\ To(o, worker[o], "leaving", "unknown")
        \/ caller[o] = "finish" /\ To(o, worker[o], "leaving", "ok")
        \/ caller[o] = "leaving" /\ To(o, worker[o], "returned", result[o])

\* What a worker does, with its caller or without.
WorkerMove(o) ==
  /\ members'[o] = members[o]
  /\ \/ To(o, worker'[o], caller[o], result[o]) /\
        \/ worker[o] = "enter" /\ tssBusy /\ worker'[o] = "refused"
        \/ worker[o] = "enter" /\ ~tssBusy /\ worker'[o] = "createNew"
        \/ /\ worker[o] = "createNew" /\ CreateNew(o)
           /\ worker'[o] = IF share = NoShare THEN "select" ELSE "startOld"
        \/ worker[o] = "startOld" /\ worker'[o] = "select"
        \/ worker[o] = "select" /\ worker'[o] \in {"deadline", "library", "convert"}
        \/ /\ worker[o] = "select" /\ worker'[o] = "done"
           /\ WorkerTakesEnd(o) /\ share' \in Nat
        \/ worker[o] = "drain" /\ worker'[o] = "clear"
        \/ worker[o] = "clear" /\ worker'[o] = "gone"
     \/ /\ worker[o] \in Errors /\ caller[o] = "select"
        /\ To(o, IF worker[o] = "refused" THEN "gone" ELSE "drain", "leaving", worker[o])
     \/ /\ worker[o] = "done" /\ caller[o] = "select"
        /\ To(o, "drain", "finish", result[o])

Move(o) == Still(o) \/ CallerMove(o) \/ WorkerMove(o)

LEMMA MoveOf ==
  ASSUME TypeOK, NEW o \in Reshares,
         \/ RemoteStart(o) \/ Refuse(o) \/ Enter(o) \/ GiveMessage(o)
         \/ CallerStep(o) \/ WorkerStep(o)
  PROVE  Move(o) /\ \A p \in Reshares \ {o} : Still(p)
<1> USE DEF TypeOK, Still, To, callVars
<1>1. CASE RemoteStart(o)
  BY <1>1 DEF RemoteStart, Move, CallerMove, workVars, tssVars
<1>2. CASE Refuse(o)
  BY <1>2 DEF Refuse, Called, Move, CallerMove, workVars
<1>3. CASE Enter(o)
  BY <1>3 DEF Enter, Called, Move, CallerMove, tssVars
<1>4. CASE GiveMessage(o)
  BY <1>4 DEF GiveMessage, Move, CallerMove
<1>5. CASE Finish(o)
  BY <1>5 DEF Finish, Move, CallerMove, workVars
<1>6. CASE Leave(o)
  BY <1>6 DEF Leave, Move, CallerMove, workVars
<1>7. CASE WorkerEnter(o)
  BY <1>7 DEF WorkerEnter, Move, WorkerMove
<1>8. CASE CreateNew(o)
  <2>1. /\ worker[o] = "createNew"
        /\ worker'[o] = IF share = NoShare THEN "select" ELSE "startOld"
        /\ \A p \in Reshares \ {o} : worker'[p] = worker[p]
        /\ UNCHANGED callVars
    BY <1>8 DEF CreateNew
  <2> QED
    BY <1>8, <2>1 DEF Move, WorkerMove
<1>9. CASE StartOld(o)
  BY <1>9 DEF StartOld, Move, WorkerMove
<1>10. CASE WorkerDeadline(o)
  BY <1>10 DEF WorkerDeadline, notWorker, Move, WorkerMove
<1>11. CASE WorkerTakesError(o)
  BY <1>11 DEF WorkerTakesError, Move, WorkerMove
<1>12. CASE WorkerTakesOut(o)
  <2>1. /\ worker[o] = "select" /\ UNCHANGED callVars
        /\ worker' \in {worker, [worker EXCEPT ![o] = "convert"]}
    BY <1>12 DEF WorkerTakesOut
  <2> QED
    BY <2>1 DEF Move, WorkerMove
<1>13. CASE WorkerTakesEnd(o)
  <2>1. PICK s \in Sides :
          KeepEnd(o, s) \/ UNCHANGED <<worker, share, partyKey, newKey>>
    BY <1>13 DEF WorkerTakesEnd
  <2>2. worker[o] = "select" /\ UNCHANGED callVars
    BY <1>13 DEF WorkerTakesEnd
  <2>3. CASE UNCHANGED worker
    BY <2>2, <2>3 DEF Move
  <2>4. CASE KeepEnd(o, s)
    <3>1. \/ worker' = [worker EXCEPT ![o] = "done"] /\ share' \in Nat
          \/ worker' = [worker EXCEPT ![o] = "library"]
      BY <2>4 DEF KeepEnd
    <3> QED
      BY <1>13, <2>2, <3>1 DEF Move, WorkerMove
  <2> QED
    BY <2>1, <2>3, <2>4
<1>14. CASE GiveError(o)
  BY <1>14 DEF GiveError, Move, WorkerMove
<1>15. CASE GiveDone(o)
  BY <1>15 DEF GiveDone, Move, WorkerMove
<1>16. CASE WorkerDrained(o)
  BY <1>16 DEF WorkerDrained, notWorker, Move, WorkerMove
<1>17. CASE WorkerClear(o)
  BY <1>17 DEF WorkerClear, notWorker, Move, WorkerMove
<1> QED
  BY <1>1, <1>2, <1>3, <1>4, <1>5, <1>6, <1>7, <1>8, <1>9, <1>10, <1>11, <1>12, <1>13,
     <1>14, <1>15, <1>16, <1>17 DEF CallerStep, WorkerStep, WorkerRuns

\* Steps that change neither the node, nor the signer, nor any of the two threads.
LEMMA Actors ==
  ASSUME [Next]_vars
  PROVE  \/ UNCHANGED <<busy, stored, tssBusy, share, callVars, worker>>
         \/ OthersEnd
         \/ \E o \in Reshares :
              \/ RemoteStart(o) \/ Refuse(o) \/ Enter(o) \/ GiveMessage(o)
              \/ CallerStep(o) \/ WorkerStep(o)
<1>1. CASE UNCHANGED vars
  BY <1>1 DEF vars, nodeVars, tssVars, workVars
<1>2. CASE \E o \in Reshares : PartyStep(o)
  BY <1>2 DEF PartyStep, StartFails, StartParty, Step, nodeVars, tssVars, workVars
<1>3. CASE \E o \in Reshares :
             Expire(o) \/ \E p \in Peers, r \in Rounds : PeerSends(o, p, r)
  BY <1>3 DEF Expire, PeerSends, notNet, nodeVars, tssVars, workVars
<1>4. CASE UpdateStep
  BY ZenonT(30), <1>4
     DEF UpdateStep, Begin, GiveUp, Update, notUpdate, nodeVars, tssVars, workVars
<1>5. CASE DeletePeer \/ PeerFails
  BY <1>5 DEF DeletePeer, PeerFails, notNet, nodeVars, tssVars, workVars
<1> QED
  BY <1>1, <1>2, <1>3, <1>4, <1>5 DEF Next

LEMMA Moves ==
  ASSUME TypeOK, [Next]_vars
  PROVE  /\ \A o \in Reshares : Move(o)
         /\ \/ \A p \in Reshares : Still(p)
            \/ \E o \in Reshares : \A p \in Reshares \ {o} : Still(p)
<1>1. CASE \E o \in Reshares :
             \/ RemoteStart(o) \/ Refuse(o) \/ Enter(o) \/ GiveMessage(o)
             \/ CallerStep(o) \/ WorkerStep(o)
  BY <1>1, MoveOf DEF Move
<1>2. CASE UNCHANGED <<callVars, worker>>
  BY <1>2 DEF callVars, Move, Still, To
<1>3. CASE OthersEnd
  BY <1>2, <1>3 DEF OthersEnd, workVars
<1> QED
  BY <1>1, <1>2, <1>3, Actors

\* What changes the variables of the node and of the signer.
LEMMA BusyEnds ==
  ASSUME TypeOK, [Next]_vars, busy, ~busy'
  PROVE  \/ \A o \in Reshares : ~Inside(o) /\ Still(o)
         \/ \E o \in Reshares : caller[o] = "leaving" /\ caller'[o] = "returned"
<1>1. CASE OthersEnd
  BY <1>1 DEF OthersEnd, Still, To, callVars, workVars
<1>2. ASSUME NEW o \in Reshares,
             \/ RemoteStart(o) \/ Refuse(o) \/ Enter(o) \/ GiveMessage(o)
             \/ Finish(o) \/ WorkerStep(o)
      PROVE  FALSE
  BY <1>2 DEF RemoteStart, Refuse, Enter, GiveMessage, Finish, WorkerStep, WorkerRuns, WorkerEnter,
     CreateNew, StartOld, WorkerDeadline, WorkerTakesError, WorkerTakesOut,
     WorkerTakesEnd, GiveError, GiveDone, WorkerDrained, WorkerClear, notWorker, nodeVars
<1>3. ASSUME NEW o \in Reshares, Leave(o)
      PROVE  caller[o] = "leaving" /\ caller'[o] = "returned"
  BY <1>3 DEF Leave, TypeOK
<1> QED
  BY <1>1, <1>2, <1>3, Actors DEF CallerStep

LEMMA SignerEnds ==
  ASSUME TypeOK, [Next]_vars, tssBusy, ~tssBusy'
  PROVE  \/ \A o \in Reshares : ~Alive(o) /\ Still(o)
         \/ \E o \in Reshares : worker[o] = "clear" /\ worker'[o] = "gone"
<1>1. CASE OthersEnd
  BY <1>1 DEF OthersEnd, Still, To, Alive, callVars, workVars
<1>2. ASSUME NEW o \in Reshares,
             \/ RemoteStart(o) \/ Refuse(o) \/ Enter(o) \/ GiveMessage(o)
             \/ CallerStep(o)
      PROVE  FALSE
  BY <1>2 DEF RemoteStart, Refuse, Enter, GiveMessage, CallerStep, Finish, Leave, tssVars
<1>3. ASSUME NEW o \in Reshares, WorkerStep(o), ~WorkerClear(o)
      PROVE  FALSE
  BY <1>3 DEF WorkerStep, WorkerRuns, WorkerEnter, CreateNew, StartOld, WorkerDeadline,
     WorkerTakesError, WorkerTakesOut, WorkerTakesEnd, GiveError, GiveDone,
     WorkerDrained, notWorker, tssVars
<1>4. ASSUME NEW o \in Reshares, WorkerClear(o)
      PROVE  worker[o] = "clear" /\ worker'[o] = "gone"
  BY <1>4 DEF WorkerClear, TypeOK
<1> QED
  BY <1>1, <1>2, <1>3, <1>4, Actors

LEMMA ShareReplaced ==
  ASSUME TypeOK, [Next]_vars, share' # share
  PROVE  \E o \in Reshares :
           /\ WorkerTakesEnd(o) /\ worker[o] = "select"
           /\ worker'[o] \in {"done", "library"}
           /\ stored' = stored
<1>1. ASSUME NEW o \in Reshares,
             \/ RemoteStart(o) \/ Refuse(o) \/ Enter(o) \/ GiveMessage(o)
             \/ CallerStep(o)
      PROVE  FALSE
  BY <1>1 DEF RemoteStart, Refuse, Enter, GiveMessage, CallerStep, Finish, Leave, tssVars
<1>2. ASSUME NEW o \in Reshares, WorkerStep(o), ~WorkerTakesEnd(o)
      PROVE  FALSE
  BY <1>2 DEF WorkerStep, WorkerRuns, WorkerEnter, CreateNew, StartOld, WorkerDeadline,
     WorkerTakesError, WorkerTakesOut, GiveError, GiveDone, WorkerDrained, WorkerClear,
     notWorker, tssVars
<1>3. ASSUME NEW o \in Reshares, WorkerTakesEnd(o)
      PROVE  /\ worker[o] = "select" /\ worker'[o] \in {"done", "library"}
             /\ stored' = stored
  BY <1>3 DEF WorkerTakesEnd, KeepEnd, TypeOK, nodeVars
<1> QED
  BY <1>1, <1>2, <1>3, Actors DEF OthersEnd

-----------------------------------------------------------------------------
(* The parties: their shape, the count of their ends, and what they hold.    *)

LEMMA ShapeStep ==
  ASSUME TypeOK, PartyShape, PartyMade, [Next]_vars
  PROVE  PartyShape'
<1> SUFFICES ASSUME NEW o \in Reshares, NEW s \in Sides
             PROVE  /\ hold'[o][s] = "end" => awaits'[o][s] = 5
                    /\ hold'[o][s] \in {"start", "send"} => out'[o][s] \in Rounds
                    /\ awaits'[o][s] = 5 => hold'[o][s] \in {"free", "step", "end"}
                    /\ hold'[o][s] \in {"none", "created", "ready", "failed"} =>
                         awaits'[o][s] = 0
  BY DEF PartyShape
<1>1. Change(o, s)
  BY Changes
<1>2. /\ hold[o][s] = "end" => awaits[o][s] = 5
      /\ hold[o][s] \in {"start", "send"} => out[o][s] \in Rounds
      /\ awaits[o][s] = 5 => hold[o][s] \in {"free", "step", "end"}
      /\ hold[o][s] \in {"none", "created", "ready", "failed"} => awaits[o][s] = 0
  BY DEF PartyShape
<1>3. CASE Made(o, s)
  <2>1. awaits[o][s] = 0
    BY <1>2, <1>3 DEF Made, WorkerEnter, CreateNew, StartOld, PartyMade
  <2> QED
    BY <1>3, <2>1 DEF Made
<1>4. CASE Kept(o, s) \/ Failed(o, s) \/ Taken(o, s) \/ EndTaken(o, s) \/ Stored(o, s)
  BY <1>2, <1>4 DEF Kept, Failed, Taken, EndTaken, Stored
<1>5. CASE Started(o, s) \/ Stepped(o, s)
  BY <1>2, <1>5 DEF Started, Stepped, Rounds
<1> QED
  BY <1>1, <1>3, <1>4, <1>5 DEF Change

\* A party that is over stays so.
LEMMA OverStays ==
  ASSUME TypeOK, PartyShape, PartyMade, [Next]_vars, NEW o \in Reshares, NEW s \in Sides,
         worker[o] \notin {"enter", "createNew", "startOld"}, Over(o, s)
  PROVE  Over(o, s)'
<1>1. Change(o, s)
  BY Changes
<1>2. ~Made(o, s)
  BY DEF Made, WorkerEnter, CreateNew, StartOld
<1> QED
  BY <1>1, <1>2
     DEF Change, Kept, Failed, Started, Stepped, Taken, EndTaken, Stored, Over, PartyShape

\* Nothing but the worker delivers the end of a party.
LEMMA DeliveredStays ==
  ASSUME TypeOK, PartyShape, PartyMade, [Next]_vars, NEW o \in Reshares, NEW s \in Sides
  PROVE  /\ Delivered(o, s) => Delivered(o, s)'
         /\ Delivered(o, s)' => Delivered(o, s) \/ EndTaken(o, s)
<1>1. Change(o, s)
  BY Changes
<1>2. CASE Made(o, s)
  <2>1. awaits[o][s] = 0
    BY <1>2 DEF Made, WorkerEnter, CreateNew, StartOld, PartyMade, PartyShape
  <2> QED
    BY <1>2, <2>1 DEF Made, Delivered
<1> QED
  BY <1>1, <1>2
     DEF Change, Kept, Failed, Started, Stepped, Taken, EndTaken, Stored, Delivered,
         PartyShape

LEMMA EndedKept ==
  ASSUME [Next]_vars, \A o \in Reshares : ~WorkerTakesEnd(o)
  PROVE  ended' = ended
<1>1. CASE \E o \in Reshares :
             \/ RemoteStart(o) \/ Refuse(o) \/ Enter(o) \/ GiveMessage(o)
             \/ CallerStep(o)
  BY <1>1 DEF RemoteStart, Refuse, Enter, GiveMessage, CallerStep, Finish, Leave, workVars
<1>2. CASE \E o \in Reshares : WorkerStep(o)
  BY <1>2 DEF WorkerStep, WorkerRuns, WorkerEnter, CreateNew, StartOld, WorkerDeadline,
     WorkerTakesError, WorkerTakesOut, GiveError, GiveDone, WorkerDrained, WorkerClear,
     notWorker
<1>3. CASE \E o \in Reshares : PartyStep(o)
  BY <1>3 DEF PartyStep, StartFails, StartParty, Step, workVars
<1>4. CASE \E o \in Reshares :
             Expire(o) \/ \E p \in Peers, r \in Rounds : PeerSends(o, p, r)
  BY <1>4 DEF Expire, PeerSends, notNet, workVars
<1>5. CASE UpdateStep \/ DeletePeer \/ PeerFails \/ OthersEnd \/ UNCHANGED vars
  BY <1>5 DEF UpdateStep, Begin, GiveUp, Update, notUpdate, DeletePeer, PeerFails,
     OthersEnd, notNet, workVars, vars
<1> QED
  BY <1>1, <1>2, <1>3, <1>4, <1>5 DEF Next

LEMMA EndCountStep ==
  ASSUME TypeOK, PartyShape, PartyMade, EndCount, [Next]_vars
  PROVE  EndCount'
<1>s. Sides = {"old", "new"}
  BY DEF Sides
<1>1. CASE \A o \in Reshares : ~WorkerTakesEnd(o)
  <2>1. \A o \in Reshares, s \in Sides : Delivered(o, s)' <=> Delivered(o, s)
    BY <1>1, DeliveredStays DEF EndTaken
  <2> QED
    BY <1>1, <1>s, <2>1, EndedKept DEF EndCount
<1>2. ASSUME NEW o \in Reshares, WorkerTakesEnd(o)
      PROVE  EndCount'
  <2>1. PICK s \in Sides :
          /\ hold[o][s] = "end" /\ hold' = [hold EXCEPT ![o][s] = "free"]
          /\ ended' = [ended EXCEPT ![o] = @ + 1]
    BY <1>2 DEF WorkerTakesEnd
  <2>2. Only(o, s) /\ hold'[o][s] = "free" /\ awaits' = awaits
    <3>1. UNCHANGED <<awaits, out, got>> /\ "free" \in HoldAt /\ PartyType
      BY <1>2 DEF WorkerTakesEnd, HoldAt, TypeOK, PartyType
    <3> QED
      BY <2>1, <3>1, HoldMoves
  <2>3. ~Delivered(o, s) /\ Delivered(o, s)'
    BY <2>1, <2>2 DEF Delivered, PartyShape
  <2>4. \A p \in Reshares, t \in Sides :
          p # o \/ t # s => (Delivered(p, t)' <=> Delivered(p, t))
    BY <2>2 DEF Only, Delivered
  <2>5. ended'[o] = ended[o] + 1 /\ \A p \in Reshares : p # o => ended'[p] = ended[p]
    BY <2>1 DEF TypeOK
  <2>6. \A p \in Reshares :
          ended[p] = IF Delivered(p, "old") THEN IF Delivered(p, "new") THEN 2 ELSE 1
                     ELSE IF Delivered(p, "new") THEN 1 ELSE 0
    BY DEF EndCount
  <2>7. ended'[o] = IF Delivered(o, "old")' THEN IF Delivered(o, "new")' THEN 2 ELSE 1
                    ELSE IF Delivered(o, "new")' THEN 1 ELSE 0
    <3>1. CASE s = "old"
      BY <1>s, <2>3, <2>4, <2>5, <2>6, <3>1
    <3>2. CASE s = "new"
      BY <1>s, <2>3, <2>4, <2>5, <2>6, <3>2
    <3> QED
      BY <1>s, <3>1, <3>2
  <2> QED
    BY <1>s, <2>4, <2>5, <2>6, <2>7 DEF EndCount
<1> QED
  BY <1>1, <1>2

\* A committee changes only before the worker is made.
LEMMA MembersKept ==
  ASSUME TypeOK, OneCaller, [Next]_vars, NEW o \in Reshares, worker[o] # "none"
  PROVE  members'[o] = members[o]
<1>1. Move(o)
  BY Moves
<1> QED
  BY <1>1 DEF Move, Still, CallerMove, WorkerMove, OneCaller

LEMMA HasStays ==
  ASSUME TypeOK, OneCaller, [Next]_vars, NEW o \in Reshares, NEW s \in Sides,
         NEW r \in Rounds, worker[o] # "none", Has(o, s, r)
  PROVE  Has(o, s, r)'
<1>1. got[o][s] \subseteq got'[o][s]
  <2>1. Change(o, s)
    BY Changes
  <2> QED
    BY <2>1 DEF Change, Kept, Made, Failed, Started, Stepped, Taken, EndTaken, Stored
<1>2. Needs(o, s, r)' = Needs(o, s, r)
  BY MembersKept DEF Needs
<1> QED
  BY <1>1, <1>2 DEF Has

LEMMA RoundsStep ==
  ASSUME TypeOK, PartyShape, PartyMade, OneCaller, RoundsHeld, [Next]_vars
  PROVE  RoundsHeld'
<1> SUFFICES ASSUME NEW o \in Reshares, NEW s \in Sides
             PROVE  /\ awaits'[o][s] \in WaitsFor(s)
                    /\ \A r \in Rounds :
                         r < awaits'[o][s] /\ s \in SidesOf(r) => Has(o, s, r)'
  BY DEF RoundsHeld, SidesOf, Sides
<1>1. Change(o, s)
  BY Changes
<1>2. /\ awaits[o][s] \in WaitsFor(s)
      /\ \A r \in Rounds : r < awaits[o][s] /\ s \in SidesOf(r) => Has(o, s, r)
  BY DEF RoundsHeld
<1>3. CASE awaits'[o][s] = 0
  BY <1>3 DEF Rounds, WaitsFor
<1>4. CASE awaits'[o][s] = awaits[o][s] /\ awaits[o][s] # 0
  <2>1. worker[o] # "none"
    BY <1>4 DEF PartyMade, PartyShape
  <2> QED
    BY <1>2, <1>4, <2>1, HasStays
<1>5. CASE Started(o, s)
  BY <1>5 DEF Started, SidesOf, Sides, Rounds, WaitsFor
<1>6. CASE Stepped(o, s) /\ awaits'[o][s] # awaits[o][s]
  <2>1. worker[o] # "none"
    BY <1>6 DEF Stepped, PartyMade
  <2>2. /\ awaits[o][s] \in 1..4 /\ Has(o, s, awaits[o][s])
        /\ awaits'[o][s] = IF awaits[o][s] = 4 THEN 5
                          ELSE IF awaits[o][s] = 1 THEN 3 ELSE 4
    BY <1>6 DEF Stepped
  <2>3. s = "old" \/ s = "new"
    BY DEF Sides
  <2>4. ASSUME NEW r \in Rounds, r < awaits'[o][s], s \in SidesOf(r)
        PROVE  r < awaits[o][s] \/ r = awaits[o][s]
    BY <1>2, <2>2, <2>3, <2>4 DEF SidesOf, Rounds, WaitsFor
  <2>5. \A r \in Rounds : r < awaits'[o][s] /\ s \in SidesOf(r) => Has(o, s, r)
    BY <1>2, <2>2, <2>4
  <2>6. awaits'[o][s] \in WaitsFor(s)
    BY <1>2, <2>2, <2>3 DEF WaitsFor
  <2> QED
    BY <2>1, <2>5, <2>6, HasStays
<1>7. awaits'[o][s] = awaits[o][s] \/ Started(o, s) \/ Stepped(o, s)
  BY <1>1 DEF Change, Kept, Made, Failed, Taken, EndTaken, Stored
<1> QED
  BY <1>2, <1>3, <1>4, <1>5, <1>6, <1>7

-----------------------------------------------------------------------------
(* The messages: who adds and who takes them.                                *)

\* The rest of the node and its peers touch no message.
LEMMA NetChanges ==
  ASSUME [Next]_vars
  PROVE  \/ UNCHANGED <<pending, posted, sent>>
         \/ \E o \in Reshares :
              \/ WorkerTakesOut(o) \/ GiveMessage(o)
              \/ \E p \in Peers, r \in Rounds : PeerSends(o, p, r)
<1>1. CASE \E o \in Reshares : RemoteStart(o) \/ Refuse(o) \/ Enter(o) \/ CallerStep(o)
  BY <1>1 DEF RemoteStart, Refuse, Enter, CallerStep, Finish, Leave, workVars, netVars
<1>2. ASSUME NEW o \in Reshares, WorkerStep(o), ~WorkerTakesOut(o)
      PROVE  UNCHANGED <<pending, posted, sent>>
  BY <1>2 DEF WorkerStep, WorkerRuns, WorkerEnter, CreateNew, StartOld, WorkerDeadline,
     WorkerTakesError, WorkerTakesEnd, GiveError, GiveDone, WorkerDrained,
     WorkerClear, notWorker, netVars
<1>3. CASE \E o \in Reshares : PartyStep(o) \/ Expire(o)
  BY <1>3 DEF PartyStep, StartFails, StartParty, Step, Expire, notNet, workVars, netVars
<1>4. CASE UpdateStep \/ DeletePeer \/ PeerFails \/ OthersEnd \/ UNCHANGED vars
  BY <1>4 DEF UpdateStep, Begin, GiveUp, Update, notUpdate, DeletePeer, PeerFails,
     OthersEnd, notNet, workVars, netVars, vars
<1> QED
  BY <1>1, <1>2, <1>3, <1>4 DEF Next

\* What ReshareKey takes from a party goes to goroutines; for the first three
\* rounds to one.
LEMMA OutChanges ==
  ASSUME TypeOK, PartyShape, NEW o \in Reshares, WorkerTakesOut(o)
  PROVE  \E s \in Sides : \E fan :
           /\ hold[o][s] \in {"start", "send"} /\ hold'[o][s] \in {"free", "step"}
           /\ pending' = pending \cup fan /\ UNCHANGED <<posted, sent>>
           /\ out[o][s] \in Rounds
           /\ \A g \in fan : g.op = o /\ g.round = out[o][s]
           /\ out[o][s] # 4 => \A g, h \in fan : g = h
<1>1. PICK s \in Sides : WorkerTakesOut(o)!2!(s)
  BY DEF WorkerTakesOut
<1>2. \/ pending' = pending \cup {}
      \/ \E fan \in FanOut(o, out[o][s]) : pending' = pending \cup fan
  BY <1>1
<1>3. hold[o][s] \in {"start", "send"} /\ hold'[o][s] \in {"free", "step"}
  BY <1>1, OutTaken DEF WorkerTakesOut, PartyType, TypeOK
<1>4. out[o][s] \in Rounds
  BY <1>3 DEF PartyShape
<1>5. ASSUME NEW r \in Rounds, NEW f \in FanOut(o, r)
      PROVE  /\ \A g \in f : g.op = o /\ g.round = r
             /\ r # 4 => \A g, h \in f : g = h
  <2>1. \A t, c \in Sides : Copy(o, r, t, c).op = o /\ Copy(o, r, t, c).round = r
    BY DEF Copy
  <2> QED
    BY <2>1 DEF FanOut, Rounds, Sides
<1>6. UNCHANGED <<posted, sent>>
  BY DEF WorkerTakesOut, netVars
<1>7. CASE pending' = pending \cup {}
  <2> DEFINE fan == {}
  <2>1. /\ pending' = pending \cup fan
        /\ \A g \in fan : g.op = o /\ g.round = out[o][s]
        /\ \A g, h \in fan : g = h
    BY <1>7
  <2> HIDE DEF fan
  <2> QED
    BY <1>3, <1>4, <1>6, <2>1
<1>8. CASE \E fan \in FanOut(o, out[o][s]) : pending' = pending \cup fan
  BY <1>3, <1>4, <1>5, <1>6, <1>8
<1> QED
  BY <1>2, <1>7, <1>8

\* A caller takes one message, for other nodes or for this one's parties.
LEMMA GiveChanges ==
  ASSUME TypeOK, NEW o \in Reshares, GiveMessage(o)
  PROVE  \E g \in pending :
           /\ g.op = o /\ pending' = pending \ {g}
           /\ posted \subseteq posted' /\ sent \subseteq sent'
           /\ \A m \in posted' \ posted : m.op = o /\ m.from = Me /\ m.round = g.round
           /\ \A h \in sent' \ sent : h.op = o /\ h.round = g.round
<1>1. PICK g \in pending, flag \in Flags : GiveMessage(o)!2!(g, flag)
  BY DEF GiveMessage
<1> DEFINE here  == IF flag THEN {} ELSE g.to \cap {Me}
           there == IF flag THEN peers ELSE g.to \ {Me}
           own   == [op : {o}, from : here, round : {g.round}, side : {g.side}]
           others == [op : {o}, to : there, round : {g.round}, side : {g.side}]
<1>2. g.op = o /\ pending' = pending \ {g}
  BY <1>1
<1>3. posted' \in {posted, posted \cup own} /\ sent' \in {sent, sent \cup others}
  BY <1>1
<1>4. \A m \in own : m.op = o /\ m.from = Me /\ m.round = g.round
  OBVIOUS
<1>5. \A h \in others : h.op = o /\ h.round = g.round
  OBVIOUS
<1> QED
  BY <1>2, <1>3, <1>4, <1>5

\* A peer sends a message of its own.
LEMMA PeerChanges ==
  ASSUME NEW o \in Reshares, NEW p \in Peers, NEW r \in Rounds, PeerSends(o, p, r)
  PROVE  /\ UNCHANGED <<pending, sent>> /\ posted \subseteq posted'
         /\ \A m \in posted' \ posted : m.op = o /\ m.from = p /\ m.round = r
         /\ r = 3 => Sent(o, p, 2, "old")
<1>1. PICK fan \in FanOut(o, r), flag \in Flags :
        posted' = posted \cup {[op |-> o, from |-> p, round |-> r, side |-> g.side] :
                                g \in {f \in fan : flag \/ Me \in f.to}}
  BY DEF PeerSends
<1>2. UNCHANGED <<pending, sent>> /\ (r = 3 => Sent(o, p, 2, "old"))
  BY DEF PeerSends, notNet, workVars
<1> QED
  BY <1>1, <1>2

-----------------------------------------------------------------------------
(* The threads: one caller inside, one worker, and the committee it is in.    *)

LEMMA PendingStep ==
  ASSUME TypeOK, PartyShape, [Next]_vars, NEW g \in pending', g \notin pending
  PROVE  g.op \in Reshares /\ worker[g.op] = "select" /\ worker'[g.op] = "select"
<1>1. PICK o \in Reshares : WorkerTakesOut(o)
  BY NetChanges, GiveChanges, PeerChanges
<1>2. g.op = o
  BY <1>1, OutChanges
<1> QED
  BY <1>1, <1>2 DEF WorkerTakesOut

LEMMA EntersInside ==
  ASSUME TypeOK, [Next]_vars, NEW o \in Reshares, Inside(o)', ~Inside(o)
  PROVE  Enter(o)
<1>1. CASE UNCHANGED caller
  BY <1>1 DEF Inside
<1>2. ASSUME NEW p \in Reshares, p # o,
             \/ RemoteStart(p) \/ Refuse(p) \/ Enter(p) \/ GiveMessage(p)
             \/ CallerStep(p) \/ WorkerStep(p)
      PROVE  FALSE
  BY <1>2, MoveOf DEF Still, To, Inside
<1>3. CASE RemoteStart(o) \/ Refuse(o) \/ GiveMessage(o) \/ CallerStep(o) \/ WorkerStep(o)
  <2>1. CASE RemoteStart(o) \/ Refuse(o)
    BY <2>1 DEF RemoteStart, Refuse, Inside, TypeOK
  <2>2. CASE GiveMessage(o) \/ CallerStep(o)
    BY <2>2 DEF GiveMessage, CallerStep, Finish, Leave, Inside
  <2>3. CASE WorkerStep(o)
    BY <2>3 DEF WorkerStep, WorkerRuns, WorkerEnter, CreateNew, StartOld, WorkerDeadline,
       WorkerTakesError, WorkerTakesOut, WorkerTakesEnd, GiveError, GiveDone,
       WorkerDrained, WorkerClear, notWorker, callVars, Inside
  <2> QED
    BY <1>3, <2>1, <2>2, <2>3
<1> QED
  BY <1>1, <1>2, <1>3, Actors DEF OthersEnd, callVars

LEMMA EntersWorker ==
  ASSUME TypeOK, [Next]_vars, NEW o \in Reshares, worker[o] = "enter",
         worker'[o] = "createNew"
  PROVE  WorkerEnter(o)
<1>1. CASE UNCHANGED worker
  BY <1>1
<1>2. ASSUME NEW p \in Reshares, p # o,
             \/ RemoteStart(p) \/ Refuse(p) \/ Enter(p) \/ GiveMessage(p)
             \/ CallerStep(p) \/ WorkerStep(p)
      PROVE  FALSE
  BY <1>2, MoveOf DEF Still, To
<1>3. CASE RemoteStart(o) \/ Refuse(o) \/ Enter(o) \/ GiveMessage(o) \/ CallerStep(o)
  BY <1>3 DEF RemoteStart, Refuse, Enter, GiveMessage, CallerStep, Finish, Leave,
     workVars, TypeOK
<1>4. CASE WorkerStep(o)
  BY <1>4 DEF WorkerStep, WorkerRuns, CreateNew, StartOld, WorkerDeadline, WorkerTakesError,
     WorkerTakesOut, WorkerTakesEnd, GiveError, GiveDone, WorkerDrained, WorkerClear,
     Errors
<1> QED
  BY <1>1, <1>2, <1>3, <1>4, Actors DEF OthersEnd, workVars

LEMMA CallerInvStep ==
  ASSUME TypeOK, PartyShape, OneCaller, [Next]_vars
  PROVE  OneCaller'
<1>m. \A o \in Reshares : Move(o)
  BY Moves
<1>1. \A o \in Reshares :
        /\ worker'[o] \in {"enter", "refused"} => caller'[o] = "select"
        /\ caller'[o] \in {"idle", "offered"} =>
             worker'[o] = "none" /\ result'[o] = "none"
        /\ caller'[o] \in {"select", "finish"} => result'[o] = "none"
  <2> SUFFICES ASSUME NEW o \in Reshares
               PROVE  /\ worker'[o] \in {"enter", "refused"} => caller'[o] = "select"
                      /\ caller'[o] \in {"idle", "offered"} =>
                           worker'[o] = "none" /\ result'[o] = "none"
                      /\ caller'[o] \in {"select", "finish"} => result'[o] = "none"
    OBVIOUS
  <2>1. Move(o)
    BY <1>m
  <2> QED
    BY <2>1 DEF Move, Still, CallerMove, WorkerMove, To, OneCaller, Errors
<1>2. ASSUME NEW g \in pending'
      PROVE  worker'[g.op] \notin {"none", "enter", "refused"}
  <2>1. CASE g \notin pending
    BY <2>1, PendingStep DEF OneCaller
  <2>2. CASE g \in pending
    <3>1. g.op \in Reshares /\ worker[g.op] \notin {"none", "enter", "refused"}
      BY <2>2 DEF TypeOK, Senders, OneCaller
    <3>2. Move(g.op)
      BY <3>1, <1>m
    <3> QED
      BY <3>1, <3>2 DEF Move, Still, CallerMove, WorkerMove, To, Errors, OneCaller
  <2> QED
    BY <2>1, <2>2
<1>3. ASSUME NEW o \in Reshares, Inside(o)', ~Inside(o)
      PROVE  ~busy /\ busy'
  <2>1. Move(o)
    BY <1>m
  <2>2. caller[o] \in {"idle", "offered"} /\ ~busy
    BY <1>3, <2>1 DEF Move, Still, CallerMove, WorkerMove, To, Inside
  <2>3. busy'
    <3>1. Enter(o)
      BY <1>3, <2>2, EntersInside
    <3> QED
      BY <3>1 DEF Enter
  <2> QED
    BY <2>2, <2>3
<1>4. \A o, p \in Reshares : Inside(o)' /\ Inside(p)' => o = p
  <2> SUFFICES ASSUME NEW o \in Reshares, NEW p \in Reshares, Inside(o)', Inside(p)',
                      o # p
               PROVE  FALSE
    OBVIOUS
  <2>1. CASE Inside(o) /\ Inside(p)
    BY <2>1 DEF OneCaller
  <2>2. CASE ~Inside(o) /\ Inside(p)
    BY <2>2, <1>3 DEF OneCaller
  <2>3. CASE Inside(o) /\ ~Inside(p)
    BY <2>3, <1>3 DEF OneCaller
  <2>4. CASE ~Inside(o) /\ ~Inside(p)
    <3>1. ~Still(o) /\ ~Still(p)
      BY <2>4 DEF Still, To, Inside
    <3> QED
      BY <3>1, Moves
  <2> QED
    BY <2>1, <2>2, <2>3, <2>4
<1>5. \A o \in Reshares : Inside(o)' => busy'
  <2> SUFFICES ASSUME NEW o \in Reshares, Inside(o)', ~busy'
               PROVE  FALSE
    OBVIOUS
  <2>1. Inside(o) /\ busy
    BY <1>3 DEF OneCaller
  <2>2. PICK p \in Reshares : caller[p] = "leaving" /\ caller'[p] = "returned"
    BY <2>1, BusyEnds
  <2>3. p = o
    BY <2>1, <2>2 DEF OneCaller, Inside
  <2> QED
    BY <2>2, <2>3 DEF Inside
<1> QED
  BY <1>1, <1>2, <1>4, <1>5 DEF OneCaller, Inside

LEMMA WorkerInvStep ==
  ASSUME TypeOK, OneWorker, [Next]_vars
  PROVE  OneWorker'
<1>1. ASSUME NEW o \in Reshares, Alive(o)', ~Alive(o)
      PROVE  ~tssBusy /\ tssBusy'
  <2>1. Move(o)
    BY Moves
  <2>2. worker[o] = "enter" /\ ~tssBusy /\ worker'[o] = "createNew"
    BY <1>1, <2>1 DEF Move, Still, CallerMove, WorkerMove, To, Alive, Errors
  <2>3. WorkerEnter(o)
    BY <2>2, EntersWorker
  <2> QED
    BY <2>2, <2>3 DEF WorkerEnter
<1>2. \A o, p \in Reshares : Alive(o)' /\ Alive(p)' => o = p
  <2> SUFFICES ASSUME NEW o \in Reshares, NEW p \in Reshares, Alive(o)', Alive(p)', o # p
               PROVE  FALSE
    OBVIOUS
  <2>1. CASE Alive(o) /\ Alive(p)
    BY <2>1 DEF OneWorker
  <2>2. CASE ~Alive(o) /\ Alive(p)
    BY <2>2, <1>1 DEF OneWorker
  <2>3. CASE Alive(o) /\ ~Alive(p)
    BY <2>3, <1>1 DEF OneWorker
  <2>4. CASE ~Alive(o) /\ ~Alive(p)
    <3>1. ~Still(o) /\ ~Still(p)
      BY <2>4 DEF Still, To, Alive
    <3> QED
      BY <3>1, Moves
  <2> QED
    BY <2>1, <2>2, <2>3, <2>4
<1>3. \A o \in Reshares : Alive(o)' => tssBusy'
  <2> SUFFICES ASSUME NEW o \in Reshares, Alive(o)', ~tssBusy'
               PROVE  FALSE
    OBVIOUS
  <2>1. Alive(o) /\ tssBusy
    BY <1>1 DEF OneWorker
  <2>2. PICK p \in Reshares : worker[p] = "clear" /\ worker'[p] = "gone"
    BY <2>1, SignerEnds
  <2>3. p = o
    BY <2>1, <2>2 DEF OneWorker, Alive
  <2> QED
    BY <2>2, <2>3 DEF Alive
<1> QED
  BY <1>2, <1>3 DEF OneWorker, Alive

LEMMA StuckStays ==
  ASSUME TypeOK, OneCaller, [Next]_vars, NEW p \in Reshares, Stuck(p)
  PROVE  Stuck(p)'
<1>1. Move(p)
  BY Moves
<1> QED
  BY <1>1 DEF Move, Still, CallerMove, WorkerMove, To, Stuck, Errors

LEMMA CommitteesSide == TypeOK => (Me \in Committees["old"] <=> share # NoShare)
BY HostsAssumption DEF TypeOK, Committees

\* A worker that enters and one that replaces the share are not the same, and
\* the second has lost its caller.
LEMMA CommitteeStep ==
  ASSUME TypeOK, OneCaller, OneWorker, CommitteeKept, [Next]_vars
  PROVE  CommitteeKept'
<1> SUFFICES ASSUME NEW o \in Reshares
             PROVE  /\ worker'[o] \in {"createNew", "startOld", "select"} => InOld(o)'
                    /\ worker'[o] = "enter" =>
                         InOld(o)' \/ \E p \in Reshares : Stuck(p)'
                    /\ worker'[o] = "startOld" => Me \in members'[o]["old"]
  BY DEF CommitteeKept, Stuck
<1>1. Move(o)
  BY Moves
<1>2. CASE share' = share
  <2>1. CASE worker[o] = "enter" /\ ~tssBusy
    <3>1. \A p \in Reshares : ~Stuck(p)
      BY <2>1 DEF OneWorker, Alive, Stuck
    <3>2. InOld(o)
      BY <2>1, <3>1 DEF CommitteeKept
    <3> QED
      BY <1>1, <1>2, <2>1, <3>2
         DEF Move, Still, CallerMove, WorkerMove, To, InOld, OneCaller, Errors
  <2>2. CASE worker[o] = "enter" /\ tssBusy
    <3>1. worker'[o] \in {"enter", "refused"} /\ members'[o] = members[o]
      BY <1>1, <2>2 DEF Move, Still, CallerMove, WorkerMove, To, OneCaller, Errors
    <3>2. InOld(o) \/ \E p \in Reshares : Stuck(p)
      BY <2>2 DEF CommitteeKept
    <3> QED
      BY <1>2, <3>1, <3>2, StuckStays DEF InOld
  <2>3. CASE worker[o] \in {"createNew", "startOld", "select"}
    <3>1. InOld(o) /\ (worker[o] = "startOld" => Me \in members[o]["old"])
      BY <2>3 DEF CommitteeKept
    <3>2. members'[o] = members[o]
      BY <2>3, MembersKept
    <3>3. /\ worker'[o] # "enter"
          /\ worker'[o] = "startOld" => worker[o] = "startOld" \/ share # NoShare
      BY <1>1, <2>3 DEF Move, Still, CallerMove, WorkerMove, To, OneCaller, Errors
    <3> QED
      BY <1>2, <3>1, <3>2, <3>3 DEF InOld
  <2>4. CASE worker[o] \notin {"enter", "createNew", "startOld", "select"}
    <3>1. /\ worker'[o] \notin {"createNew", "startOld", "select"}
          /\ worker'[o] = "enter" => members'[o] = Committees
      BY <1>1, <2>4 DEF Move, Still, CallerMove, WorkerMove, To, OneCaller, Errors
    <3> QED
      BY <1>2, <3>1, CommitteesSide DEF InOld
  <2> QED
    BY <2>1, <2>2, <2>3, <2>4
<1>3. CASE share' # share
  <2>1. PICK p \in Reshares : /\ WorkerTakesEnd(p) /\ worker[p] = "select"
                              /\ worker'[p] \in {"done", "library"}
    BY <1>3, ShareReplaced
  <2>2. CASE p = o
    BY <2>1, <2>2
  <2>3. CASE p # o
    <3>1. Still(o)
      <4>1. ~Still(p)
        BY <2>1 DEF Still, To
      <4> QED
        BY <2>3, <4>1, Moves
    <3>2. worker[o] \notin {"createNew", "startOld", "select"}
      BY <2>1, <2>3 DEF OneWorker, Alive
    <3>3. ASSUME worker[o] = "enter"
          PROVE  Stuck(p)'
      <4>1. caller[o] = "select"
        BY <3>3 DEF OneCaller
      <4>2. caller[p] = "returned"
        <5>1. ~Inside(p) /\ caller[p] \notin {"idle", "offered"} /\ caller[p] \in CallerAt
          BY <2>1, <2>3, <4>1 DEF OneCaller, Inside, TypeOK
        <5> QED
          BY <5>1 DEF Inside, CallerAt
      <4>3. caller'[p] = caller[p]
        BY <2>1 DEF WorkerTakesEnd, callVars
      <4> QED
        BY <2>1, <4>2, <4>3 DEF Stuck
    <3> QED
      BY <3>1, <3>2, <3>3 DEF Still, To
  <2> QED
    BY <2>2, <2>3
<1> QED
  BY <1>2, <1>3

-----------------------------------------------------------------------------
(* The parties a worker has made, and their last end.                        *)

LEMMA MadeStep ==
  ASSUME TypeOK, PartyMade, OneCaller, CommitteeKept, OneWorker, [Next]_vars
  PROVE  PartyMade'
<1> SUFFICES ASSUME NEW o \in Reshares
             PROVE  /\ worker'[o] \in {"none", "enter", "refused"} =>
                         hold'[o]["old"] = "none" /\ hold'[o]["new"] = "none"
                    /\ worker'[o] = "createNew" => hold'[o]["new"] = "none"
                    /\ worker'[o] \in {"createNew", "startOld"} =>
                         hold'[o]["old"] \in {"none", "created"}
                    /\ Me \notin members'[o]["old"] => hold'[o]["old"] = "none"
                    /\ /\ worker'[o] \in {"createNew", "startOld", "select", "done"}
                       /\ Me \in members'[o]["old"]
                       => hold'[o]["old"] # "none"
                    /\ worker'[o] \in {"startOld", "select", "done"} =>
                         hold'[o]["new"] # "none"
  BY DEF PartyMade, Sides
<1>s. "old" \in Sides /\ "new" \in Sides
  BY DEF Sides
<1>c. Change(o, "old") /\ Change(o, "new")
  BY <1>s, Changes
<1>m. Move(o)
  BY Moves
<1>1. CASE worker[o] \in {"none", "refused"}
  <2>1. hold[o]["old"] = "none" /\ hold[o]["new"] = "none"
    BY <1>1, <1>s DEF PartyMade
  <2>2. hold'[o]["old"] = "none" /\ hold'[o]["new"] = "none"
    BY <1>1, <1>c, <2>1
       DEF Change, Kept, Made, WorkerEnter, CreateNew, StartOld, Failed, Started,
           Stepped, Taken, EndTaken, Stored
  <2>3. worker'[o] \notin {"createNew", "startOld", "select", "done"}
    BY <1>1, <1>m DEF Move, Still, CallerMove, WorkerMove, To, Errors
  <2> QED
    BY <2>2, <2>3
<1>2. CASE worker[o] = "enter"
  <2>1. hold[o]["old"] = "none" /\ hold[o]["new"] = "none"
    BY <1>2, <1>s DEF PartyMade
  <2>2. hold'[o]["new"] = "none"
    BY <1>2, <1>c, <2>1
       DEF Change, Kept, Made, WorkerEnter, CreateNew, StartOld, Failed, Started,
           Stepped, Taken, EndTaken, Stored
  <2>3. worker'[o] \in {"enter", "refused", "createNew"} /\ members'[o] = members[o]
    BY <1>2, <1>m DEF Move, Still, CallerMove, WorkerMove, To, Errors, OneCaller
  <2>4. CASE WorkerEnter(o) /\ ~tssBusy
    <3>1. worker'[o] = "createNew"
      BY <2>4 DEF WorkerEnter, TypeOK
    <3>2. InOld(o)
      BY <1>2, <2>4 DEF CommitteeKept, Stuck, OneWorker, Alive
    <3>3. hold'[o]["old"] = IF share = NoShare THEN "none" ELSE "created"
      BY <2>1, <2>4, OldMade DEF TypeOK, PartyType
    <3> QED
      BY <2>2, <2>3, <3>1, <3>2, <3>3 DEF InOld
  <2>5. CASE ~(WorkerEnter(o) /\ ~tssBusy)
    <3>1. hold'[o]["old"] = "none"
      BY <1>2, <1>c, <2>1, <2>5
         DEF Change, Kept, Made, CreateNew, StartOld, Failed, Started, Stepped, Taken,
             EndTaken, Stored
    <3>2. worker'[o] # "createNew"
      <4>1. worker'[o] = "createNew" => ~tssBusy
        BY <1>2, <1>m DEF Move, Still, CallerMove, WorkerMove, To, OneCaller
      <4> QED
        BY <1>2, <2>5, <4>1, EntersWorker
    <3> QED
      BY <2>2, <2>3, <3>1, <3>2
  <2> QED
    BY <2>4, <2>5
<1>3. CASE worker[o] = "createNew"
  <2>1. /\ hold[o]["new"] = "none" /\ hold[o]["old"] \in {"none", "created"}
        /\ hold[o]["old"] = "none" <=> Me \notin members[o]["old"]
    BY <1>3 DEF PartyMade
  <2>2. hold'[o]["old"] = hold[o]["old"] /\ members'[o] = members[o]
    <3>1. members'[o] = members[o]
      BY <1>3, MembersKept
    <3> QED
      BY <1>3, <1>c, <2>1, <3>1
         DEF Change, Kept, Made, WorkerEnter, CreateNew, StartOld, Failed, Started,
             Stepped, Taken, EndTaken, Stored
  <2>3. CASE CreateNew(o)
    <3>1. worker'[o] \in {"startOld", "select"}
      BY <2>3 DEF CreateNew, TypeOK
    <3>2. hold'[o]["new"] = "ready"
      BY <2>3, <1>s DEF CreateNew, TypeOK
    <3> QED
      BY <2>1, <2>2, <3>1, <3>2
  <2>4. CASE ~CreateNew(o)
    <3>1. hold'[o]["new"] = "none"
      BY <1>3, <1>c, <2>1, <2>4
         DEF Change, Kept, Made, Failed, Started, Stepped, Taken, EndTaken, Stored
    <3>2. worker'[o] = "createNew"
      BY <1>3, <1>m, <2>4 DEF Move, Still, CallerMove, WorkerMove, To, OneCaller, Errors
    <3> QED
      BY <2>1, <2>2, <3>1, <3>2
  <2> QED
    BY <2>3, <2>4
<1>4. CASE worker[o] = "startOld"
  <2>1. /\ hold[o]["new"] # "none" /\ hold[o]["old"] = "created"
        /\ Me \in members[o]["old"]
    BY <1>4 DEF PartyMade, CommitteeKept
  <2>2. hold'[o]["new"] # "none" /\ members'[o] = members[o]
    <3>1. members'[o] = members[o]
      BY <1>4, MembersKept
    <3> QED
      BY <1>c, <2>1, <3>1
         DEF Change, Kept, Made, Failed, Started, Stepped, Taken, EndTaken, Stored
  <2>3. worker'[o] \in {"startOld", "select"}
    BY <1>4, <1>m DEF Move, Still, CallerMove, WorkerMove, To, OneCaller, Errors
  <2>4. \/ hold'[o]["old"] = "created"
        \/ hold'[o]["old"] = "ready" /\ worker'[o] = "select"
    <3>1. StartOld(o) => worker'[o] = "select"
      BY DEF StartOld, TypeOK
    <3> QED
      BY <1>4, <1>c, <2>1, <3>1
         DEF Change, Kept, Made, WorkerEnter, CreateNew, Failed, Started, Stepped,
             Taken, EndTaken, Stored
  <2> QED
    BY <2>1, <2>2, <2>3, <2>4
<1>5. CASE worker[o] \notin {"none", "enter", "refused", "createNew", "startOld"}
  <2>1. /\ hold'[o]["old"] = "none" <=> hold[o]["old"] = "none"
        /\ hold'[o]["new"] = "none" <=> hold[o]["new"] = "none"
    BY <1>5, <1>c
       DEF Change, Kept, Made, WorkerEnter, CreateNew, StartOld, Failed, Started,
           Stepped, Taken, EndTaken, Stored
  <2>2. members'[o] = members[o]
    BY <1>5, MembersKept
  <2>3. /\ worker'[o] \notin {"none", "enter", "refused", "createNew", "startOld"}
        /\ worker'[o] \in {"select", "done"} => worker[o] \in {"select", "done"}
    BY <1>5, <1>m DEF Move, Still, CallerMove, WorkerMove, To, OneCaller, Errors
  <2> QED
    BY <2>1, <2>2, <2>3 DEF PartyMade
<1> QED
  BY <1>1, <1>2, <1>3, <1>4, <1>5

\* The end that makes ReshareKey keep something is the last of this node.
LEMMA LastEndOver ==
  ASSUME TypeOK, PartyShape, PartyMade, EndCount, CommitteeKept,
         NEW o \in Reshares, WorkerTakesEnd(o), worker'[o] # "select" \/ share' # share,
         NEW t \in Sides
  PROVE  /\ Over(o, t)'
         /\ t \in OwnSides(o) => awaits[o][t] = 5 /\ hold'[o][t] # "end"
<1>1. PICK s \in Sides :
        /\ hold[o][s] = "end" /\ hold' = [hold EXCEPT ![o][s] = "free"]
        /\ LastEnd(o, s)
  BY DEF WorkerTakesEnd
<1>2. Only(o, s) /\ hold'[o][s] = "free" /\ awaits' = awaits
  <2>1. UNCHANGED <<awaits, out, got>> /\ "free" \in HoldAt /\ PartyType
    BY DEF WorkerTakesEnd, HoldAt, TypeOK, PartyType
  <2> QED
    BY <1>1, <2>1, HoldMoves
<1>3. awaits[o][s] = 5
  BY <1>1 DEF PartyShape
<1>4. worker[o] = "select" /\ InOld(o)
  BY DEF WorkerTakesEnd, CommitteeKept
<1>5. CASE t = s
  BY <1>2, <1>3, <1>5 DEF Over
<1>6. CASE t # s /\ share = NoShare
  <2>1. Me \notin members[o]["old"] /\ hold[o]["old"] = "none"
    BY <1>4, <1>6 DEF InOld, PartyMade
  <2>2. s = "new" /\ t = "old"
    BY <1>1, <1>6, <2>1 DEF Sides
  <2> QED
    BY <1>2, <1>6, <2>1, <2>2 DEF Only, Over, OwnSides
<1>7. CASE t # s /\ share # NoShare
  <2>1. ended[o] # 0
    BY <1>1, <1>7 DEF LastEnd
  <2>2. ~Delivered(o, s)
    BY <1>1 DEF Delivered
  <2>3. Delivered(o, "old") \/ Delivered(o, "new")
    BY <2>1 DEF EndCount
  <2>4. Delivered(o, t)
    BY <1>7, <2>2, <2>3 DEF Sides
  <2> QED
    BY <1>2, <1>7, <2>4 DEF Only, Over, Delivered
<1> QED
  BY <1>5, <1>6, <1>7

LEMMA DoneOverStep ==
  ASSUME TypeOK, PartyShape, PartyMade, EndCount, OneCaller, CommitteeKept, DoneOver,
         [Next]_vars
  PROVE  DoneOver'
<1> SUFFICES ASSUME NEW o \in Reshares, NEW s \in Sides,
                    \/ worker'[o] = "done"
                    \/ /\ worker'[o] \in {"drain", "clear", "gone"}
                       /\ result'[o] \in {"none", "ok"}
             PROVE  Over(o, s)'
  BY DEF DoneOver, Over
<1>1. Move(o)
  BY Moves
<1>2. \/ worker[o] = "done"
      \/ worker[o] \in {"drain", "clear", "gone"} /\ result[o] \in {"none", "ok"}
      \/ WorkerTakesEnd(o) /\ worker'[o] = "done"
  BY <1>1 DEF Move, Still, CallerMove, WorkerMove, To, OneCaller, Errors
<1>3. CASE WorkerTakesEnd(o) /\ worker'[o] = "done"
  BY <1>3, LastEndOver
<1>4. CASE \/ worker[o] = "done"
           \/ worker[o] \in {"drain", "clear", "gone"} /\ result[o] \in {"none", "ok"}
  <2>1. Over(o, s)
    BY <1>4 DEF DoneOver
  <2> QED
    BY <1>4, <2>1, OverStays
<1> QED
  BY <1>2, <1>3, <1>4

-----------------------------------------------------------------------------
(* From Done to the return.                                                  *)

\* A party that has ended does not compute again.
LEMMA EndStays ==
  ASSUME TypeOK, PartyShape, PartyMade, [Next]_vars, NEW o \in Reshares, NEW s \in Sides,
         awaits[o][s] = 5
  PROVE  awaits'[o][s] = 5
<1>1. Change(o, s)
  BY Changes
<1> QED
  BY <1>1
     DEF Change, Kept, Made, Failed, Started, Stepped, Taken, EndTaken, Stored, PartyShape

LEMMA EndsStep ==
  ASSUME TypeOK, OneCaller, OneWorker, ShareKept, [Next]_vars, NEW o \in Reshares,
         Ends(o)'
  PROVE  /\ share' = share /\ share \in Nat
         /\ \A p \in Reshares : worker'[p] \notin Working
<1>1. Move(o)
  BY Moves
<1>2. \/ Ends(o)
      \/ worker[o] = "done" /\ caller[o] = "select" /\ worker'[o] = "drain"
  BY <1>1 DEF Move, Still, CallerMove, WorkerMove, To, Ends, OneCaller, Errors
<1>3. CASE Ends(o)
  <2>1. \A p \in Reshares : worker[p] \notin Working
    BY <1>3 DEF ShareKept
  <2>2. share' = share
    BY <2>1, ShareReplaced DEF Working
  <2>3. busy
    BY <1>3 DEF OneCaller, Ends, Inside
  <2>4. ASSUME NEW p \in Reshares
        PROVE  worker'[p] \notin Working
    <3>1. Move(p) /\ worker[p] \notin Working
      BY <2>1, Moves
    <3> QED
      BY <2>3, <3>1 DEF Move, Still, CallerMove, WorkerMove, To, Working, Errors
  <2> QED
    BY <1>3, <2>2, <2>4 DEF ShareKept
<1>4. CASE worker[o] = "done" /\ caller[o] = "select" /\ worker'[o] = "drain"
  <2>1. \A p \in Reshares : worker[p] \notin Working
    <3> SUFFICES ASSUME NEW p \in Reshares, worker[p] \in Working
                 PROVE  FALSE
      OBVIOUS
    <3>1. p # o
      BY <1>4 DEF Working
    <3>2. worker[p] # "enter"
      BY <1>4, <3>1 DEF OneCaller, Inside
    <3> QED
      BY <1>4, <3>1, <3>2 DEF OneWorker, Alive, Working
  <2>2. share' = share
    BY <2>1, ShareReplaced DEF Working
  <2>3. \A p \in Reshares : p # o => Still(p)
    <3>1. ~Still(o)
      BY <1>4 DEF Still, To
    <3> QED
      BY <3>1, Moves
  <2>4. \A p \in Reshares : worker'[p] \notin Working
    BY <1>4, <2>1, <2>3 DEF Still, To, Working
  <2> QED
    BY <1>4, <2>2, <2>4 DEF ShareKept
<1> QED
  BY <1>2, <1>3, <1>4

LEMMA ShareKeptStep ==
  ASSUME TypeOK, PartyShape, PartyMade, OneCaller, OneWorker, DoneOver, ShareKept,
         [Next]_vars
  PROVE  ShareKept'
<1> SUFFICES ASSUME NEW o \in Reshares
             PROVE  /\ caller'[o] = "finish" \/ result'[o] = "ok" =>
                         \A s \in OwnSides(o)' : awaits'[o][s] = 5
                    /\ worker'[o] = "done" => share' \in Nat
                    /\ Ends(o)' => share' \in Nat
                    /\ Ends(o)' => \A p \in Reshares : worker'[p] \notin Working
  BY DEF ShareKept, Ends
<1>1. Move(o)
  BY Moves
<1>2. ASSUME caller'[o] = "finish" \/ result'[o] = "ok", NEW s \in OwnSides(o)'
      PROVE  awaits'[o][s] = 5
  <2>1. \/ caller[o] = "finish" \/ result[o] = "ok"
        \/ worker[o] = "done"
    BY <1>1, <1>2 DEF Move, Still, CallerMove, WorkerMove, To, Errors
  <2>2. members'[o] = members[o]
    BY <1>1, <2>1 DEF Move, Still, CallerMove, WorkerMove, OneCaller
  <2>3. s \in OwnSides(o) /\ s \in Sides
    BY <2>2 DEF OwnSides
  <2>4. awaits[o][s] = 5
    <3>1. CASE caller[o] = "finish" \/ result[o] = "ok"
      BY <2>3, <3>1 DEF ShareKept
    <3>2. CASE worker[o] = "done"
      <4>1. Over(o, s)
        BY <2>3, <3>2 DEF DoneOver
      <4>2. hold[o][s] # "none"
        BY <2>3, <3>2 DEF PartyMade, OwnSides, Sides
      <4> QED
        BY <4>1, <4>2 DEF Over
    <3> QED
      BY <2>1, <3>1, <3>2
  <2> QED
    BY <2>3, <2>4, EndStays
<1>3. ASSUME worker'[o] = "done"
      PROVE  share' \in Nat
  <2>1. \/ worker[o] = "done"
        \/ worker[o] = "select" /\ share' \in Nat
    BY <1>1, <1>3 DEF Move, Still, CallerMove, WorkerMove, To, Errors
  <2>2. CASE worker[o] = "done"
    <3>1. share' = share
      BY <2>2, ShareReplaced DEF OneWorker, Alive
    <3> QED
      BY <2>2, <3>1 DEF ShareKept
  <2> QED
    BY <2>1, <2>2
<1>4. Ends(o)' => share' \in Nat /\ \A p \in Reshares : worker'[p] \notin Working
  BY EndsStep
<1> QED
  BY <1>2, <1>3, <1>4

-----------------------------------------------------------------------------
(* The messages of this node: none is left behind but those of the last round. *)

\* The party that sends a round; the fourth is left out of what follows.
SentBy(r) == IF r = 2 THEN "new" ELSE "old"

\* A message of a round waits in its party, in a goroutine of
\* handleMessageCommittee, or has gone to this node's own parties or to others.
InParty(o, r) == hold[o][SentBy(r)] \in {"start", "send"} /\ out[o][SentBy(r)] = r
InFlight(o, r) == \E g \in pending : g.op = o /\ g.round = r
Gone(o, r) == \/ \E m \in posted : m.op = o /\ m.from = Me /\ m.round = r
              \/ \E g \in sent : g.op = o /\ g.round = r
Reached(o, r) == awaits[o][SentBy(r)] > r

\* It is in one place only, once its party has reached the round.
SentOnce ==
  \A o \in Reshares, r \in 1..3 :
    /\ InParty(o, r) \/ InFlight(o, r) \/ Gone(o, r) => Reached(o, r)
    /\ ~(InParty(o, r) /\ InFlight(o, r))
    /\ ~(InParty(o, r) /\ Gone(o, r))
    /\ ~(InFlight(o, r) /\ Gone(o, r))
OneCopy ==
  \A g, h \in pending : g.op = h.op /\ g.round = h.round /\ g.round \in 1..3 => g = h
OutSide ==
  \A o \in Reshares, s \in Sides :
    hold[o][s] \in {"start", "send"} => out[o][s] \in IF s = "old" THEN {1, 3} ELSE {2, 4}

\* A party stores what this node has received, and other nodes send the third
\* round when they have this node's second one.
GotPosted == \A o \in Reshares, s \in Sides : got[o][s] \subseteq posted
ThirdAfterSecond ==
  \A m \in posted : m.from \in Peers /\ m.round = 3 => Sent(m.op, m.from, 2, "old")

\* This node is always in the new committee.
MeJoins == \A o \in Reshares : Open(o) => Me \in members[o]["new"]

OutboxInv == SentOnce /\ OneCopy /\ OutSide /\ GotPosted /\ ThirdAfterSecond /\ MeJoins

\* A round is sent once: its party reaches it with the message, and keeps that
\* until the worker takes it.
LEMMA ReachedStays ==
  ASSUME TypeOK, PartyShape, [Next]_vars, NEW o \in Reshares, NEW r \in 1..3,
         Reached(o, r)
  PROVE  Reached(o, r)'
<1>1. SentBy(r) \in Sides
  BY DEF SentBy, Sides
<1>2. PICK s \in Sides : s = SentBy(r)
  BY <1>1
<1>3. Change(o, s) /\ awaits[o][s] \in 0..5
  BY Changes DEF TypeOK
<1>4. awaits'[o][s] >= awaits[o][s]
  <2>1. CASE Started(o, s)
    BY <1>3, <2>1 DEF Started, PartyShape
  <2>2. CASE Stepped(o, s)
    BY <1>3, <2>2 DEF Stepped
  <2>3. CASE awaits'[o][s] = awaits[o][s]
    BY <1>3, <2>3
  <2> QED
    BY <1>3, <2>1, <2>2, <2>3
       DEF Change, Kept, Made, Failed, Taken, EndTaken, Stored
<1>5. awaits'[o][s] \in Nat
  <2>1. awaits'[o][s] \in {awaits[o][s], 1, 2, 3, 4, 5}
    BY <1>3 DEF Change, Kept, Made, Failed, Taken, EndTaken, Stored, Started, Stepped
  <2> QED
    BY <1>3, <2>1
<1>6. awaits[o][s] > r
  BY <1>2 DEF Reached
<1>7. awaits'[o][s] > r
  BY <1>3, <1>4, <1>5, <1>6
<1> QED
  BY <1>2, <1>7 DEF Reached, SentBy

LEMMA InPartyNew ==
  ASSUME TypeOK, PartyShape, PartyMade, [Next]_vars, NEW o \in Reshares, NEW r \in 1..3,
         InParty(o, r)', ~InParty(o, r)
  PROVE  ~Reached(o, r) /\ Reached(o, r)'
<1>1. SentBy(r) \in Sides
  BY DEF SentBy, Sides
<1>2. PICK s \in Sides : s = SentBy(r)
  BY <1>1
<1>3. Change(o, s) /\ awaits[o][s] \in 0..5
  BY Changes DEF TypeOK
<1>4. /\ hold'[o][s] \in {"start", "send"} /\ out'[o][s] = r
      /\ ~(hold[o][s] \in {"start", "send"} /\ out[o][s] = r)
  BY <1>2 DEF InParty, SentBy
<1>5. Started(o, s) \/ Stepped(o, s)
  BY <1>3, <1>4 DEF Change, Kept, Made, Failed, Taken, EndTaken, Stored
<1>6. CASE Started(o, s)
  <2>1. r = 1 /\ awaits[o][s] = 0 /\ awaits'[o][s] = 2
    BY <1>4, <1>6 DEF Started, PartyShape
  <2> QED
    BY <1>2, <2>1 DEF Reached, SentBy
<1>7. CASE Stepped(o, s)
  <2>1. /\ awaits[o][s] \in 1..3 /\ r = awaits[o][s] + 1
        /\ awaits'[o][s] = IF awaits[o][s] = 1 THEN 3 ELSE 4
    BY <1>4, <1>7 DEF Stepped
  <2>2. ~(awaits[o][s] > r) /\ awaits'[o][s] > r
    BY <2>1
  <2> QED
    BY <1>2, <2>2 DEF Reached, SentBy
<1> QED
  BY <1>5, <1>6, <1>7

\* The worker makes the goroutine as it frees the party.
LEMMA InFlightNew ==
  ASSUME TypeOK, PartyShape, OutSide, [Next]_vars, NEW o \in Reshares, NEW r \in 1..3,
         NEW g \in pending' \ pending, g.op = o, g.round = r
  PROVE  InParty(o, r) /\ ~InParty(o, r)' /\ \A h \in pending' \ pending : h = g
<1>1. WorkerTakesOut(o)
  <2>1. \E q \in Reshares : WorkerTakesOut(q)
    BY NetChanges, GiveChanges, PeerChanges
  <2>2. PICK q \in Reshares : WorkerTakesOut(q)
    BY <2>1
  <2>3. q = o
    BY <2>2, OutChanges
  <2> QED
    BY <2>2, <2>3
<1>2. PICK s \in Sides :
        \E fan :
           /\ hold[o][s] \in {"start", "send"} /\ hold'[o][s] \in {"free", "step"}
           /\ pending' = pending \cup fan
           /\ out[o][s] \in Rounds
           /\ \A h \in fan : h.op = o /\ h.round = out[o][s]
           /\ out[o][s] # 4 => \A h, i \in fan : h = i
  BY <1>1, OutChanges
<1>3. out[o][s] = r
  BY <1>2
<1>4. s = SentBy(r)
  BY <1>2, <1>3 DEF OutSide, SentBy, Sides
<1>5. r # 4
  OBVIOUS
<1>6. \A h \in pending' \ pending : h = g
  BY <1>2, <1>3, <1>5
<1> QED
  BY <1>2, <1>3, <1>4, <1>6 DEF InParty, SentBy

\* The caller makes a message go as it takes it.
LEMMA GoneNew ==
  ASSUME TypeOK, PartyShape, OneCopy, [Next]_vars, NEW o \in Reshares, NEW r \in 1..3,
         Gone(o, r)', ~Gone(o, r)
  PROVE  InFlight(o, r) /\ ~InFlight(o, r)'
<1>1. ~UNCHANGED <<posted, sent>>
  BY DEF Gone
<1>2. ASSUME NEW q \in Reshares, NEW p \in Peers, NEW t \in Rounds, PeerSends(q, p, t)
      PROVE  FALSE
  <2>1. p # Me
    BY HostsAssumption
  <2>2. UNCHANGED sent /\ \A m \in posted' \ posted : m.from = p
    BY <1>2, PeerChanges
  <2> QED
    BY <2>1, <2>2 DEF Gone
<1>3. PICK q \in Reshares : GiveMessage(q)
  BY <1>1, <1>2, NetChanges, OutChanges
<1>4. PICK g \in pending :
        /\ g.op = q /\ pending' = pending \ {g}
        /\ \A m \in posted' \ posted : m.op = q /\ m.from = Me /\ m.round = g.round
        /\ \A h \in sent' \ sent : h.op = q /\ h.round = g.round
  BY <1>3, GiveChanges
<1>5. q = o /\ g.round = r
  BY <1>4 DEF Gone
<1> QED
  BY <1>4, <1>5 DEF InFlight, OneCopy

LEMMA SentOnceStep ==
  ASSUME TypeOK, PartyShape, PartyMade, SentOnce, OneCopy, OutSide, [Next]_vars
  PROVE  SentOnce'
<1> SUFFICES ASSUME NEW o \in Reshares, NEW r \in 1..3
             PROVE  /\ InParty(o, r)' \/ InFlight(o, r)' \/ Gone(o, r)' => Reached(o, r)'
                    /\ ~(InParty(o, r)' /\ InFlight(o, r)')
                    /\ ~(InParty(o, r)' /\ Gone(o, r)')
                    /\ ~(InFlight(o, r)' /\ Gone(o, r)')
  BY DEF SentOnce
<1>1. Reached(o, r) => Reached(o, r)'
  BY ReachedStays
<1>2. InParty(o, r)' => InParty(o, r) \/ (~Reached(o, r) /\ Reached(o, r)')
  BY InPartyNew
<1>3. InFlight(o, r)' => InFlight(o, r) \/ (InParty(o, r) /\ ~InParty(o, r)')
  BY InFlightNew DEF InFlight
<1>4. Gone(o, r)' => Gone(o, r) \/ (InFlight(o, r) /\ ~InFlight(o, r)')
  BY GoneNew
<1>5. /\ InParty(o, r) \/ InFlight(o, r) \/ Gone(o, r) => Reached(o, r)
      /\ ~(InParty(o, r) /\ InFlight(o, r))
      /\ ~(InParty(o, r) /\ Gone(o, r))
      /\ ~(InFlight(o, r) /\ Gone(o, r))
  BY DEF SentOnce
<1> QED
  BY <1>1, <1>2, <1>3, <1>4, <1>5

LEMMA OneCopyStep ==
  ASSUME TypeOK, PartyShape, SentOnce, OneCopy, OutSide, [Next]_vars
  PROVE  OneCopy'
<1> SUFFICES ASSUME NEW g \in pending', NEW h \in pending', g.op = h.op,
                    g.round = h.round, g.round \in 1..3
             PROVE  g = h
  BY DEF OneCopy
<1>1. ASSUME NEW i \in pending' \ pending
      PROVE  i.op \in Reshares
  BY NetChanges, GiveChanges, PeerChanges, OutChanges
<1>2. CASE g \in pending /\ h \in pending
  BY <1>2 DEF OneCopy
<1>3. CASE g \notin pending
  <2>1. g.op \in Reshares
    BY <1>1, <1>3
  <2>2. InParty(g.op, g.round) /\ \A i \in pending' \ pending : i = g
    BY <1>3, <2>1, InFlightNew
  <2> QED
    BY <2>1, <2>2 DEF SentOnce, InFlight
<1>4. CASE h \notin pending
  <2>1. h.op \in Reshares
    BY <1>1, <1>4
  <2>2. InParty(h.op, h.round) /\ \A i \in pending' \ pending : i = h
    BY <1>4, <2>1, InFlightNew
  <2> QED
    BY <2>1, <2>2 DEF SentOnce, InFlight
<1> QED
  BY <1>2, <1>3, <1>4

LEMMA OutSideStep ==
  ASSUME TypeOK, RoundsHeld, OutSide, [Next]_vars
  PROVE  OutSide'
<1> SUFFICES ASSUME NEW o \in Reshares, NEW s \in Sides, hold'[o][s] \in {"start", "send"}
             PROVE  out'[o][s] \in IF s = "old" THEN {1, 3} ELSE {2, 4}
  BY DEF OutSide
<1>1. Change(o, s) /\ awaits[o][s] \in WaitsFor(s)
  BY Changes DEF RoundsHeld
<1>2. Kept(o, s) \/ Started(o, s) \/ Stepped(o, s)
    \/ (out'[o][s] = out[o][s] /\ hold'[o][s] = hold[o][s])
  BY <1>1 DEF Change, Made, Failed, Taken, EndTaken, Stored
<1>3. CASE out'[o][s] = out[o][s] /\ hold'[o][s] = hold[o][s]
  BY <1>3 DEF OutSide
<1>4. CASE Started(o, s)
  BY <1>4 DEF Started
<1>5. CASE Stepped(o, s)
  <2>1. out'[o][s] = awaits[o][s] + 1 /\ awaits[o][s] \in 1..3
    BY <1>5 DEF Stepped
  <2> QED
    BY <1>1, <2>1 DEF WaitsFor
<1> QED
  BY <1>2, <1>3, <1>4, <1>5 DEF Kept

\* Other nodes and the parties of this one add messages, and take none away.
LEMMA NetGrows ==
  ASSUME TypeOK, PartyShape, [Next]_vars
  PROVE  posted \subseteq posted' /\ sent \subseteq sent'
BY NetChanges, OutChanges, GiveChanges, PeerChanges

LEMMA GotPostedStep ==
  ASSUME TypeOK, PartyShape, GotPosted, [Next]_vars
  PROVE  GotPosted'
<1> SUFFICES ASSUME NEW o \in Reshares, NEW s \in Sides
             PROVE  got'[o][s] \subseteq posted'
  BY DEF GotPosted
<1>1. Change(o, s)
  BY Changes
<1>2. got'[o][s] \subseteq got[o][s] \cup posted
  BY <1>1 DEF Change, Kept, Made, Failed, Started, Stepped, Taken, EndTaken, Stored
<1> QED
  BY <1>2, NetGrows DEF GotPosted

LEMMA ThirdStep ==
  ASSUME TypeOK, PartyShape, ThirdAfterSecond, [Next]_vars
  PROVE  ThirdAfterSecond'
<1> SUFFICES ASSUME NEW m \in posted', m.from \in Peers, m.round = 3
             PROVE  Sent(m.op, m.from, 2, "old")'
  BY DEF ThirdAfterSecond
<1>1. CASE m \in posted
  BY <1>1, NetGrows DEF ThirdAfterSecond, Sent
<1>2. CASE m \notin posted
  <2>1. m.from # Me
    BY HostsAssumption
  <2>2. PICK o \in Reshares, p \in Peers, r \in Rounds : PeerSends(o, p, r)
    BY <1>2, <2>1, NetChanges, OutChanges, GiveChanges
  <2>3. m.op = o /\ m.from = p /\ m.round = r /\ UNCHANGED sent
    BY <1>2, <2>2, PeerChanges
  <2>4. Sent(o, p, 2, "old")
    BY <2>2, <2>3, PeerChanges
  <2> QED
    BY <2>3, <2>4 DEF Sent
<1> QED
  BY <1>1, <1>2

LEMMA MeJoinsStep ==
  ASSUME TypeOK, OneCaller, MeJoins, [Next]_vars
  PROVE  MeJoins'
<1> SUFFICES ASSUME NEW o \in Reshares, Open(o)'
             PROVE  Me \in members'[o]["new"]
  BY DEF MeJoins, Open
<1>1. Move(o)
  BY Moves
<1>2. \/ members'[o] = Committees
      \/ members'[o] = members[o] /\ Open(o)
  BY <1>1 DEF Move, Still, CallerMove, WorkerMove, To, Open, OneCaller
<1> QED
  BY <1>2 DEF Committees, MeJoins

LEMMA OutboxInit == Init => OutboxInv
<1> SUFFICES ASSUME Init PROVE OutboxInv
  OBVIOUS
<1>1. PICK past \in SUBSET Earlier,
           late \in IF "late" \in Faults THEN BOOLEAN ELSE {FALSE} : Init!(past, late)
  BY DEF Init
<1>2. pending = {}
  BY <1>1
<1>3. \A o \in Reshares : o \in past =>
        /\ members[o] = [s \in Sides |-> Hosts]
        /\ \A s \in Sides : hold[o][s] = "free"
        /\ late => awaits[o]["old"] = 2
        /\ ~late => awaits[o]["old"] = 5 /\ awaits[o]["new"] = 5
  BY <1>1 DEF Sides
<1>4. \A o \in Reshares : o \notin past =>
        /\ caller[o] = "idle" /\ \A s \in Sides : hold[o][s] = "none"
  BY <1>1
<1> DEFINE rounds == IF late THEN {1} ELSE Rounds
<1>5. posted = {n \in Messages : /\ n.op \in past /\ n.side \in SidesOf(n.round)
                                 /\ n.round \in rounds /\ (late => n.from = Me)}
  BY <1>1
<1>6. \A o \in Reshares, s \in Sides : got[o][s] \subseteq posted
  BY <1>1
<1>7. sent = {n \in Outgoing : /\ n.op \in past /\ n.side \in SidesOf(n.round)
                               /\ n.round \in rounds}
  BY <1>1
<1>s. "old" \in Sides /\ "new" \in Sides
  BY DEF Sides
<1>8. SentOnce
  <2> SUFFICES ASSUME NEW o \in Reshares, NEW r \in 1..3
               PROVE  ~InParty(o, r) /\ ~InFlight(o, r) /\ (Gone(o, r) => Reached(o, r))
    BY DEF SentOnce
  <2>1. ~InParty(o, r)
    BY <1>3, <1>4, <1>s DEF InParty, SentBy
  <2>2. ~InFlight(o, r)
    BY <1>2 DEF InFlight
  <2>3. Gone(o, r) => o \in past /\ (late => r = 1)
    BY <1>5, <1>7 DEF Gone
  <2> QED
    BY <1>3, <2>1, <2>2, <2>3 DEF Reached, SentBy
<1>9. OneCopy /\ OutSide /\ GotPosted
  BY <1>2, <1>3, <1>4, <1>6 DEF OneCopy, OutSide, GotPosted
<1>10. ThirdAfterSecond
  <2> SUFFICES ASSUME NEW m \in posted, m.from \in Peers
               PROVE  Sent(m.op, m.from, 2, "old")
    BY DEF ThirdAfterSecond
  <2> DEFINE n == [op |-> m.op, to |-> m.from, round |-> 2, side |-> "old"]
  <2>1. m.op \in past /\ m.op \in Reshares /\ ~late
    BY <1>5, HostsAssumption DEF Messages
  <2>2. n \in Outgoing
    BY <1>s, <2>1 DEF Outgoing, Rounds
  <2>3. n.op \in past /\ n.side \in SidesOf(n.round) /\ n.round \in rounds
    BY <2>1 DEF SidesOf, Rounds
  <2> QED
    BY <1>7, <2>2, <2>3 DEF Sent
<1>11. MeJoins
  BY <1>3, <1>4, <1>s DEF MeJoins, Open, Hosts
<1> QED
  BY <1>8, <1>9, <1>10, <1>11 DEF OutboxInv

-----------------------------------------------------------------------------
(* The theorems.                                                             *)

LEMMA InvInit == Init => ReshareInv
<1> SUFFICES ASSUME Init PROVE ReshareInv
  OBVIOUS
<1>1. PICK past \in SUBSET Earlier,
           late \in IF "late" \in Faults THEN BOOLEAN ELSE {FALSE} : Init!(past, late)
  BY DEF Init
<1>2. past \subseteq Reshares /\ late \in BOOLEAN
  BY ResharesAssumption
<1>s. Sides = {"old", "new"}
  BY DEF Sides
<1>3. \A o \in Reshares : o \in past =>
        /\ caller[o] = "returned" /\ worker[o] = "gone"
        /\ members[o] = [s \in Sides |-> Hosts]
        /\ \A s \in Sides : hold[o][s] = "free"
        /\ late => /\ result[o] = "deadline" /\ ended[o] = 0
                   /\ awaits[o]["old"] = 2 /\ awaits[o]["new"] = 1
        /\ ~late => /\ result[o] = "ok" /\ ended[o] = 2
                    /\ \A s \in Sides : awaits[o][s] = 5
  BY <1>1, <1>s
<1>4. \A o \in Reshares : o \notin past =>
        /\ caller[o] = "idle" /\ result[o] = "none" /\ worker[o] = "none"
        /\ ended[o] = 0 /\ members[o] = [s \in Sides |-> {}]
        /\ \A s \in Sides : hold[o][s] = "none" /\ awaits[o][s] = 0
  BY <1>1
<1>5. pending = {}
  BY <1>1
<1>6. PartyShape /\ PartyMade /\ EndCount
  <2>1. PartyShape
    BY <1>s, <1>3, <1>4 DEF PartyShape
  <2>2. PartyMade
    BY <1>s, <1>3, <1>4 DEF PartyMade, Hosts
  <2>3. EndCount
    BY <1>s, <1>3, <1>4 DEF EndCount, Delivered
  <2> QED
    BY <2>1, <2>2, <2>3
<1>7. OneCaller /\ OneWorker /\ CommitteeKept /\ DoneOver
  <2>1. OneCaller /\ OneWorker /\ CommitteeKept
    BY <1>3, <1>4, <1>5, <1>s DEF OneCaller, OneWorker, CommitteeKept, Inside, Alive
  <2>2. DoneOver
    BY <1>3, <1>4, <1>s DEF DoneOver, Over
  <2> QED
    BY <2>1, <2>2
<1>8. ShareKept
  BY <1>3, <1>4 DEF ShareKept, Ends, OwnSides
<1>9. RoundsHeld
  <2> SUFFICES ASSUME NEW o \in Reshares, NEW s \in Sides
               PROVE  /\ awaits[o][s] \in WaitsFor(s)
                      /\ \A r \in Rounds :
                           r < awaits[o][s] /\ s \in SidesOf(r) => Has(o, s, r)
    BY DEF RoundsHeld
  <2>1. CASE o \notin past
    BY <1>4, <2>1 DEF Rounds, WaitsFor
  <2>2. ASSUME o \in past, ~late, NEW r \in Rounds, s \in SidesOf(r)
        PROVE  Has(o, s, r)
    <3>1. Peers # {}
      BY <2>2, HostsAssumption
    <3>2. Needs(o, s, r) # {} /\ Needs(o, s, r) \subseteq Hosts
      BY <1>3, <1>s, <2>2, <3>1, HostsAssumption DEF Needs, Hosts
    <3>3. ASSUME NEW h \in Hosts
          PROVE  \E m \in got[o][s] : m.op = o /\ m.from = h /\ m.round = r
      <4> DEFINE m == [op |-> o, from |-> h, round |-> r, side |-> s]
      <4>1. m \in Messages /\ m.op = o /\ m.side = s /\ m.from = h /\ m.round = r
        BY DEF Messages
      <4>2. posted = {n \in Messages : /\ n.op \in past /\ n.side \in SidesOf(n.round)
                                       /\ n.round \in Rounds}
        BY <1>1, <2>2
      <4>3. got[o][s] = {n \in posted : n.op = o /\ n.side = s}
        BY <1>1, <2>2
      <4> HIDE DEF m
      <4> QED
        BY <2>2, <4>1, <4>2, <4>3
    <3> QED
      BY <3>2, <3>3 DEF Has
  <2>3. CASE o \in past /\ late
    BY <1>s, <1>3, <2>3 DEF Rounds, WaitsFor, SidesOf
  <2> QED
    BY <1>3, <2>1, <2>2, <2>3 DEF WaitsFor
<1> QED
  BY <1>6, <1>7, <1>8, <1>9 DEF ReshareInv

LEMMA InvStep ==
  ASSUME TypeOK, ReshareInv, [Next]_vars
  PROVE  TypeOK' /\ ReshareInv'
<1> USE DEF ReshareInv
<1>1. TypeOK'
  BY TypeStep
<1>2. PartyShape' /\ PartyMade' /\ EndCount'
  BY ShapeStep, MadeStep, EndCountStep
<1>3. OneCaller' /\ OneWorker' /\ CommitteeKept'
  BY CallerInvStep, WorkerInvStep, CommitteeStep
<1>4. DoneOver' /\ RoundsHeld' /\ ShareKept'
  BY DoneOverStep, RoundsStep, ShareKeptStep
<1> QED
  BY <1>1, <1>2, <1>3, <1>4

LEMMA InvAlways == Spec => [](TypeOK /\ ReshareInv)
<1>1. Init => TypeOK /\ ReshareInv
  BY TypeInit, InvInit
<1>2. TypeOK /\ ReshareInv /\ [Next]_vars => TypeOK' /\ ReshareInv'
  BY InvStep
<1> QED
  BY <1>1, <1>2, PTL DEF Spec

\* The variables of Reshare, handleReshare, ReshareKey and the parties have
\* their types.
THEOREM ReshareTypeCorrect == Spec => []TypeOK
BY InvAlways, PTL

\* Reshare returns a key only when the parties of this node have the messages of
\* every round, and the node then has a share, stored or not.
THEOREM OkMeansResharedCorrect == Spec => []OkMeansReshared
<1>1. TypeOK /\ ReshareInv => OkMeansReshared
  <2> SUFFICES ASSUME TypeOK, ReshareInv, NEW o \in Reshares, result[o] = "ok"
               PROVE  /\ caller[o] = "leaving" => share \notin {NoShare, Empty}
                      /\ \A s \in OwnSides(o), r \in Rounds :
                           s \in SidesOf(r) => Has(o, s, r)
    BY DEF OkMeansReshared
  <2>1. ASSUME caller[o] = "leaving"
        PROVE  share \notin {NoShare, Empty}
    <3>1. share \in Nat
      BY <2>1 DEF ReshareInv, ShareKept, Ends
    <3> QED
      BY <3>1, SharesAssumption
  <2>2. ASSUME NEW s \in OwnSides(o), NEW r \in Rounds, s \in SidesOf(r)
        PROVE  Has(o, s, r)
    <3>1. s \in Sides /\ awaits[o][s] = 5
      BY DEF ReshareInv, ShareKept, OwnSides
    <3> QED
      BY <2>2, <3>1 DEF ReshareInv, RoundsHeld, Rounds
  <2> QED
    BY <2>1, <2>2
<1> QED
  BY <1>1, InvAlways, PTL

\* After Done, the only updates blocked on outCh or endCh that wg.Wait() of
\* ReshareKey waits for are late ones of earlier resharings that have failed: its
\* own parties have ended, those that returned a key had ended too, and any other
\* worker has been refused, or has not made a party yet.
THEOREM DrainsAfterDoneCorrect == Spec => []DrainsAfterDone
<1>1. TypeOK /\ ReshareInv => DrainsAfterDone
  <2> SUFFICES ASSUME TypeOK, ReshareInv, NEW o \in Reshares, worker[o] = "drain",
                      result[o] \in {"none", "ok"}, NEW e \in Reshares, NEW s \in Sides,
                      hold[e][s] \in {"send", "end"}, result[e] \in {"none", "ok"}
               PROVE  FALSE
    BY DEF DrainsAfterDone
  <2>1. ~Over(e, s)
    BY DEF ReshareInv, PartyShape, Over
  <2>2. worker[e] \notin {"done", "drain", "clear", "gone"}
    BY <2>1 DEF ReshareInv, DoneOver
  <2>3. worker[e] \notin {"none", "enter", "refused"}
    BY DEF ReshareInv, PartyMade
  <2>4. Alive(e)
    BY <2>2, <2>3 DEF Alive, TypeOK, WorkerAt, Errors
  <2>5. e = o
    BY <2>4 DEF Alive, ReshareInv, OneWorker
  <2> QED
    BY <2>2, <2>5
<1> QED
  BY <1>1, InvAlways, PTL

\* ReshareKey replaces the share only when both parties of the node have ended
\* and none of them still has an end to deliver.
THEOREM ShareReplacedLastCorrect == Spec => ShareReplacedLast
<1>1. ASSUME TypeOK, ReshareInv, [Next]_vars, share' # share
      PROVE  \E o \in Reshares :
               /\ worker[o] = "select"
               /\ \A s \in OwnSides(o) : awaits[o][s] = 5 /\ hold'[o][s] # "end"
  <2>1. PICK o \in Reshares : WorkerTakesEnd(o) /\ worker[o] = "select"
    BY <1>1, ShareReplaced
  <2>2. \A s \in OwnSides(o) : awaits[o][s] = 5 /\ hold'[o][s] # "end"
    BY <1>1, <2>1, LastEndOver DEF ReshareInv, OwnSides
  <2> QED
    BY <2>1, <2>2
<1>2. TypeOK /\ ReshareInv /\ [Next]_vars =>
        [share' # share =>
           \E o \in Reshares :
             /\ worker[o] = "select"
             /\ \A s \in OwnSides(o) : awaits[o][s] = 5 /\ hold'[o][s] # "end"]_vars
  BY <1>1
<1> QED
  BY <1>2, InvAlways, PTL DEF Spec, ShareReplacedLast

\* When Reshare has returned a key, the goroutines of handleMessageCommittee
\* that nobody reads any more hold nothing but messages of the last round.
THEOREM OnlyLastRoundUnsentCorrect == Spec => []OnlyLastRoundUnsent
<1>1. TypeOK /\ ReshareInv /\ OutboxInv => OnlyLastRoundUnsent
  <2> SUFFICES ASSUME TypeOK, ReshareInv, OutboxInv, NEW g \in pending,
                      result[g.op] = "ok", g.round # 4
               PROVE  FALSE
    BY DEF OnlyLastRoundUnsent
  <2>1. PICK o \in Reshares, r \in 1..3 : g.op = o /\ g.round = r
    BY DEF TypeOK, Senders, Rounds
  <2>2. InFlight(o, r) /\ Reached(o, r) /\ ~Gone(o, r)
    BY <2>1 DEF InFlight, OutboxInv, SentOnce
  <2>3. Me \in members[o]["new"]
    BY <2>1 DEF ReshareInv, OneCaller, OutboxInv, MeJoins, Open
  <2>4. \A s \in OwnSides(o), t \in Rounds : s \in SidesOf(t) => Has(o, s, t)
    <3> SUFFICES ASSUME NEW s \in OwnSides(o), NEW t \in Rounds, s \in SidesOf(t)
                 PROVE  Has(o, s, t)
      OBVIOUS
    <3>1. s \in Sides /\ awaits[o][s] = 5
      BY <2>1 DEF ReshareInv, ShareKept, OwnSides
    <3> QED
      BY <3>1 DEF ReshareInv, RoundsHeld, Rounds
  <2>5. \A s \in Sides : got[o][s] \subseteq posted
    BY DEF OutboxInv, GotPosted
  <2>6. "new" \in OwnSides(o) /\ (Me \in members[o]["old"] => "old" \in OwnSides(o))
    BY <2>3 DEF OwnSides, Sides
  <2>7. CASE r \in {1, 3}
    <3>1. awaits[o]["old"] > r
      BY <2>2, <2>7 DEF Reached, SentBy
    <3>2. awaits[o]["old"] # 0
      BY <3>1
    <3>3. hold[o]["old"] # "none"
      BY <3>2 DEF ReshareInv, PartyShape, Sides
    <3>4. Me \in members[o]["old"]
      BY <3>3 DEF ReshareInv, PartyMade
    <3>5. Has(o, "new", r)
      BY <2>4, <2>6, <2>7 DEF SidesOf, Rounds
    <3>6. \E m \in got[o]["new"] : m.op = o /\ m.from = Me /\ m.round = r
      BY <2>7, <3>4, <3>5 DEF Has, Needs
    <3> QED
      BY <2>2, <2>5, <3>6 DEF Gone, Sides
  <2>8. CASE r = 2 /\ Me \in members[o]["old"]
    <3>1. Has(o, "old", 2)
      BY <2>4, <2>6, <2>8 DEF SidesOf, Rounds
    <3>2. \E m \in got[o]["old"] : m.op = o /\ m.from = Me /\ m.round = 2
      BY <2>3, <3>1 DEF Has, Needs
    <3> QED
      BY <2>2, <2>5, <2>8, <3>2 DEF Gone, Sides
  <2>9. CASE r = 2 /\ Me \notin members[o]["old"]
    <3>1. Has(o, "new", 3)
      BY <2>4, <2>6 DEF SidesOf, Rounds
    <3>2. PICK h \in members[o]["old"] :
            \E m \in got[o]["new"] : m.op = o /\ m.from = h /\ m.round = 3
      BY <3>1 DEF Has, Needs
    <3>3. h \in Peers
      BY <2>9 DEF TypeOK, Sides, Hosts
    <3>4. Sent(o, h, 2, "old")
      BY <2>5, <3>2, <3>3 DEF OutboxInv, ThirdAfterSecond, Sides
    <3> QED
      BY <2>2, <2>9, <3>4 DEF Gone, Sent
  <2> QED
    BY <2>7, <2>8, <2>9
<1>2. Init => OutboxInv
  BY OutboxInit
<1>3. TypeOK /\ ReshareInv /\ OutboxInv /\ [Next]_vars => OutboxInv'
  BY SentOnceStep, OneCopyStep, OutSideStep, GotPostedStep, ThirdStep, MeJoinsStep
     DEF ReshareInv, OutboxInv
<1> QED
  BY <1>1, <1>2, <1>3, InvAlways, PTL DEF Spec

=============================================================================
