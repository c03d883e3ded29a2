---------------------------- MODULE PromiseProofs ----------------------------
(***************************************************************************)
(* Proofs of when the promises of the comments hold that AnyCall does not  *)
(* keep in general: in deployments whose servers are killed, but neither   *)
(* stopped nor late with their heartbeats, and while Redis does not fail.  *)
(***************************************************************************)
EXTENDS AnyCallProofs

PInv == IInv /\ SteadyInv

\* No Redis call fails in a step after which none has failed.
LEMMA FaultsStay ==
  ASSUME TypeOK, [Next]_vars, faults' = 0
  PROVE  /\ faults = 0
         /\ \A s \in Server :
              ~HeartbeatFails(s) /\ ~AcquireReplyLost(s)
         /\ \A p \in Process : ~FailBackFails(p)
         /\ \A p \in Process, r \in Request : ~ClaimFails(p, r)
         /\ \A c \in Client : ~ReadAliveFails(c)
  <1>1. faults \in Nat
    BY HazardAssumption DEF TypeOK
  <1>2. faults' = faults \/ faults' = faults + 1
    BY DEF Start, ReadOwners, Heartbeat, HeartbeatFails, TickEnds, EntryExpires,
      Claim, ClaimFails, FailBackPush, FailBackExpire, FailBackFails, Acquire,
      AcquireReplyLost, LoopExits, Dispatch, Begin, Finish, PushAnswer, ExpireAnswer,
      Release, RespondFails, Stop, Shutdown, Exit, Check, Publish, Receive, TimeOut,
      Close, CallFails, ResponseExpires, SliceEnds, WaiterReads, WaiterSkips,
      ReadAlive, ReadAliveFails, WaiterReturns, Crash, Next, ReapingStep, HeartbeatStep,
      LoopStep, LifeStep, WorkStep, CallerStep, vars, history, Fault
  <1>3. ~Fault
    BY <1>1 DEF Fault
  <1> QED
    BY <1>1, <1>2, <1>3
    DEF HeartbeatFails, AcquireReplyLost, FailBackFails, ClaimFails, ReadAliveFails

-----------------------------------------------------------------------------
(* A steady server.                                                        *)

LEMMA SteadyStatus ==
  ASSUME TypeOK, SteadyInv, [Next]_vars, NEW s \in Server, Steady(s), Steady(s)'
  PROVE  /\ status'[s] \in {"new", "starting", "up", "crashed"}
         /\ status[s] = "crashed" => status'[s] = "crashed"
         /\ status'[s] \in {"new", "starting"} => status[s] \in {"new", "starting"}
  <1>0. s \in Process /\ s \notin Stoppable
    BY DEF Steady, Process
  <1> USE DEF TypeOK, SteadyInv
  <1>1. CASE UNCHANGED status
    BY <1>1
  <1>2. ASSUME NEW t \in Server,
               Start(t) \/ TickEnds(t) \/ Stop(t) \/ Shutdown(t) \/ Exit(t)
        PROVE  /\ status'[s] \in {"new", "starting", "up", "crashed"}
               /\ status[s] = "crashed" => status'[s] = "crashed"
               /\ status'[s] \in {"new", "starting"} => status[s] \in {"new", "starting"}
    <2>1. t \in Process
      BY DEF Process
    <2>2. CASE t = s
      BY <1>0, <1>2, <2>2 DEF Start, TickEnds, Stop, Shutdown, Exit
    <2>3. CASE t # s
      <3>1. status'[s] = status[s]
        BY <1>0, <1>2, <2>1, <2>3 DEF Start, TickEnds, Stop, Shutdown, Exit
      <3> QED
        BY <3>1
    <2> QED
      BY <2>2, <2>3
  <1>3. ASSUME NEW p \in Process, Crash(p)
        PROVE  status'[s] \in {"crashed", status[s]}
    BY <1>0, <1>3 DEF Crash
  <1> QED
    BY <1>1, <1>2, <1>3, StatusWriters

\* The steps of the first tick: the entry is made before anything is reaped.
LEMMA SteadyTick ==
  ASSUME TypeOK, SteadyInv, [Next]_vars, NEW s \in Server, Steady(s), Steady(s)'
  PROVE  /\ reapStep'[s] # "done"
         /\ reapStep'[s] \in {"reap", "push", "expire"} =>
              reapStep[s] \in {"reap", "push", "expire"} \/ Heartbeat(s)
  <1>0. s \in Process /\ s \notin Client /\ ~Stopped(s) /\ reapStep[s] # "done"
    BY ProcessAssumption DEF Steady, Process, SteadyInv, Stopped
  <1> DEFINE Good == /\ reapStep'[s] # "done"
                     /\ reapStep'[s] \in {"reap", "push", "expire"} =>
                          reapStep[s] \in {"reap", "push", "expire"} \/ Heartbeat(s)
  <1> USE DEF TypeOK
  <1>1. CASE UNCHANGED <<reapStep, owners, claim>>
    BY <1>0, <1>1
  <1>2. ASSUME NEW t \in Server,
               ReadOwners(t) \/ Heartbeat(t) \/ HeartbeatFails(t) \/ TickEnds(t)
        PROVE  Good
    <2>1. ~HeartbeatFails(t) /\ t \in Process
      BY FaultsStay DEF Steady, Process
    <2>2. CASE t = s
      BY <1>0, <1>2, <2>1, <2>2 DEF ReadOwners, Heartbeat, TickEnds
    <2>3. CASE t # s
      <3>1. reapStep'[s] = reapStep[s]
        BY <1>0, <1>2, <2>1, <2>3 DEF ReadOwners, Heartbeat, TickEnds
      <3> QED
        BY <1>0, <3>1
    <2> QED
      BY <2>2, <2>3
  <1>3. ASSUME NEW p \in Process,
               FailBackPush(p) \/ FailBackExpire(p) \/ FailBackFails(p)
        PROVE  Good
    BY <1>0, <1>3 DEF FailBackPush, FailBackExpire, FailBackFails
  <1>4. ASSUME NEW p \in Process, NEW r \in Request, Claim(p, r) \/ ClaimFails(p, r)
        PROVE  Good
    BY <1>0, <1>4 DEF Claim, ClaimFails
  <1>5. ASSUME NEW r \in Request, WaiterReads(r) \/ WaiterReturns(r)
        PROVE  Good
    <2>1. ClientOf[r] # s
      BY <1>0, DeploymentAssumption
    <2> QED
      BY <1>0, <1>5, <2>1 DEF WaiterReads, WaiterReturns
  <1>6. ASSUME NEW c \in Client, ReadAlive(c) \/ ReadAliveFails(c)
        PROVE  Good
    <2>1. c # s
      BY <1>0
    <2> QED
      BY <1>0, <1>6, <2>1 DEF ReadAlive, ReadAliveFails
  <1> QED
    BY <1>1, <1>2, <1>3, <1>4, <1>5, <1>6, ReaperWriters

\* An entry goes, and absence comes, only with a server that was killed.
LEMMA SteadyEntry ==
  ASSUME TypeOK, SteadyInv, [Next]_vars, NEW s \in Server, Steady(s), Steady(s)'
  PROVE  /\ s \in alive /\ status[s] # "crashed" => s \in alive'
         /\ s \in absent' => s \in absent \/ status[s] = "crashed"
         /\ Heartbeat(s) => s \in alive'
  <1>1. ASSUME NEW t \in Server, EntryExpires(t), t = s
        PROVE  status[s] = "crashed"
    BY <1>1 DEF EntryExpires, SteadyInv, Steady
  <1>2. ASSUME NEW t \in Server, TickEnds(t), t = s
        PROVE  s \in absent' => s \in absent
    BY <1>2 DEF TickEnds, SteadyInv
  <1>3. ASSUME NEW t \in Server, TickEnds(t), t # s
        PROVE  s \in absent' => s \in absent
    BY <1>3 DEF TickEnds
  <1>4. ASSUME NEW t \in Server, Heartbeat(t) \/ HeartbeatFails(t)
        PROVE  alive \subseteq alive' /\ absent' = absent
    BY <1>4 DEF Heartbeat, HeartbeatFails, history
  <1>5. ASSUME NEW t \in Server, EntryExpires(t), t # s
        PROVE  (s \in alive => s \in alive') /\ (s \in absent' => s \in absent)
    BY <1>5 DEF EntryExpires
  <1>6. ASSUME NEW t \in Server, TickEnds(t)
        PROVE  alive' = alive
    BY <1>6 DEF TickEnds, redis
  <1>7. Heartbeat(s) => s \in alive'
    BY DEF Heartbeat
  <1> QED
    BY <1>1, <1>2, <1>3, <1>4, <1>5, <1>6, <1>7, AliveWriters

LEMMA SteadyNext == TypeOK /\ SteadyInv /\ [Next]_vars => SteadyInv'
  <1> SUFFICES ASSUME TypeOK, SteadyInv, [Next]_vars, NEW s \in Server, Steady(s)'
               PROVE  /\ status'[s] \in {"new", "starting", "up", "crashed"}
                      /\ reapStep'[s] # "done"
                      /\ /\ status'[s] \in {"new", "starting"}
                         /\ reapStep'[s] \in {"reap", "push", "expire"}
                         => s \in alive'
                      /\ s \in absent' => status'[s] = "crashed"
    BY DEF SteadyInv
  <1>1. Steady(s)
    BY FaultsStay DEF Steady
  <1>2. status'[s] \in {"new", "starting", "up", "crashed"} /\ reapStep'[s] # "done"
    BY <1>1, SteadyStatus, SteadyTick
  <1>3. s \in absent' => status'[s] = "crashed"
    BY <1>1, SteadyStatus, SteadyEntry DEF SteadyInv
  <1>4. ASSUME status'[s] \in {"new", "starting"}, reapStep'[s] \in {"reap", "push", "expire"}
        PROVE  s \in alive'
    <2>1. CASE Heartbeat(s)
      BY <1>1, <2>1, SteadyEntry
    <2>2. CASE ~Heartbeat(s)
      <3>1. /\ reapStep[s] \in {"reap", "push", "expire"}
            /\ status[s] \in {"new", "starting"}
        BY <1>1, <1>4, <2>2, SteadyTick, SteadyStatus
      <3> QED
        BY <1>1, <3>1, SteadyEntry DEF SteadyInv
    <2> QED
      BY <2>1, <2>2
  <1> QED
    BY <1>2, <1>3, <1>4

LEMMA SteadyInit == Init => PInv
  <1> SUFFICES ASSUME Init PROVE SteadyInv
    BY InvInit DEF PInv
  <1> QED
    BY DEF Init, SteadyInv, Process

LEMMA PromiseNext == PInv /\ [Next]_vars => PInv'
  BY InvNext, SteadyNext DEF PInv, IInv

-----------------------------------------------------------------------------
(* The theorems.                                                           *)

\* The invariant of the protocol and of its steady servers holds for every
\* deployment.
THEOREM SteadyInvariance == Spec => []PInv
  BY SteadyInit, PromiseNext, PTL DEF Spec

LEMMA LostFromDead == PInv => LostMeansDead
  <1> SUFFICES ASSUME PInv, NEW r \in Request, Has(r, "lost"), faults = 0,
                      holder[r] \notin Stoppable \cup Stallable
               PROVE  status[holder[r]] = "crashed"
    BY DEF LostMeansDead
  <1>1. holder[r] \in absent /\ holder[r] \in Server
    BY DEF PInv, IInv, LostInv, TypeOK
  <1> QED
    BY <1>1 DEF PInv, SteadyInv, Steady

\* While no Redis call has failed, a server that is neither stopped nor late
\* is failed back only if it was killed: neither its start-up nor any order of
\* a reaper's reads can make a live server lose a request.
THEOREM LostMeansDeadHolds == Spec => []LostMeansDead
  BY SteadyInvariance, LostFromDead, PTL

\* Where servers are only killed, and Redis does not fail, all servers are
\* steady.
OnlyCrashes == Stoppable = {} /\ Stallable = {} /\ MaxFaults = 0

LEMMA AllSteady ==
  ASSUME OnlyCrashes, TypeOK
  PROVE  faults = 0 /\ \A s \in Server : Steady(s)
  BY DEF OnlyCrashes, Steady, TypeOK

\* A server that answers has not been called lost.
LEMMA AnswerBeforeLost ==
  ASSUME OnlyCrashes, PInv, NEW r \in Request, PushAnswer(r)
  PROVE  ~Has(r, "lost")
  <1>1. LostMeansDead /\ faults = 0 /\ Executing(holder[r])
    BY LostFromDead, AllSteady DEF PushAnswer, AtWork, PInv, IInv
  <1>2. holder[r] \notin Stoppable \cup Stallable /\ status[holder[r]] # "crashed"
    BY <1>1 DEF OnlyCrashes, Executing
  <1> QED
    BY <1>1, <1>2 DEF LostMeansDead

LEMMA FinalNext ==
  ASSUME OnlyCrashes, PInv, LostIsFinal, [Next]_vars
  PROVE  LostIsFinal'
  <1> SUFFICES ASSUME NEW r \in Request, NEW i \in DOMAIN written'[r],
                      NEW j \in DOMAIN written'[r],
                      written'[r][i] = "lost", written'[r][j] = "answer"
               PROVE  j < i
    BY DEF LostIsFinal
  <1>0. written[r] \in Seq(Response)
    BY DEF PInv, IInv, TypeOK
  <1>1. CASE written'[r] = written[r]
    BY <1>1 DEF LostIsFinal
  <1>2. ASSUME NEW p \in Process, FailBackPush(p), written'[r] # written[r]
        PROVE  j < i
    <2>1. written'[r] = Append(written[r], "lost")
      BY <1>2 DEF FailBackPush, Write, PInv, IInv, TypeOK
    <2>2. j \in DOMAIN written[r] /\ written[r][j] = "answer"
      BY <1>0, <2>1
    <2>3. CASE i = Len(written[r]) + 1
      BY <1>0, <2>2, <2>3
    <2>4. CASE i \in DOMAIN written[r]
      <3>1. written[r][i] = "lost"
        BY <1>0, <2>1, <2>4
      <3> QED
        BY <2>2, <2>4, <3>1 DEF LostIsFinal
    <2> QED
      BY <1>0, <2>1, <2>3, <2>4
  <1>3. ASSUME NEW q \in Request, PushAnswer(q), written'[r] # written[r]
        PROVE  j < i
    <2>1. q = r /\ written'[r] = Append(written[r], "answer")
      BY <1>3 DEF PushAnswer, Write, PInv, IInv, TypeOK
    <2>2. i \in DOMAIN written[r] /\ written[r][i] = "lost"
      BY <1>0, <2>1
    <2>3. ~Has(r, "lost")
      BY <1>3, <2>1, AnswerBeforeLost
    <2> QED
      BY <2>2, <2>3 DEF Has, Range
  <1> QED
    BY <1>1, <1>2, <1>3, WrittenWriters

\* The comment of exceptions.py is true of servers that are only killed: after
\* the error that the server was lost, no response comes.
THEOREM LostIsFinalWhereSteady == OnlyCrashes /\ Spec => []LostIsFinal
  <1> SUFFICES ASSUME OnlyCrashes PROVE Spec => []LostIsFinal
    OBVIOUS
  <1>1. Init => LostIsFinal
    BY DEF Init, LostIsFinal
  <1>2. PInv /\ LostIsFinal /\ [Next]_vars => LostIsFinal'
    BY FinalNext
  <1> QED
    BY <1>1, <1>2, SteadyInvariance, PTL DEF Spec

LEMMA TakerNext ==
  ASSUME OnlyCrashes, PInv, [Next]_vars, NEW r \in Request,
         holder[r] = NoServer, holder'[r] # NoServer
  PROVE  holder'[r] \in alive
  <1>1. PICK s \in Server : Acquire(s) \/ AcquireReplyLost(s)
    BY HolderWriters
  <1>2. PICK m \in Method : holder' = [holder EXCEPT ![Head(queue[m])] = s]
    BY <1>1, TakeFacts DEF PInv, IInv
  <1>3. holder'[r] = s
    BY <1>2 DEF PInv, IInv, TypeOK
  <1>4. Serving(s) /\ status[s] # "crashed"
    BY <1>1 DEF Acquire, AcquireReplyLost, Serving, Executing
  <1>5. s \notin absent
    BY <1>4, AllSteady DEF PInv, IInv, SteadyInv
  <1> QED
    BY <1>3, <1>4, <1>5 DEF PInv, IInv, LiveInv

\* The comment of server.py is true of them too: a server is in the live set
\* whenever it takes a request.
THEOREM TakerIsAliveWhereSteady == OnlyCrashes /\ Spec => TakerIsAlive
  <1> SUFFICES ASSUME OnlyCrashes PROVE Spec => TakerIsAlive
    OBVIOUS
  <1>1. PInv /\ [Next]_vars =>
          [\A r \in Request :
             holder[r] = NoServer /\ holder'[r] # NoServer => holder'[r] \in alive]_vars
    BY TakerNext
  <1> QED
    BY <1>1, SteadyInvariance, PTL DEF Spec, TakerIsAlive
=============================================================================
