--------------------------- MODULE AnyCallProofs ---------------------------
(***************************************************************************)
(* Proofs of the safety properties of AnyCall, for any number of servers,  *)
(* clients, methods and requests and any bound on faults.                  *)
(***************************************************************************)
EXTENDS AnyCallInv, TLAPS

LEMMA TypeInit == Init => TypeOK
  <1> SUFFICES ASSUME Init PROVE TypeOK
    OBVIOUS
  <1> QED
    BY HazardAssumption
    DEF Init, TypeOK, Nobody, Process, Status, Loop, Work, ReapStep, Call, Outcome

LEMMA TypeNext == TypeOK /\ [Next]_vars => TypeOK'
  <1> SUFFICES ASSUME TypeOK, [Next]_vars PROVE TypeOK'
    OBVIOUS
  <1> USE ProcessAssumption, DeploymentAssumption, HazardAssumption
         DEF TypeOK, redis, server, reaper, caller, history, Process, Status, Loop,
             Work, ReapStep, Call, Outcome, Response, Slip, Nobody, Fault, Write,
             SetExpiry, Pop, Delete, Pushed, CallStep, WorkGoesTo, Orphans, NextRound,
             Take, Acquirable
  <1>1. ASSUME NEW s \in Server, Start(s) PROVE TypeOK'
    BY <1>1 DEF Start
  <1>2. ASSUME NEW s \in Server, ReadOwners(s) PROVE TypeOK'
    BY <1>2 DEF ReadOwners
  <1>3. ASSUME NEW s \in Server, Heartbeat(s) PROVE TypeOK'
    BY <1>3 DEF Heartbeat
  <1>4. ASSUME NEW s \in Server, HeartbeatFails(s) PROVE TypeOK'
    BY <1>4 DEF HeartbeatFails
  <1>5. ASSUME NEW s \in Server, TickEnds(s) PROVE TypeOK'
    <2>1. CASE status[s] = "starting"
      <3>1. status' \in [Process -> Status] /\ loop' \in [Server -> Loop]
        BY <1>5, <2>1 DEF TickEnds
      <3>2. reapStep' \in [Process -> ReapStep] /\ absent' \subseteq Server
        BY <1>5, <2>1 DEF TickEnds
      <3>3. \A q \in Process : reapStep'[q] \in {"push", "expire"} => claim'[q] \in Request
        BY <1>5, <2>1 DEF TickEnds
      <3> QED
        BY <1>5, <2>1, <3>1, <3>2, <3>3 DEF TickEnds
    <2>2. CASE status[s] # "starting"
      BY <1>5, <2>2 DEF TickEnds
    <2> QED
      BY <2>1, <2>2
  <1>6. ASSUME NEW s \in Server, EntryExpires(s) PROVE TypeOK'
    BY <1>6 DEF EntryExpires
  <1>7. ASSUME NEW s \in Server, Acquire(s) PROVE TypeOK'
    <2>1. PICK m \in Acquirable(s) :
             Take(s, m) /\ work' = [work EXCEPT ![Head(queue[m])] = "taken"]
      BY <1>7 DEF Acquire
    <2>2. m \in Method /\ Head(queue[m]) \in Request /\ Tail(queue[m]) \in Seq(Request)
      BY <2>1
    <2> QED
      BY <1>7, <2>1, <2>2 DEF Acquire
  <1>8. ASSUME NEW s \in Server, AcquireReplyLost(s) PROVE TypeOK'
    BY <1>8 DEF AcquireReplyLost
  <1>9. ASSUME NEW s \in Server, LoopExits(s) PROVE TypeOK'
    BY <1>9 DEF LoopExits
  <1>10. ASSUME NEW s \in Server, Stop(s) PROVE TypeOK'
    BY <1>10 DEF Stop
  <1>11. ASSUME NEW s \in Server, Shutdown(s) PROVE TypeOK'
    BY <1>11 DEF Shutdown
  <1>12. ASSUME NEW s \in Server, Exit(s) PROVE TypeOK'
    BY <1>12 DEF Exit
  <1>13. ASSUME NEW p \in Process, FailBackPush(p) PROVE TypeOK'
    BY <1>13 DEF FailBackPush
  <1>14. ASSUME NEW p \in Process, FailBackExpire(p) PROVE TypeOK'
    BY <1>14 DEF FailBackExpire
  <1>15. ASSUME NEW p \in Process, FailBackFails(p) PROVE TypeOK'
    BY <1>15 DEF FailBackFails
  <1>16. ASSUME NEW p \in Process, Crash(p) PROVE TypeOK'
    BY <1>16 DEF Crash
  <1>17. ASSUME NEW r \in Request, Begin(r) PROVE TypeOK'
    BY <1>17 DEF Begin
  <1>18. ASSUME NEW r \in Request, Finish(r) PROVE TypeOK'
    BY <1>18 DEF Finish
  <1>19. ASSUME NEW r \in Request, PushAnswer(r) PROVE TypeOK'
    BY <1>19 DEF PushAnswer
  <1>20. ASSUME NEW r \in Request, ExpireAnswer(r) PROVE TypeOK'
    BY <1>20 DEF ExpireAnswer
  <1>21. ASSUME NEW r \in Request, Release(r) PROVE TypeOK'
    BY <1>21 DEF Release
  <1>22. ASSUME NEW r \in Request, RespondFails(r) PROVE TypeOK'
    BY <1>22 DEF RespondFails
  <1>23. ASSUME NEW r \in Request, Check(r) PROVE TypeOK'
    BY <1>23 DEF Check
  <1>24. ASSUME NEW r \in Request, Publish(r) PROVE TypeOK'
    BY <1>24 DEF Publish
  <1>25. ASSUME NEW r \in Request, Receive(r) PROVE TypeOK'
    BY <1>25 DEF Receive
  <1>26. ASSUME NEW r \in Request, TimeOut(r) PROVE TypeOK'
    BY <1>26 DEF TimeOut
  <1>27. ASSUME NEW r \in Request, Close(r) PROVE TypeOK'
    BY <1>27 DEF Close
  <1>28. ASSUME NEW r \in Request, CallFails(r) PROVE TypeOK'
    <2>1. /\ faults' \in 0..MaxFaults
          /\ UNCHANGED <<inflight, alive, status, loop, work, holder, reapStep,
                         owners, claim, absent, written, slips>>
          /\ outcome' \in [Request -> Outcome]
      BY <1>28 DEF CallFails
    <2>2. /\ call' \in [Request -> Call]
          /\ queue' \in [Method -> Seq(Request)]
          /\ responses' \in [Request -> Seq(Response)]
          /\ expiring' \subseteq Request
      <3>1. CASE call[r] = "closing"
        <4>1. /\ call' = [call EXCEPT ![r] = "closed"]
              /\ UNCHANGED queue
              /\ Delete(r) \/ UNCHANGED <<responses, expiring>>
          BY <1>28, <3>1 DEF CallFails
        <4>2. CASE Delete(r)
          BY <4>1, <4>2
        <4>3. CASE UNCHANGED <<responses, expiring>>
          BY <4>1, <4>3
        <4> QED
          BY <4>1, <4>2, <4>3
      <3>2. CASE call[r] = "checked"
        <4>1. /\ call' = [call EXCEPT ![r] = "closing"]
              /\ queue' = queue \/ queue' = Pushed(r)
              /\ UNCHANGED <<responses, expiring>>
          BY <1>28, <3>2 DEF CallFails
        <4>2. Pushed(r) \in [Method -> Seq(Request)]
          OBVIOUS
        <4>3. queue' \in [Method -> Seq(Request)]
          BY <4>1, <4>2
        <4>4. call' \in [Request -> Call]
          BY <4>1
        <4> QED
          BY <4>1, <4>3, <4>4
      <3>3. CASE call[r] = "idle"
        BY <1>28, <3>3 DEF CallFails
      <3>4. CASE call[r] = "waiting"
        <4>1. /\ call' = [call EXCEPT ![r] = "closing"]
              /\ UNCHANGED queue
              /\ Pop(r) \/ UNCHANGED <<responses, expiring>>
          BY <1>28, <3>4 DEF CallFails
        <4>2. CASE Pop(r)
          <5>1. Tail(responses[r]) \in Seq(Response)
            BY <4>2
          <5>2. /\ responses' \in [Request -> Seq(Response)]
                /\ expiring' \subseteq Request
            BY <4>2, <5>1
          <5> QED
            BY <4>1, <5>2
        <4>3. CASE UNCHANGED <<responses, expiring>>
          BY <4>1, <4>3
        <4> QED
          BY <4>1, <4>2, <4>3
      <3> QED
        BY <1>28, <3>1, <3>2, <3>3, <3>4 DEF CallFails
    <2> QED
      BY <2>1, <2>2
  <1>29. ASSUME NEW r \in Request, ResponseExpires(r) PROVE TypeOK'
    BY <1>29 DEF ResponseExpires
  <1>30. ASSUME NEW r \in Request, SliceEnds(r) PROVE TypeOK'
    BY <1>30 DEF SliceEnds
  <1>38. ASSUME NEW r \in Request, WaiterReads(r) PROVE TypeOK'
    BY <1>38 DEF WaiterReads
  <1>39. ASSUME NEW r \in Request, WaiterSkips(r) PROVE TypeOK'
    <2>1. /\ call' \in [Request -> Call]
          /\ UNCHANGED <<redis, status, server, reaper, outcome, absent, written, slips>>
      BY <1>39 DEF WaiterSkips
    <2>2. faults' \in 0..MaxFaults
      BY <1>39 DEF WaiterSkips
    <2> QED
      BY <2>1, <2>2
  <1>31. ASSUME NEW r \in Request, WaiterReturns(r) PROVE TypeOK'
    BY <1>31 DEF WaiterReturns
  <1>32. ASSUME NEW c \in Client, ReadAlive(c) PROVE TypeOK'
    BY <1>32 DEF ReadAlive
  <1>33. ASSUME NEW c \in Client, ReadAliveFails(c) PROVE TypeOK'
    BY <1>33 DEF ReadAliveFails
  <1>34. ASSUME NEW p \in Process, NEW r \in Request, Claim(p, r) PROVE TypeOK'
    <2>1. /\ owners' \in [Process -> [Request -> Server \cup {NoServer}]]
          /\ inflight' \in [Request -> Server \cup {NoServer}]
      BY <1>34 DEF Claim
    <2>2. /\ reapStep' \in [Process -> ReapStep]
          /\ claim' \in [Process -> Request \cup {NoRequest}]
          /\ \A q \in Process : reapStep'[q] \in {"push", "expire"} => claim'[q] \in Request
      <3>1. CASE inflight[r] = NoServer
        BY <1>34, <3>1 DEF Claim
      <3>2. CASE inflight[r] # NoServer
        <4>1. /\ reapStep' = [reapStep EXCEPT ![p] = "push"]
              /\ claim' = [claim EXCEPT ![p] = r]
          BY <1>34, <3>2 DEF Claim
        <4> QED
          BY <4>1
      <3> QED
        BY <3>1, <3>2
    <2> QED
      BY <1>34, <2>1, <2>2 DEF Claim
  <1>35. ASSUME NEW p \in Process, NEW r \in Request, ClaimFails(p, r) PROVE TypeOK'
    <2>1. /\ owners' \in [Process -> [Request -> Server \cup {NoServer}]]
          /\ faults' \in 0..MaxFaults
      BY <1>35 DEF ClaimFails
    <2>2. inflight' \in [Request -> Server \cup {NoServer}] /\ slips' \subseteq Slip \X Request
      <3>1. <<"claim", r>> \in Slip \X Request
        OBVIOUS
      <3>2. CASE UNCHANGED <<inflight, slips>>
        BY <3>2
      <3>3. CASE /\ inflight' = [inflight EXCEPT ![r] = NoServer]
                 /\ slips' = slips \cup {<<"claim", r>>}
        BY <3>1, <3>3
      <3> QED
        BY <1>35, <3>2, <3>3 DEF ClaimFails
    <2> QED
      BY <1>35, <2>1, <2>2 DEF ClaimFails
  <1>36. ASSUME NEW s \in Server, NEW r \in Request, Dispatch(s, r) PROVE TypeOK'
    <2>1. CASE status[s] = "shutdown"
      <3>1. slips' \subseteq Slip \X Request
        <4>1. <<"submit", r>> \in Slip \X Request
          OBVIOUS
        <4> QED
          BY <1>36, <2>1, <4>1 DEF Dispatch
      <3> QED
        BY <1>36, <2>1, <3>1 DEF Dispatch
    <2>2. CASE status[s] # "shutdown"
      BY <1>36, <2>2 DEF Dispatch
    <2> QED
      BY <2>1, <2>2
  <1>37. CASE UNCHANGED vars
    BY <1>37 DEF vars, redis, server, reaper, caller, history
  <1> QED
    BY <1>1, <1>2, <1>3, <1>4, <1>5, <1>6, <1>7, <1>8, <1>9, <1>10,
       <1>11, <1>12, <1>13, <1>14, <1>15, <1>16, <1>17, <1>18, <1>19, <1>20,
       <1>21, <1>22, <1>23, <1>24, <1>25, <1>26, <1>27, <1>28, <1>29, <1>30,
       <1>31, <1>32, <1>33, <1>34, <1>35, <1>36, <1>37, <1>38, <1>39
    DEF Next, ReapingStep, HeartbeatStep, LoopStep, LifeStep, WorkStep, CallerStep

-----------------------------------------------------------------------------
(* Which actions write which variable: the frame of every other proof.     *)

USE DEF Start, ReadOwners, Heartbeat, HeartbeatFails, TickEnds, EntryExpires,
    Claim, ClaimFails, FailBackPush, FailBackExpire, FailBackFails, Acquire,
    AcquireReplyLost, LoopExits, Dispatch, Begin, Finish, PushAnswer, ExpireAnswer,
    Release, RespondFails, Stop, Shutdown, Exit, Check, Publish, Receive, TimeOut,
    Close, CallFails, ResponseExpires, SliceEnds, WaiterReads, WaiterSkips,
    ReadAlive, ReadAliveFails, WaiterReturns, Crash, Next, ReapingStep, HeartbeatStep,
    LoopStep, LifeStep, WorkStep, CallerStep, vars, redis, server, reaper, caller, history

LEMMA QueueWriters ==
  [Next]_vars =>
    \/ UNCHANGED queue
    \/ \E s \in Server : Acquire(s) \/ AcquireReplyLost(s)
    \/ \E r \in Request : Publish(r) \/ CallFails(r)
  OBVIOUS

LEMMA InflightWriters ==
  [Next]_vars =>
    \/ UNCHANGED inflight
    \/ \E s \in Server : Acquire(s) \/ AcquireReplyLost(s)
    \/ \E p \in Process, r \in Request : Claim(p, r) \/ ClaimFails(p, r)
    \/ \E r \in Request : Release(r)
  OBVIOUS

LEMMA AliveWriters ==
  [Next]_vars =>
    \/ UNCHANGED <<alive, absent>>
    \/ \E s \in Server :
         Heartbeat(s) \/ HeartbeatFails(s) \/ TickEnds(s) \/ EntryExpires(s)
  OBVIOUS

LEMMA ResponseWriters ==
  [Next]_vars =>
    \/ UNCHANGED responses
    \/ \E p \in Process : FailBackPush(p)
    \/ \E r \in Request :
         PushAnswer(r) \/ Receive(r) \/ Close(r) \/ CallFails(r) \/ ResponseExpires(r)
  OBVIOUS

LEMMA StatusWriters ==
  [Next]_vars =>
    \/ UNCHANGED status
    \/ \E s \in Server : Start(s) \/ TickEnds(s) \/ Stop(s) \/ Shutdown(s) \/ Exit(s)
    \/ \E p \in Process : Crash(p)
  OBVIOUS

LEMMA LoopWriters ==
  [Next]_vars =>
    \/ UNCHANGED loop
    \/ \E s \in Server :
         TickEnds(s) \/ Acquire(s) \/ AcquireReplyLost(s) \/ LoopExits(s)
    \/ \E s \in Server, r \in Request : Dispatch(s, r)
  OBVIOUS

LEMMA WorkWriters ==
  [Next]_vars =>
    \/ UNCHANGED work
    \/ \E s \in Server : Acquire(s) \/ AcquireReplyLost(s)
    \/ \E s \in Server, r \in Request : Dispatch(s, r)
    \/ \E r \in Request :
         \/ Begin(r) \/ Finish(r) \/ PushAnswer(r) \/ ExpireAnswer(r)
         \/ Release(r) \/ RespondFails(r)
  OBVIOUS

LEMMA HolderWriters ==
  [Next]_vars =>
    \/ UNCHANGED holder
    \/ \E s \in Server : Acquire(s) \/ AcquireReplyLost(s)
  OBVIOUS

LEMMA ReaperWriters ==
  [Next]_vars =>
    \/ UNCHANGED <<reapStep, owners, claim>>
    \/ \E s \in Server :
         ReadOwners(s) \/ Heartbeat(s) \/ HeartbeatFails(s) \/ TickEnds(s)
    \/ \E p \in Process : FailBackPush(p) \/ FailBackExpire(p) \/ FailBackFails(p)
    \/ \E p \in Process, r \in Request : Claim(p, r) \/ ClaimFails(p, r)
    \/ \E r \in Request : WaiterReads(r) \/ WaiterReturns(r)
    \/ \E c \in Client : ReadAlive(c) \/ ReadAliveFails(c)
  OBVIOUS

LEMMA CallWriters ==
  [Next]_vars =>
    \/ UNCHANGED <<call, outcome>>
    \/ \E r \in Request :
         \/ Check(r) \/ Publish(r) \/ Receive(r) \/ TimeOut(r) \/ Close(r)
         \/ CallFails(r) \/ SliceEnds(r) \/ WaiterReads(r) \/ WaiterSkips(r)
         \/ WaiterReturns(r)
  OBVIOUS

LEMMA WrittenWriters ==
  [Next]_vars =>
    \/ UNCHANGED written
    \/ \E p \in Process : FailBackPush(p)
    \/ \E r \in Request : PushAnswer(r)
  OBVIOUS

LEMMA SlipWriters ==
  [Next]_vars =>
    \/ UNCHANGED slips
    \/ \E s \in Server : AcquireReplyLost(s)
    \/ \E s \in Server, r \in Request : Dispatch(s, r)
    \/ \E p \in Process : FailBackFails(p)
    \/ \E p \in Process, r \in Request : ClaimFails(p, r)
    \/ \E r \in Request : RespondFails(r)
  OBVIOUS

HIDE DEF Start, ReadOwners, Heartbeat, HeartbeatFails, TickEnds, EntryExpires,
    Claim, ClaimFails, FailBackPush, FailBackExpire, FailBackFails, Acquire,
    AcquireReplyLost, LoopExits, Dispatch, Begin, Finish, PushAnswer, ExpireAnswer,
    Release, RespondFails, Stop, Shutdown, Exit, Check, Publish, Receive, TimeOut,
    Close, CallFails, ResponseExpires, SliceEnds, WaiterReads, WaiterSkips,
    ReadAlive, ReadAliveFails, WaiterReturns, Crash, Next, ReapingStep, HeartbeatStep,
    LoopStep, LifeStep, WorkStep, CallerStep, vars, redis, server, reaper, caller, history

-----------------------------------------------------------------------------
(* Servers: what a server that serves has, and what is never undone.       *)

LEMMA LiveNext == TypeOK /\ LiveInv /\ [Next]_vars => LiveInv'
  <1> SUFFICES ASSUME TypeOK, LiveInv, [Next]_vars PROVE LiveInv'
    OBVIOUS
  <1> USE DEF TypeOK, LiveInv, Serving
  <1>1. CASE UNCHANGED <<loop, alive, absent>>
    BY <1>1
  <1>2. ASSUME NEW s \in Server, Heartbeat(s) PROVE LiveInv'
    BY <1>2 DEF Heartbeat, server, history
  <1>3. ASSUME NEW s \in Server, HeartbeatFails(s) PROVE LiveInv'
    <2>1. /\ alive \subseteq alive'
          /\ UNCHANGED <<loop, absent>>
      BY <1>3 DEF HeartbeatFails, server
    <2> QED
      BY <2>1
  <1>4. ASSUME NEW s \in Server, TickEnds(s) PROVE LiveInv'
    BY <1>4 DEF TickEnds, redis
  <1>5. ASSUME NEW s \in Server, EntryExpires(s) PROVE LiveInv'
    BY <1>5 DEF EntryExpires, server
  <1>6. ASSUME NEW s \in Server, Acquire(s) \/ AcquireReplyLost(s) \/ LoopExits(s)
        PROVE  LiveInv'
    BY <1>6 DEF Acquire, AcquireReplyLost, LoopExits, NextRound, redis, history
  <1>7. ASSUME NEW s \in Server, NEW r \in Request, Dispatch(s, r) PROVE LiveInv'
    BY <1>7 DEF Dispatch, NextRound, redis
  <1> QED
    BY <1>1, <1>2, <1>3, <1>4, <1>5, <1>6, <1>7, AliveWriters, LoopWriters

\* Once a server serves it has served, once absent it has been absent.
LEMMA Kept ==
  ASSUME TypeOK, [Next]_vars
  PROVE  /\ absent \subseteq absent'
         /\ \A s \in Server : Serving(s) => Serving(s)'
  <1>1. absent \subseteq absent'
    BY AliveWriters
    DEF Heartbeat, HeartbeatFails, TickEnds, EntryExpires, history
  <1>2. \A s \in Server : Serving(s) => Serving(s)'
    BY LoopWriters
    DEF TypeOK, Serving, TickEnds, Acquire, AcquireReplyLost, LoopExits, Dispatch,
        NextRound
  <1> QED
    BY <1>1, <1>2

-----------------------------------------------------------------------------
(* Queues.                                                                 *)

\* Taking, whether its reply arrives or not: the oldest request of a queue
\* goes, held by nobody so far, to a server that serves.
LEMMA TakeFacts ==
  ASSUME TypeOK, QueueInv, NEW s \in Server, Acquire(s) \/ AcquireReplyLost(s)
  PROVE  \E m \in Method, w \in {"taken", "done"} :
           /\ queue[m] # <<>>
           /\ Head(queue[m]) \in Request
           /\ MethodOf[Head(queue[m])] = m
           /\ holder[Head(queue[m])] = NoServer
           /\ call[Head(queue[m])] \notin {"idle", "checked"}
           /\ queue' = [queue EXCEPT ![m] = Tail(@)]
           /\ inflight' = [inflight EXCEPT ![Head(queue[m])] = s]
           /\ holder' = [holder EXCEPT ![Head(queue[m])] = s]
           /\ work' = [work EXCEPT ![Head(queue[m])] = w]
           /\ Serving(s)
           /\ UNCHANGED <<alive, responses, status, reapStep, owners, claim, call,
                          outcome, absent, written>>
  <1>1. PICK m \in Acquirable(s), w \in {"taken", "done"} :
          /\ Take(s, m)
          /\ work' = [work EXCEPT ![Head(queue[m])] = w]
    BY DEF Acquire, AcquireReplyLost
  <1>2. m \in Method /\ queue[m] \in Seq(Request) /\ queue[m] # <<>>
    BY <1>1, DeploymentAssumption DEF Acquirable, TypeOK
  <1>3. /\ 1 \in DOMAIN queue[m]
        /\ Head(queue[m]) = queue[m][1]
        /\ Head(queue[m]) \in Request
    BY <1>2
  <1>4. Serving(s)
    BY DEF Serving, Acquire, AcquireReplyLost
  <1>5. UNCHANGED <<alive, responses, status, reapStep, owners, claim, call,
                    outcome, absent, written>>
    BY DEF Acquire, AcquireReplyLost, reaper, caller, history
  <1>6. /\ MethodOf[Head(queue[m])] = m
        /\ holder[Head(queue[m])] = NoServer
        /\ call[Head(queue[m])] \notin {"idle", "checked"}
    BY <1>2, <1>3 DEF QueueInv
  <1>7. /\ queue' = [queue EXCEPT ![m] = Tail(@)]
        /\ inflight' = [inflight EXCEPT ![Head(queue[m])] = s]
        /\ holder' = [holder EXCEPT ![Head(queue[m])] = s]
    BY <1>1 DEF Take
  <1> QED
    BY <1>1, <1>2, <1>3, <1>4, <1>5, <1>6, <1>7

\* A holder is never replaced.
LEMMA HolderKept ==
  ASSUME TypeOK, QueueInv, [Next]_vars
  PROVE  \A r \in Request : holder[r] # NoServer => holder'[r] = holder[r]
  <1>1. CASE UNCHANGED holder
    BY <1>1
  <1>2. ASSUME NEW s \in Server, Acquire(s) \/ AcquireReplyLost(s)
        PROVE  \A r \in Request : holder[r] # NoServer => holder'[r] = holder[r]
    BY <1>2, TakeFacts DEF TypeOK
  <1> QED
    BY <1>1, <1>2, HolderWriters

\* A call never goes back to before its publication.
LEMMA CallForward ==
  ASSUME TypeOK, [Next]_vars
  PROVE  \A r \in Request :
           call'[r] \in {"idle", "checked"} => call[r] \in {"idle", "checked"}
  BY CallWriters
  DEF TypeOK, Check, Publish, Receive, TimeOut, Close, CallFails, SliceEnds,
      WaiterReads, WaiterSkips, WaiterReturns, CallStep

\* Appending a request that is nowhere yet keeps the queues in order.
LEMMA PushKeepsQueues ==
  ASSUME TypeOK, QueueInv, [Next]_vars, NEW r \in Request,
         call[r] = "checked", queue' = Pushed(r), UNCHANGED holder,
         call'[r] \notin {"idle", "checked"}
  PROVE  QueueInv'
  <1> DEFINE n == MethodOf[r]
  <1>1. n \in Method /\ queue[n] \in Seq(Request)
    BY DeploymentAssumption DEF TypeOK
  <1>2. holder[r] = NoServer
    BY DEF QueueInv
  <1>3. \A m \in Method : \A i \in DOMAIN queue[m] : queue[m][i] # r
    BY DEF QueueInv
  <1>4. ASSUME NEW m \in Method, m # n
        PROVE  queue'[m] = queue[m]
    BY <1>4 DEF Pushed, TypeOK
  <1>5. queue'[n] = Append(queue[n], r)
    BY <1>1 DEF Pushed, TypeOK
  <1>6. /\ DOMAIN queue'[n] = 1..(Len(queue[n]) + 1)
        /\ DOMAIN queue[n] = 1..Len(queue[n])
        /\ Len(queue[n]) \in Nat
        /\ queue'[n][Len(queue[n]) + 1] = r
        /\ \A i \in DOMAIN queue[n] : queue'[n][i] = queue[n][i]
    BY <1>1, <1>5
  <1>7. ASSUME NEW m \in Method, NEW i \in DOMAIN queue'[m]
        PROVE  /\ MethodOf[queue'[m][i]] = m
               /\ holder'[queue'[m][i]] = NoServer
               /\ call'[queue'[m][i]] \notin {"idle", "checked"}
    <2>1. CASE m = n /\ i = Len(queue[n]) + 1
      BY <2>1, <1>2, <1>6
    <2>2. CASE ~(m = n /\ i = Len(queue[n]) + 1)
      <3>1. i \in DOMAIN queue[m] /\ queue'[m][i] = queue[m][i]
        BY <2>2, <1>4, <1>6
      <3>2. queue[m][i] \in Request
        BY <3>1 DEF TypeOK
      <3> QED
        BY <3>1, <3>2, CallForward DEF QueueInv
    <2> QED
      BY <2>1, <2>2
  <1>8. ASSUME NEW m \in Method, NEW i \in DOMAIN queue'[m], NEW j \in DOMAIN queue'[m],
               queue'[m][i] = queue'[m][j]
        PROVE  i = j
    <2>1. CASE m # n
      BY <2>1, <1>4, <1>8 DEF QueueInv
    <2>2. CASE m = n
      <3>1. CASE i \in DOMAIN queue[n] /\ j \in DOMAIN queue[n]
        BY <2>2, <3>1, <1>1, <1>6, <1>8 DEF QueueInv
      <3>2. CASE i \notin DOMAIN queue[n] \/ j \notin DOMAIN queue[n]
        BY <2>2, <3>2, <1>1, <1>3, <1>6, <1>8
      <3> QED
        BY <3>1, <3>2
    <2> QED
      BY <2>1, <2>2
  <1>9. \A q \in Request : call'[q] \in {"idle", "checked"} => holder'[q] = NoServer
    BY CallForward DEF QueueInv
  <1> QED
    BY <1>7, <1>8, <1>9 DEF QueueInv

LEMMA TailFacts ==
  ASSUME NEW S, NEW q \in Seq(S), q # <<>>
  PROVE  /\ Len(q) \in Nat \ {0}
         /\ DOMAIN q = 1..Len(q)
         /\ DOMAIN Tail(q) = 1..(Len(q) - 1)
         /\ Head(q) = q[1]
         /\ \A i \in DOMAIN Tail(q) :
              i + 1 \in DOMAIN q /\ Tail(q)[i] = q[i + 1] /\ i + 1 # 1
  <1>1. Len(q) \in Nat /\ Len(q) # 0
    OBVIOUS
  <1>2. Tail(q) \in Seq(S) /\ Len(Tail(q)) = Len(q) - 1
    BY <1>1
  <1>3. DOMAIN Tail(q) = 1..(Len(q) - 1) /\ DOMAIN q = 1..Len(q) /\ Head(q) = q[1]
    BY <1>1, <1>2
  <1>4. ASSUME NEW i \in DOMAIN Tail(q)
        PROVE  i + 1 \in DOMAIN q /\ Tail(q)[i] = q[i + 1] /\ i + 1 # 1
    BY <1>1, <1>2, <1>3
  <1> QED
    BY <1>1, <1>3, <1>4

LEMMA QueueNext == TypeOK /\ QueueInv /\ [Next]_vars => QueueInv'
  <1> SUFFICES ASSUME TypeOK, QueueInv, [Next]_vars PROVE QueueInv'
    OBVIOUS
  <1>1. CASE UNCHANGED <<queue, holder>>
    <2>1. \A m \in Method : \A i \in DOMAIN queue[m] : queue[m][i] \in Request
      BY DEF TypeOK
    <2> QED
      BY <1>1, <2>1, CallForward DEF QueueInv
  <1>2. ASSUME NEW s \in Server, Acquire(s) \/ AcquireReplyLost(s)
        PROVE  QueueInv'
    <2>1. PICK m \in Method :
            /\ queue[m] # <<>>
            /\ Head(queue[m]) \in Request
            /\ MethodOf[Head(queue[m])] = m
            /\ call[Head(queue[m])] \notin {"idle", "checked"}
            /\ queue' = [queue EXCEPT ![m] = Tail(@)]
            /\ holder' = [holder EXCEPT ![Head(queue[m])] = s]
            /\ UNCHANGED call
      BY <1>2, TakeFacts
    <2>2. /\ queue[m] \in Seq(Request)
          /\ queue'[m] = Tail(queue[m])
          /\ \A n \in Method : n # m => queue'[n] = queue[n]
      BY <2>1 DEF TypeOK
    <2>3. /\ DOMAIN queue[m] = 1..Len(queue[m])
          /\ DOMAIN queue'[m] = 1..(Len(queue[m]) - 1)
          /\ Len(queue[m]) \in Nat \ {0}
          /\ \A i \in DOMAIN queue'[m] :
               /\ i \in Int
               /\ i + 1 \in DOMAIN queue[m]
               /\ queue'[m][i] = queue[m][i + 1]
               /\ i + 1 # 1
          /\ Head(queue[m]) = queue[m][1]
          /\ 1 \in DOMAIN queue[m]
      <3>1. /\ Len(queue[m]) \in Nat \ {0}
            /\ DOMAIN queue[m] = 1..Len(queue[m])
            /\ DOMAIN Tail(queue[m]) = 1..(Len(queue[m]) - 1)
            /\ Head(queue[m]) = queue[m][1]
            /\ \A i \in DOMAIN Tail(queue[m]) :
                 /\ i + 1 \in DOMAIN queue[m]
                 /\ Tail(queue[m])[i] = queue[m][i + 1]
                 /\ i + 1 # 1
        BY <2>1, <2>2, TailFacts
      <3> QED
        BY <2>2, <3>1
    <2>4. ASSUME NEW n \in Method, NEW i \in DOMAIN queue'[n]
          PROVE  \E k \in DOMAIN queue[n] :
                   queue'[n][i] = queue[n][k] /\ queue[n][k] # Head(queue[m])
      <3>1. CASE n = m
        BY <3>1, <2>3 DEF QueueInv
      <3>2. CASE n # m
        BY <3>2, <2>1, <2>2 DEF QueueInv
      <3> QED
        BY <3>1, <3>2
    <2>5. ASSUME NEW n \in Method, NEW i \in DOMAIN queue'[n]
          PROVE  /\ MethodOf[queue'[n][i]] = n
                 /\ holder'[queue'[n][i]] = NoServer
                 /\ call'[queue'[n][i]] \notin {"idle", "checked"}
      <3>1. PICK k \in DOMAIN queue[n] :
              queue'[n][i] = queue[n][k] /\ queue[n][k] # Head(queue[m])
        BY <2>4
      <3>2. queue[n][k] \in Request
        BY DEF TypeOK
      <3> QED
        <4>1. /\ MethodOf[queue[n][k]] = n
              /\ holder[queue[n][k]] = NoServer
              /\ call[queue[n][k]] \notin {"idle", "checked"}
          BY <3>1 DEF QueueInv
        <4>2. holder'[queue[n][k]] = holder[queue[n][k]]
          BY <2>1, <3>1, <3>2 DEF TypeOK
        <4> QED
          BY <2>1, <3>1, <4>1, <4>2
    <2>6. ASSUME NEW n \in Method, NEW i \in DOMAIN queue'[n], NEW j \in DOMAIN queue'[n],
                 queue'[n][i] = queue'[n][j]
          PROVE  i = j
      <3>1. CASE n = m
        <4>1. /\ i \in Int /\ j \in Int
              /\ i + 1 \in DOMAIN queue[m] /\ j + 1 \in DOMAIN queue[m]
              /\ queue[m][i + 1] = queue[m][j + 1]
          BY <2>3, <2>6, <3>1
        <4>2. i + 1 = j + 1
          BY <4>1 DEF QueueInv
        <4> QED
          BY <4>1, <4>2
      <3>2. CASE n # m
        BY <3>2, <2>2, <2>6 DEF QueueInv
      <3> QED
        BY <3>1, <3>2
    <2>7. \A r \in Request : call'[r] \in {"idle", "checked"} => holder'[r] = NoServer
      BY <2>1 DEF QueueInv, TypeOK
    <2> QED
      BY <2>5, <2>6, <2>7 DEF QueueInv
  <1>3. ASSUME NEW r \in Request, Publish(r)
        PROVE  QueueInv'
    <2>1. /\ call[r] = "checked" /\ queue' = Pushed(r) /\ UNCHANGED holder
          /\ call'[r] \notin {"idle", "checked"}
      BY <1>3 DEF Publish, CallStep, server, TypeOK
    <2> QED
      BY <2>1, PushKeepsQueues
  <1>4. ASSUME NEW r \in Request, CallFails(r), queue' # queue
        PROVE  QueueInv'
    <2>1. /\ call[r] = "checked" /\ queue' = Pushed(r) /\ UNCHANGED holder
          /\ call'[r] \notin {"idle", "checked"}
      BY <1>4 DEF CallFails, CallStep, server, TypeOK
    <2> QED
      BY <2>1, PushKeepsQueues
  <1> QED
    BY <1>1, <1>2, <1>3, <1>4, QueueWriters, HolderWriters
    DEF CallFails, server

-----------------------------------------------------------------------------
(* Owners, as the in-flight hash and the reapers' snapshots name them.     *)

LEMMA OwnerNext ==
  TypeOK /\ QueueInv /\ OwnerInv /\ [Next]_vars => OwnerInv'
  <1> SUFFICES ASSUME TypeOK, QueueInv, OwnerInv, [Next]_vars PROVE OwnerInv'
    OBVIOUS
  <1>1. ASSUME \A r \in Request : inflight'[r] \in {inflight[r], NoServer}
        PROVE  OwnerInv'
    BY <1>1, Kept, HolderKept DEF OwnerInv, TypeOK, Serving
  <1>2. ASSUME NEW s \in Server, Acquire(s) \/ AcquireReplyLost(s)
        PROVE  OwnerInv'
    <2>1. PICK m \in Method :
            /\ Head(queue[m]) \in Request
            /\ inflight' = [inflight EXCEPT ![Head(queue[m])] = s]
            /\ holder' = [holder EXCEPT ![Head(queue[m])] = s]
            /\ Serving(s)
      BY <1>2, TakeFacts
    <2>2. ASSUME NEW r \in Request, inflight'[r] # NoServer
          PROVE  inflight'[r] = holder'[r] /\ Serving(holder[r])'
      <3>1. CASE r = Head(queue[m])
        BY <2>1, <3>1, Kept DEF TypeOK, Serving
      <3>2. CASE r # Head(queue[m])
        BY <2>1, <2>2, <3>2, Kept DEF OwnerInv, TypeOK, Serving
      <3> QED
        BY <3>1, <3>2
    <2> QED
      BY <2>2 DEF OwnerInv
  <1>3. ASSUME NEW p \in Process, NEW r \in Request, Claim(p, r) \/ ClaimFails(p, r)
        PROVE  OwnerInv'
    BY <1>1, <1>3 DEF Claim, ClaimFails, TypeOK
  <1>4. ASSUME NEW r \in Request, Release(r)
        PROVE  OwnerInv'
    BY <1>1, <1>4 DEF Release, TypeOK
  <1>5. CASE UNCHANGED inflight
    BY <1>1, <1>5
  <1> QED
    BY <1>2, <1>3, <1>4, <1>5, InflightWriters

\* The live set is read after the owners: an owner that serves and is not in
\* it has been absent.
LEMMA OrphansAreAbsent ==
  ASSUME TypeOK, LiveInv, SnapshotInv, NEW p \in Process, NEW members, NEW r \in Request,
         alive \subseteq members, Orphans(p, members)[r] # NoServer
  PROVE  /\ Orphans(p, members)[r] = holder[r]
         /\ Serving(holder[r])
         /\ holder[r] \in absent
         /\ holder[r] \in Server \ members
  <1>1. owners[p][r] # NoServer /\ owners[p][r] \notin members
    BY DEF Orphans
  <1>2. owners[p][r] \in Server
    BY <1>1 DEF TypeOK
  <1> QED
    BY <1>1, <1>2 DEF Orphans, LiveInv, SnapshotInv

LEMMA SnapshotNext ==
  /\ TypeOK /\ QueueInv /\ LiveInv /\ OwnerInv /\ SnapshotInv /\ [Next]_vars
  => SnapshotInv'
  <1> SUFFICES ASSUME TypeOK, QueueInv, LiveInv, OwnerInv, SnapshotInv, [Next]_vars
               PROVE  SnapshotInv'
    OBVIOUS
  <1> DEFINE Sound(p, r) ==
        owners'[p][r] # NoServer =>
          /\ owners'[p][r] = holder[r]
          /\ Serving(holder[r])
          /\ reapStep'[p] \in {"reap", "push", "expire"} =>
               holder[r] \in absent /\ holder[r] # p
  <1>1. SUFFICES \A p \in Process, r \in Request : Sound(p, r)
    <2>1. \A r \in Request : holder[r] # NoServer => holder'[r] = holder[r]
      BY HolderKept
    <2>2. \A p \in Process, r \in Request : owners'[p][r] # NoServer =>
            holder[r] \in Server /\ holder'[r] = holder[r]
      BY <1>1, <2>1 DEF TypeOK
    <2> QED
      BY <1>1, <2>2, Kept DEF SnapshotInv, Serving
  <1> SUFFICES ASSUME NEW p \in Process, NEW r \in Request PROVE Sound(p, r)
    BY <1>1
  <1>2. CASE /\ owners'[p][r] \in {owners[p][r], NoServer}
             /\ reapStep'[p] \in {"reap", "push", "expire"} =>
                  reapStep[p] \in {"reap", "push", "expire"}
    BY <1>2 DEF SnapshotInv
  <1>3. CASE owners'[p] = inflight /\ reapStep'[p] = "read"
    BY <1>3 DEF OwnerInv
  <1>4. CASE \E members :
               /\ alive \subseteq members
               /\ p \in members \/ p \in Client
               /\ owners'[p] = Orphans(p, members)
    BY <1>4, OrphansAreAbsent, ProcessAssumption
  <1>5. ASSUME NEW s \in Server,
               ReadOwners(s) \/ Heartbeat(s) \/ HeartbeatFails(s) \/ TickEnds(s)
        PROVE  Sound(p, r)
    <2>1. CASE p # s
      BY <1>2, <1>5, <2>1
      DEF ReadOwners, Heartbeat, HeartbeatFails, TickEnds, TypeOK, Process
    <2>2. CASE p = s /\ ReadOwners(s)
      BY <1>3, <2>2 DEF ReadOwners, TypeOK
    <2>3. CASE p = s /\ Heartbeat(s)
      BY <1>4, <2>3 DEF Heartbeat, TypeOK
    <2>4. CASE p = s /\ HeartbeatFails(s)
      BY <1>2, <2>4 DEF HeartbeatFails, TypeOK, Nobody
    <2>5. CASE p = s /\ TickEnds(s)
      BY <1>2, <2>5 DEF TickEnds, TypeOK
    <2> QED
      BY <1>5, <2>1, <2>2, <2>3, <2>4, <2>5
  <1>6. ASSUME NEW q \in Process, FailBackPush(q) \/ FailBackExpire(q) \/ FailBackFails(q)
        PROVE  Sound(p, r)
    BY <1>2, <1>6 DEF FailBackPush, FailBackExpire, FailBackFails, TypeOK
  <1>7. ASSUME NEW q \in Process, NEW t \in Request, Claim(q, t) \/ ClaimFails(q, t)
        PROVE  Sound(p, r)
    <2>1. owners'[p][r] \in {owners[p][r], NoServer}
      <3>1. owners' = [owners EXCEPT ![q] = [@ EXCEPT ![t] = NoServer]]
        BY <1>7 DEF Claim, ClaimFails
      <3>2. CASE p = q
        BY <3>1, <3>2 DEF TypeOK
      <3>3. CASE p # q
        BY <3>1, <3>3 DEF TypeOK
      <3> QED
        BY <3>2, <3>3
    <2>2. reapStep'[p] = reapStep[p] \/ reapStep[p] = "reap"
      BY <1>7 DEF Claim, ClaimFails, TypeOK
    <2> QED
      BY <1>2, <2>1, <2>2
  <1>8. ASSUME NEW t \in Request, WaiterReads(t) \/ WaiterReturns(t)
        PROVE  Sound(p, r)
    <2>1. CASE p # ClientOf[t]
      BY <1>2, <1>8, <2>1 DEF WaiterReads, WaiterReturns, TypeOK
    <2>2. CASE p = ClientOf[t] /\ WaiterReads(t)
      BY <1>3, <2>2 DEF WaiterReads, TypeOK
    <2>3. CASE p = ClientOf[t] /\ WaiterReturns(t)
      BY <1>2, <2>3 DEF WaiterReturns, TypeOK
    <2> QED
      BY <1>8, <2>1, <2>2, <2>3
  <1>9. ASSUME NEW c \in Client, ReadAlive(c) \/ ReadAliveFails(c)
        PROVE  Sound(p, r)
    <2>1. CASE p # c
      BY <1>2, <1>9, <2>1 DEF ReadAlive, ReadAliveFails, TypeOK
    <2>2. CASE p = c /\ ReadAlive(c)
      BY <1>4, <2>2 DEF ReadAlive, TypeOK
    <2>3. CASE p = c /\ ReadAliveFails(c)
      BY <1>2, <2>3 DEF ReadAliveFails, TypeOK, Nobody
    <2> QED
      BY <1>9, <2>1, <2>2, <2>3
  <1>10. CASE UNCHANGED <<reapStep, owners, claim>>
    BY <1>2, <1>10
  <1> QED
    BY <1>5, <1>6, <1>7, <1>8, <1>9, <1>10, ReaperWriters

-----------------------------------------------------------------------------
(* Claims and errors.                                                      *)

\* An error comes from a reaper that has just pushed it for its claim.
LEMMA NewLost ==
  ASSUME TypeOK, [Next]_vars, NEW r \in Request, Has(r, "lost")'
  PROVE  \/ Has(r, "lost")
         \/ \E p \in Process : FailBackPush(p) /\ Claiming(p, r)
  <1>1. CASE UNCHANGED written
    BY <1>1 DEF Has
  <1>2. ASSUME NEW p \in Process, FailBackPush(p)
        PROVE  Has(r, "lost") \/ (FailBackPush(p) /\ Claiming(p, r))
    <2>1. CASE claim[p] = r
      BY <1>2, <2>1 DEF FailBackPush, Claiming
    <2>2. CASE claim[p] # r
      <3>1. written'[r] = written[r]
        BY <1>2, <2>2 DEF FailBackPush, Write, TypeOK
      <3> QED
        BY <3>1 DEF Has
    <2> QED
      BY <2>1, <2>2
  <1>3. ASSUME NEW q \in Request, PushAnswer(q)
        PROVE  Has(r, "lost")
    <2>1. CASE q # r
      <3>1. written'[r] = written[r]
        BY <1>3, <2>1 DEF PushAnswer, Write, TypeOK
      <3> QED
        BY <3>1 DEF Has
    <2>2. CASE q = r
      <3>1. written'[r] = Append(written[r], "answer") /\ written[r] \in Seq(Response)
        BY <1>3, <2>2 DEF PushAnswer, Write, TypeOK
      <3>2. \E i \in DOMAIN written[r] : written[r][i] = "lost"
        BY <3>1 DEF Has, Range
      <3> QED
        BY <3>2 DEF Has, Range
    <2> QED
      BY <2>1, <2>2
  <1> QED
    BY <1>1, <1>2, <1>3, WrittenWriters

\* What a claim says, once made, stays with the reaper until it pushes.
LEMMA NewClaim ==
  ASSUME TypeOK, [Next]_vars, NEW p \in Process, reapStep'[p] = "push"
  PROVE  \/ reapStep[p] = "push" /\ claim'[p] = claim[p] /\ ~FailBackPush(p)
         \/ \E r \in Request : /\ Claim(p, r) /\ claim'[p] = r
                               /\ inflight[r] # NoServer
                               /\ \A q \in Process : q # p => reapStep'[q] = reapStep[q]
  <1>1. CASE UNCHANGED <<reapStep, owners, claim>>
    BY <1>1 DEF FailBackPush, TypeOK
  <1>2. ASSUME NEW s \in Server,
               ReadOwners(s) \/ Heartbeat(s) \/ HeartbeatFails(s) \/ TickEnds(s)
        PROVE  reapStep[p] = "push" /\ claim'[p] = claim[p] /\ ~FailBackPush(p)
    BY <1>2 DEF ReadOwners, Heartbeat, HeartbeatFails, TickEnds, FailBackPush, TypeOK
  <1>3. ASSUME NEW q \in Process, FailBackPush(q) \/ FailBackExpire(q) \/ FailBackFails(q)
        PROVE  reapStep[p] = "push" /\ claim'[p] = claim[p] /\ ~FailBackPush(p)
    BY <1>3 DEF FailBackPush, FailBackExpire, FailBackFails, TypeOK
  <1>4. ASSUME NEW q \in Process, NEW r \in Request, ClaimFails(q, r)
        PROVE  reapStep[p] = "push" /\ claim'[p] = claim[p] /\ ~FailBackPush(p)
    BY <1>4 DEF ClaimFails, FailBackPush, TypeOK
  <1>5. ASSUME NEW q \in Process, NEW r \in Request, Claim(q, r)
        PROVE  \/ reapStep[p] = "push" /\ claim'[p] = claim[p] /\ ~FailBackPush(p)
               \/ /\ Claim(p, r) /\ claim'[p] = r
                  /\ inflight[r] # NoServer
                  /\ \A t \in Process : t # p => reapStep'[t] = reapStep[t]
    <2>1. CASE inflight[r] = NoServer
      BY <1>5, <2>1 DEF Claim, FailBackPush, TypeOK
    <2>2. CASE inflight[r] # NoServer
      <3>1. /\ reapStep' = [reapStep EXCEPT ![q] = "push"]
            /\ claim' = [claim EXCEPT ![q] = r]
            /\ reapStep[q] = "reap"
        BY <1>5, <2>2 DEF Claim
      <3>2. CASE p = q
        BY <1>5, <2>2, <3>1, <3>2 DEF TypeOK
      <3>3. CASE p # q
        BY <3>1, <3>3 DEF TypeOK, FailBackPush
      <3> QED
        BY <3>2, <3>3
    <2> QED
      BY <2>1, <2>2
  <1>6. ASSUME NEW r \in Request, WaiterReads(r) \/ WaiterReturns(r)
        PROVE  reapStep[p] = "push" /\ claim'[p] = claim[p] /\ ~FailBackPush(p)
    BY <1>6 DEF WaiterReads, WaiterReturns, FailBackPush, TypeOK
  <1>7. ASSUME NEW c \in Client, ReadAlive(c) \/ ReadAliveFails(c)
        PROVE  reapStep[p] = "push" /\ claim'[p] = claim[p] /\ ~FailBackPush(p)
    BY <1>7 DEF ReadAlive, ReadAliveFails, FailBackPush, TypeOK
  <1> QED
    BY <1>1, <1>2, <1>3, <1>4, <1>5, <1>6, <1>7, ReaperWriters

\* A process stops running by a kill, or, with no claim in its hands, by exit.
LEMMA ClaimantNext ==
  ASSUME TypeOK, [Next]_vars, NEW p \in Process, reapStep[p] = "push",
         Executing(p) \/ status[p] = "crashed"
  PROVE  Executing(p)' \/ status'[p] = "crashed"
  <1> USE DEF Executing
  <1>1. CASE UNCHANGED status
    BY <1>1
  <1>2. ASSUME NEW s \in Server, Start(s) \/ TickEnds(s) \/ Stop(s) \/ Shutdown(s) \/ Exit(s)
        PROVE  Executing(p)' \/ status'[p] = "crashed"
    <2>1. CASE s # p
      BY <1>2, <2>1 DEF Start, TickEnds, Stop, Shutdown, Exit, TypeOK, Process
    <2>2. CASE s = p
      BY <1>2, <2>2 DEF Start, TickEnds, Stop, Shutdown, Exit, TypeOK, Process
    <2> QED
      BY <2>1, <2>2
  <1>3. ASSUME NEW q \in Process, Crash(q)
        PROVE  Executing(p)' \/ status'[p] = "crashed"
    BY <1>3 DEF Crash, TypeOK
  <1> QED
    BY <1>1, <1>2, <1>3, StatusWriters

\* The in-flight entry of a request is written once, when it is taken.
LEMMA EntryStaysGone ==
  ASSUME TypeOK, QueueInv, [Next]_vars, NEW r \in Request,
         inflight[r] = NoServer, holder[r] # NoServer
  PROVE  inflight'[r] = NoServer
  <1>1. ASSUME NEW s \in Server, Acquire(s) \/ AcquireReplyLost(s)
        PROVE  inflight'[r] = NoServer
    <2>1. PICK m \in Method :
            /\ Head(queue[m]) \in Request
            /\ holder[Head(queue[m])] = NoServer
            /\ inflight' = [inflight EXCEPT ![Head(queue[m])] = s]
      BY <1>1, TakeFacts
    <2> QED
      BY <2>1 DEF TypeOK
  <1>2. ASSUME NEW p \in Process, NEW q \in Request, Claim(p, q) \/ ClaimFails(p, q)
        PROVE  inflight'[r] = NoServer
    BY <1>2 DEF Claim, ClaimFails, TypeOK
  <1>3. ASSUME NEW q \in Request, Release(q)
        PROVE  inflight'[r] = NoServer
    BY <1>3 DEF Release, TypeOK
  <1> QED
    BY <1>1, <1>2, <1>3, InflightWriters

LEMMA ClaimNext ==
  /\ TypeOK /\ QueueInv /\ SnapshotInv /\ ClaimInv /\ LostInv /\ [Next]_vars
  => ClaimInv'
  <1> SUFFICES ASSUME TypeOK, QueueInv, SnapshotInv, ClaimInv, LostInv, [Next]_vars
               PROVE  ClaimInv'
    OBVIOUS
  <1> DEFINE Old(p) == reapStep[p] = "push" /\ claim'[p] = claim[p] /\ ~FailBackPush(p)
             New(p) == \E r \in Request :
                         /\ Claim(p, r) /\ claim'[p] = r /\ inflight[r] # NoServer
                         /\ \A q \in Process : q # p => reapStep'[q] = reapStep[q]
  <1>1. \A p \in Process : reapStep'[p] = "push" => Old(p) \/ New(p)
    BY NewClaim
  <1>2. ASSUME NEW p \in Process, NEW r \in Request, claim[p] = r, Old(p)
        PROVE  /\ holder'[r] \in absent' \ {p}
               /\ inflight'[r] = NoServer
               /\ ~Has(r, "lost")'
               /\ Executing(p)' \/ status'[p] = "crashed"
    <2>1. /\ holder[r] \in absent \ {p}
          /\ inflight[r] = NoServer
          /\ ~Has(r, "lost")
          /\ Executing(p) \/ status[p] = "crashed"
      BY <1>2 DEF ClaimInv
    <2>2. holder[r] # NoServer
      BY <2>1, ProcessAssumption DEF TypeOK
    <2>3. holder'[r] = holder[r] /\ inflight'[r] = NoServer
      BY <2>1, <2>2, HolderKept, EntryStaysGone
    <2>4. ~Has(r, "lost")'
      <3>1. SUFFICES ASSUME Has(r, "lost")' PROVE FALSE
        OBVIOUS
      <3>2. PICK q \in Process : FailBackPush(q) /\ Claiming(q, r)
        BY <2>1, <3>1, NewLost
      <3>3. q = p
        BY <1>2, <3>2 DEF ClaimInv, Claiming
      <3> QED
        BY <1>2, <3>2, <3>3
    <2>5. Executing(p)' \/ status'[p] = "crashed"
      BY <1>2, <2>1, ClaimantNext
    <2> QED
      BY <2>1, <2>3, <2>4, <2>5, Kept
  <1>3. ASSUME NEW p \in Process, NEW r \in Request,
               Claim(p, r), claim'[p] = r, inflight[r] # NoServer
        PROVE  /\ holder'[r] \in absent' \ {p}
               /\ inflight'[r] = NoServer
               /\ ~Has(r, "lost")'
               /\ Executing(p)'
    <2>1. holder[r] \in absent \ {p}
      BY <1>3 DEF Claim, SnapshotInv
    <2>2. holder'[r] = holder[r] /\ inflight'[r] = NoServer /\ written' = written
      BY <1>3 DEF Claim, server, history, TypeOK
    <2>3. ~Has(r, "lost")
      BY <1>3 DEF LostInv
    <2>4. Executing(p)'
      BY <1>3 DEF Claim, Executing
    <2> QED
      BY <2>1, <2>2, <2>3, <2>4, Kept DEF Has
  <1>4. ASSUME NEW p \in Process, (reapStep[p] = "push")'
        PROVE  (/\ holder[claim[p]] \in absent \ {p}
                /\ inflight[claim[p]] = NoServer
                /\ ~Has(claim[p], "lost")
                /\ Executing(p) \/ status[p] = "crashed")'
    <2>1. CASE Old(p)
      BY <1>2, <1>4, <2>1 DEF Has, TypeOK
    <2>2. CASE New(p)
      BY <1>3, <1>4, <2>2 DEF Has
    <2> QED
      BY <1>1, <1>4, <2>1, <2>2
  <1>5. ASSUME NEW p \in Process, NEW q \in Process,
               reapStep'[p] = "push", reapStep'[q] = "push", claim'[p] = claim'[q]
        PROVE  p = q
    <2>1. \A t \in Process : Old(t) => inflight[claim'[t]] = NoServer
      BY DEF ClaimInv
    <2>2. \A t \in Process : New(t) => inflight[claim'[t]] # NoServer
      OBVIOUS
    <2>3. CASE Old(p) /\ Old(q)
      BY <1>5, <2>3 DEF ClaimInv
    <2>4. CASE New(p) /\ New(q)
      BY <1>5, <2>4 DEF Claim, TypeOK
    <2> HIDE DEF Old, New
    <2> QED
      BY <1>1, <1>5, <2>1, <2>2, <2>3, <2>4
  <1> QED
    BY <1>4, <1>5 DEF ClaimInv

LEMMA LostNext ==
  TypeOK /\ QueueInv /\ ClaimInv /\ LostInv /\ [Next]_vars => LostInv'
  <1> SUFFICES ASSUME TypeOK, QueueInv, ClaimInv, LostInv, [Next]_vars,
                      NEW r \in Request, Has(r, "lost")'
               PROVE  holder'[r] \in absent' /\ inflight'[r] = NoServer
    BY DEF LostInv
  <1>1. holder[r] \in absent /\ inflight[r] = NoServer
    BY NewLost DEF LostInv, ClaimInv, Claiming
  <1>2. holder[r] # NoServer
    BY <1>1, ProcessAssumption DEF TypeOK
  <1> QED
    BY <1>1, <1>2, Kept, HolderKept, EntryStaysGone

LEMMA AtMostOneLostNext ==
  TypeOK /\ ClaimInv /\ AtMostOneLost /\ [Next]_vars => AtMostOneLost'
  <1> SUFFICES ASSUME TypeOK, ClaimInv, AtMostOneLost, [Next]_vars, NEW r \in Request
               PROVE  \A i, j \in DOMAIN written'[r] :
                        written'[r][i] = "lost" /\ written'[r][j] = "lost" => i = j
    BY DEF AtMostOneLost
  <1>1. written[r] \in Seq(Response)
    BY DEF TypeOK
  <1>2. CASE written'[r] = written[r]
    BY <1>2 DEF AtMostOneLost
  <1>3. CASE written'[r] = Append(written[r], "answer")
    BY <1>1, <1>3 DEF AtMostOneLost
  <1>4. CASE written'[r] = Append(written[r], "lost") /\ ~Has(r, "lost")
    <2>1. \A i \in DOMAIN written[r] : written[r][i] # "lost"
      BY <1>4 DEF Has, Range
    <2> QED
      BY <1>1, <1>4, <2>1
  <1>5. ASSUME NEW p \in Process, FailBackPush(p)
        PROVE  \/ written'[r] = written[r]
               \/ written'[r] = Append(written[r], "lost") /\ ~Has(r, "lost")
    BY <1>5 DEF FailBackPush, Write, TypeOK, ClaimInv
  <1>6. ASSUME NEW q \in Request, PushAnswer(q)
        PROVE  written'[r] \in {written[r], Append(written[r], "answer")}
    BY <1>6 DEF PushAnswer, Write, TypeOK
  <1> QED
    BY <1>2, <1>3, <1>4, <1>5, <1>6, WrittenWriters

-----------------------------------------------------------------------------
(* Responses.                                                              *)

LEMMA WorkNext == TypeOK /\ QueueInv /\ WorkInv /\ [Next]_vars => WorkInv'
  <1> SUFFICES ASSUME TypeOK, QueueInv, WorkInv, [Next]_vars, NEW r \in Request
               PROVE  /\ work'[r] # "none" => holder'[r] # NoServer
                      /\ work'[r] \in {"expire", "release"} => written'[r] # <<>>
    BY DEF WorkInv
  <1>1. written[r] # <<>> => written'[r] # <<>>
    <2>1. written'[r] = written[r] \/ \E x \in Response : written'[r] = Append(written[r], x)
      BY WrittenWriters DEF FailBackPush, PushAnswer, Write, TypeOK, Response
    <2> QED
      BY <2>1 DEF TypeOK
  <1>2. CASE UNCHANGED work
    BY <1>1, <1>2, HolderKept DEF WorkInv
  <1>3. ASSUME NEW s \in Server, Acquire(s) \/ AcquireReplyLost(s)
        PROVE  /\ work'[r] # "none" => holder'[r] # NoServer
               /\ work'[r] \in {"expire", "release"} => written'[r] # <<>>
    <2>1. PICK m \in Method, w \in {"taken", "done"} :
            /\ Head(queue[m]) \in Request
            /\ holder' = [holder EXCEPT ![Head(queue[m])] = s]
            /\ work' = [work EXCEPT ![Head(queue[m])] = w]
      BY <1>3, TakeFacts
    <2> QED
      BY <2>1, <1>1, HolderKept, ProcessAssumption DEF WorkInv, TypeOK
  <1>4. ASSUME NEW s \in Server, NEW q \in Request, Dispatch(s, q)
        PROVE  /\ work'[r] # "none" => holder'[r] # NoServer
               /\ work'[r] \in {"expire", "release"} => written'[r] # <<>>
    BY <1>1, <1>4, HolderKept, ProcessAssumption DEF Dispatch, WorkInv, TypeOK
  <1>5. ASSUME NEW q \in Request,
               \/ Begin(q) \/ Finish(q) \/ PushAnswer(q) \/ ExpireAnswer(q)
               \/ Release(q) \/ RespondFails(q)
        PROVE  /\ work'[r] # "none" => holder'[r] # NoServer
               /\ work'[r] \in {"expire", "release"} => written'[r] # <<>>
    <2>1. CASE q # r
      <3>1. work'[r] = work[r]
        BY <1>5, <2>1
        DEF Begin, Finish, PushAnswer, ExpireAnswer, Release, RespondFails,
            WorkGoesTo, TypeOK
      <3> QED
        BY <3>1, <1>1, HolderKept DEF WorkInv
    <2>2. CASE q = r
      <3>1. holder'[r] # NoServer
        BY <1>5, <2>2, HolderKept, ProcessAssumption
        DEF Begin, Finish, PushAnswer, ExpireAnswer, Release, RespondFails, AtWork
      <3>2. CASE PushAnswer(r)
        BY <3>1, <3>2 DEF PushAnswer, Write, TypeOK
      <3>3. CASE ~PushAnswer(r)
        <4>1. \/ work'[r] \notin {"expire", "release"}
              \/ work[r] = "expire"
          BY <1>5, <2>2, <3>3
          DEF Begin, Finish, ExpireAnswer, Release, RespondFails, WorkGoesTo,
              AtWork, TypeOK
        <4> QED
          BY <3>1, <4>1, <1>1 DEF WorkInv
      <3> QED
        BY <3>2, <3>3
    <2> QED
      BY <2>1, <2>2
  <1> QED
    BY <1>2, <1>3, <1>4, <1>5, WorkWriters

LEMMA ResponseNext == TypeOK /\ ResponseInv /\ [Next]_vars => ResponseInv'
  <1> SUFFICES ASSUME TypeOK, ResponseInv, [Next]_vars, NEW r \in Request
               PROVE  /\ /\ call'[r] \in {"idle", "checked", "waiting", "quiet", "reaping"}
                         /\ status'[ClientOf[r]] # "crashed"
                         => responses'[r] = written'[r]
                      /\ outcome'[r] \in Response =>
                           written'[r] # <<>> /\ outcome'[r] = written'[r][1]
    BY DEF ResponseInv
  <1> DEFINE Open == /\ call[r] \in {"idle", "checked", "waiting", "quiet", "reaping"}
                     /\ status[ClientOf[r]] # "crashed"
  <1> ClientOf[r] \in Process /\ written[r] \in Seq(Response)
    BY DeploymentAssumption DEF Process, TypeOK
  <1>1. written[r] # <<>> => written'[r] # <<>> /\ written'[r][1] = written[r][1]
    <2>1. written'[r] = written[r] \/ \E x \in Response : written'[r] = Append(written[r], x)
      BY WrittenWriters DEF FailBackPush, PushAnswer, Write, TypeOK, Response
    <2> QED
      BY <2>1
  <1>2. Open' => Open
    <2>1. call'[r] \in {"idle", "checked", "waiting", "quiet", "reaping"} =>
            call[r] \in {"idle", "checked", "waiting", "quiet", "reaping"}
      BY CallWriters
      DEF TypeOK, Check, Publish, Receive, TimeOut, Close, CallFails, SliceEnds,
          WaiterReads, WaiterSkips, WaiterReturns, CallStep
    <2>2. status'[ClientOf[r]] # "crashed" => status[ClientOf[r]] # "crashed"
      BY StatusWriters
      DEF TypeOK, Start, TickEnds, Stop, Shutdown, Exit, Crash, Executing
    <2> QED
      BY <2>1, <2>2
  <1>3. Open' => responses'[r] = written'[r]
    <2> SUFFICES ASSUME Open' PROVE responses'[r] = written'[r]
      OBVIOUS
    <2>1. responses[r] = written[r]
      BY <1>2 DEF ResponseInv
    <2>2. ASSUME NEW p \in Process, FailBackPush(p)
          PROVE  responses'[r] = written'[r]
      BY <2>1, <2>2 DEF FailBackPush, Write, TypeOK
    <2>3. ASSUME NEW q \in Request, PushAnswer(q)
          PROVE  responses'[r] = written'[r]
      BY <2>1, <2>3 DEF PushAnswer, Write, TypeOK
    <2>4. ASSUME NEW q \in Request,
                 Receive(q) \/ Close(q) \/ CallFails(q) \/ ResponseExpires(q)
          PROVE  responses'[r] = written'[r]
      <3>1. CASE q # r
        BY <2>1, <2>4, <3>1
        DEF Receive, Close, CallFails, ResponseExpires, Pop, Delete, history, TypeOK
      <3>2. CASE q = r
        <4>1. ~Receive(r) /\ ~Close(r) /\ ~ResponseExpires(r)
          BY DEF Receive, Close, ResponseExpires, CallStep, caller, TypeOK
        <4>2. UNCHANGED <<responses, written>>
          BY <2>4, <3>2, <4>1 DEF CallFails, CallStep, TypeOK
        <4> QED
          BY <2>1, <4>2
      <3> QED
        BY <3>1, <3>2
    <2>5. CASE UNCHANGED responses
      <3>1. ~(\E p \in Process : FailBackPush(p)) /\ ~(\E q \in Request : PushAnswer(q))
            => UNCHANGED written
        BY WrittenWriters
      <3> QED
        BY <2>1, <2>2, <2>3, <2>5, <3>1
    <2> QED
      BY <2>2, <2>3, <2>4, <2>5, ResponseWriters
  <1>4. outcome'[r] \in Response => written'[r] # <<>> /\ outcome'[r] = written'[r][1]
    <2>1. CASE outcome'[r] = outcome[r]
      BY <2>1, <1>1 DEF ResponseInv
    <2>2. CASE Receive(r)
      <3>1. responses[r] = written[r]
        BY <2>2 DEF Receive, CallStep, ResponseInv
      <3>2. /\ outcome'[r] = Head(written[r]) /\ written[r] # <<>>
            /\ UNCHANGED written
        BY <2>2, <3>1 DEF Receive, Pop, history, TypeOK
      <3> QED
        BY <3>2
    <2>3. CASE outcome'[r] \notin Response
      BY <2>3
    <2>4. ASSUME NEW q \in Request,
                 \/ Check(q) \/ Publish(q) \/ TimeOut(q) \/ Close(q) \/ CallFails(q)
                 \/ SliceEnds(q) \/ WaiterReads(q) \/ WaiterSkips(q) \/ WaiterReturns(q)
                 \/ (Receive(q) /\ q # r)
          PROVE  outcome'[r] = outcome[r] \/ outcome'[r] \notin Response
      BY <2>4
      DEF Check, Publish, TimeOut, Close, CallFails, SliceEnds, WaiterReads, WaiterSkips,
          WaiterReturns, Receive, TypeOK, Response
    <2> QED
      BY <2>1, <2>2, <2>3, <2>4, CallWriters
  <1> QED
    BY <1>3, <1>4

-----------------------------------------------------------------------------
(* No request vanishes.                                                    *)

LEMMA SlipsStay == ASSUME [Next]_vars PROVE slips \subseteq slips'
  BY SlipWriters
  DEF AcquireReplyLost, Dispatch, FailBackFails, ClaimFails, RespondFails

LEMMA WrittenStays ==
  ASSUME TypeOK, [Next]_vars, NEW r \in Request, written[r] # <<>>
  PROVE  written'[r] # <<>>
  <1>1. written'[r] = written[r] \/ \E x \in Response : written'[r] = Append(written[r], x)
    BY WrittenWriters DEF FailBackPush, PushAnswer, Write, TypeOK, Response
  <1> QED
    BY <1>1 DEF TypeOK

\* A request leaves its queue for the in-flight hash.
LEMMA QueuedNext ==
  ASSUME TypeOK, QueueInv, [Next]_vars, NEW r \in Request, Queued(r)
  PROVE  Queued(r)' \/ inflight'[r] # NoServer
  <1> DEFINE n == MethodOf[r]
  <1>1. n \in Method /\ queue[n] \in Seq(Request)
    BY DeploymentAssumption DEF TypeOK
  <1>2. PICK i \in DOMAIN queue[n] : queue[n][i] = r
    BY DEF Queued, Range
  <1>3. CASE queue'[n] = queue[n]
    BY <1>3 DEF Queued
  <1>4. ASSUME NEW q \in Request, queue'[n] = Append(queue[n], q)
        PROVE  Queued(r)'
    <2>1. i \in DOMAIN queue'[n] /\ queue'[n][i] = r
      BY <1>1, <1>2, <1>4
    <2> QED
      BY <2>1 DEF Queued, Range
  <1>5. ASSUME NEW s \in Server, Acquire(s) \/ AcquireReplyLost(s)
        PROVE  Queued(r)' \/ inflight'[r] # NoServer
    <2>1. PICK m \in Method :
            /\ queue[m] # <<>>
            /\ Head(queue[m]) \in Request
            /\ queue' = [queue EXCEPT ![m] = Tail(@)]
            /\ inflight' = [inflight EXCEPT ![Head(queue[m])] = s]
      BY <1>5, TakeFacts
    <2>2. CASE m # n
      BY <1>3, <2>1, <2>2 DEF TypeOK
    <2>3. CASE m = n /\ Head(queue[m]) = r
      BY <2>1, <2>3, ProcessAssumption DEF TypeOK
    <2>4. CASE m = n /\ Head(queue[m]) # r
      <3>1. queue'[n] = Tail(queue[n])
        BY <2>1, <2>4 DEF TypeOK
      <3>2. /\ i \in 2..Len(queue[n])
            /\ Len(queue[n]) \in Nat
            /\ DOMAIN Tail(queue[n]) = 1..(Len(queue[n]) - 1)
        <4>1. /\ Len(queue[n]) \in Nat \ {0}
              /\ DOMAIN queue[n] = 1..Len(queue[n])
              /\ DOMAIN Tail(queue[n]) = 1..(Len(queue[n]) - 1)
              /\ Head(queue[n]) = queue[n][1]
          BY <1>1, <2>1, <2>4, TailFacts
        <4> QED
          BY <1>2, <2>4, <4>1
      <3>3. i - 1 \in DOMAIN Tail(queue[n]) /\ (i - 1) + 1 = i
        BY <3>2
      <3>4. Tail(queue[n])[i - 1] = queue[n][i]
        BY <1>1, <2>1, <2>4, <3>3, TailFacts
      <3> QED
        BY <1>2, <3>1, <3>3, <3>4 DEF Queued, Range
    <2> QED
      BY <2>2, <2>3, <2>4
  <1>6. ASSUME NEW q \in Request, Publish(q) \/ CallFails(q)
        PROVE  queue'[n] = queue[n] \/ queue'[n] = Append(queue[n], q)
    BY <1>1, <1>6 DEF Publish, CallFails, Pushed, TypeOK
  <1> QED
    BY <1>3, <1>4, <1>5, <1>6, QueueWriters

\* A request leaves the in-flight hash claimed, answered or with a slip.
LEMMA InflightNext ==
  ASSUME TypeOK, QueueInv, WorkInv, [Next]_vars, NEW r \in Request,
         inflight[r] # NoServer
  PROVE  \/ inflight'[r] # NoServer
         \/ written'[r] # <<>>
         \/ \E p \in Process : Claiming(p, r)'
         \/ Slipped(r, {"claim", "failback"})'
  <1>1. CASE UNCHANGED inflight
    BY <1>1
  <1>2. ASSUME NEW s \in Server, Acquire(s) \/ AcquireReplyLost(s)
        PROVE  inflight'[r] # NoServer
    <2>1. PICK m \in Method :
            /\ Head(queue[m]) \in Request
            /\ inflight' = [inflight EXCEPT ![Head(queue[m])] = s]
      BY <1>2, TakeFacts
    <2> QED
      BY <2>1, ProcessAssumption DEF TypeOK
  <1>3. ASSUME NEW p \in Process, NEW q \in Request, Claim(p, q)
        PROVE  inflight'[r] # NoServer \/ Claiming(p, r)'
    <2>1. CASE q # r
      BY <1>3, <2>1 DEF Claim, TypeOK
    <2>2. CASE q = r
      BY <1>3, <2>2 DEF Claim, Claiming, TypeOK
    <2> QED
      BY <2>1, <2>2
  <1>4. ASSUME NEW p \in Process, NEW q \in Request, ClaimFails(p, q)
        PROVE  inflight'[r] # NoServer \/ Slipped(r, {"claim", "failback"})'
    <2>1. CASE inflight' = inflight
      BY <2>1
    <2>2. CASE /\ inflight' = [inflight EXCEPT ![q] = NoServer]
               /\ slips' = slips \cup {<<"claim", q>>}
      BY <2>2 DEF Slipped, TypeOK
    <2> QED
      BY <1>4, <2>1, <2>2 DEF ClaimFails
  <1>5. ASSUME NEW q \in Request, Release(q)
        PROVE  inflight'[r] # NoServer \/ written'[r] # <<>>
    <2>1. CASE q # r
      BY <1>5, <2>1 DEF Release, TypeOK
    <2>2. CASE q = r
      BY <1>5, <2>2, WrittenStays DEF Release, AtWork, WorkInv
    <2> QED
      BY <2>1, <2>2
  <1> QED
    BY <1>1, <1>2, <1>3, <1>4, <1>5, InflightWriters

\* A claim ends in an error pushed or a slip.
LEMMA ClaimingNext ==
  ASSUME TypeOK, [Next]_vars, NEW r \in Request, NEW p \in Process, Claiming(p, r)
  PROVE  \/ Claiming(p, r)'
         \/ written'[r] # <<>>
         \/ Slipped(r, {"claim", "failback"})'
  <1> USE DEF Claiming
  <1>1. CASE UNCHANGED <<reapStep, owners, claim>>
    BY <1>1
  <1>2. ASSUME NEW s \in Server,
               ReadOwners(s) \/ Heartbeat(s) \/ HeartbeatFails(s) \/ TickEnds(s)
        PROVE  Claiming(p, r)'
    BY <1>2 DEF ReadOwners, Heartbeat, HeartbeatFails, TickEnds, TypeOK
  <1>3. ASSUME NEW q \in Process, FailBackPush(q)
        PROVE  Claiming(p, r)' \/ written'[r] # <<>>
    <2>1. CASE q = p
      BY <1>3, <2>1 DEF FailBackPush, Write, TypeOK
    <2>2. CASE q # p
      BY <1>3, <2>2 DEF FailBackPush, TypeOK
    <2> QED
      BY <2>1, <2>2
  <1>4. ASSUME NEW q \in Process, FailBackExpire(q)
        PROVE  Claiming(p, r)'
    BY <1>4 DEF FailBackExpire, TypeOK
  <1>5. ASSUME NEW q \in Process, FailBackFails(q)
        PROVE  Claiming(p, r)' \/ Slipped(r, {"claim", "failback"})'
    <2>1. CASE q = p
      BY <1>5, <2>1 DEF FailBackFails, Slipped, TypeOK
    <2>2. CASE q # p
      BY <1>5, <2>2 DEF FailBackFails, TypeOK
    <2> QED
      BY <2>1, <2>2
  <1>6. ASSUME NEW q \in Process, NEW t \in Request, Claim(q, t) \/ ClaimFails(q, t)
        PROVE  Claiming(p, r)'
    <2>1. q # p
      BY <1>6 DEF Claim, ClaimFails
    <2> QED
      BY <1>6, <2>1 DEF Claim, ClaimFails, TypeOK
  <1>7. ASSUME NEW t \in Request, WaiterReads(t) \/ WaiterReturns(t)
        PROVE  Claiming(p, r)'
    BY <1>7 DEF WaiterReads, WaiterReturns, TypeOK
  <1>8. ASSUME NEW c \in Client, ReadAlive(c) \/ ReadAliveFails(c)
        PROVE  Claiming(p, r)'
    BY <1>8 DEF ReadAlive, ReadAliveFails, TypeOK
  <1> QED
    BY <1>1, <1>2, <1>3, <1>4, <1>5, <1>6, <1>7, <1>8, ReaperWriters

\* Whoever claims a request runs or was killed, and is not its own server.
LEMMA ClaimantIsKnown ==
  ASSUME ClaimInv', NEW r \in Request, \E p \in Process : Claiming(p, r)'
  PROVE  (\E p \in Process : Executing(p)' /\ Claiming(p, r)') \/ ClaimDied(r)'
  <1>1. PICK p \in Process : Claiming(p, r)'
    OBVIOUS
  <1>2. holder'[r] # p /\ (Executing(p)' \/ status'[p] = "crashed")
    BY <1>1 DEF ClaimInv, Claiming
  <1> QED
    BY <1>1, <1>2 DEF ClaimDied

LEMMA NoneVanishesNext ==
  TypeOK /\ QueueInv /\ WorkInv /\ ClaimInv' /\ NoneVanishes /\ [Next]_vars
  => NoneVanishes'
  <1> SUFFICES ASSUME TypeOK, QueueInv, WorkInv, ClaimInv', NoneVanishes, [Next]_vars,
                      NEW r \in Request, Awaited(r)'
               PROVE  \/ Queued(r)'
                      \/ inflight'[r] # NoServer
                      \/ written'[r] # <<>>
                      \/ \E p \in Process : Claiming(p, r)'
                      \/ Slipped(r, {"claim", "failback"})'
    BY ClaimantIsKnown DEF NoneVanishes
  <1>1. Awaited(r) \/ Publish(r)
    BY CallWriters
    DEF Awaited, TypeOK, Check, Receive, TimeOut, Close, CallFails, SliceEnds,
        WaiterReads, WaiterSkips, WaiterReturns, CallStep, Publish
  <1>2. CASE Publish(r)
    <2> DEFINE n == MethodOf[r]
    <2>1. n \in Method /\ queue[n] \in Seq(Request)
      BY DeploymentAssumption DEF TypeOK
    <2>2. queue'[n] = Append(queue[n], r)
      BY <1>2, <2>1 DEF Publish, Pushed, TypeOK
    <2>3. Len(queue[n]) + 1 \in DOMAIN queue'[n] /\ queue'[n][Len(queue[n]) + 1] = r
      BY <2>1, <2>2
    <2> QED
      BY <2>3 DEF Queued, Range
  <1>3. CASE Awaited(r)
    <2>1. CASE Queued(r)
      BY <2>1, QueuedNext
    <2>2. CASE inflight[r] # NoServer
      BY <2>2, InflightNext
    <2>3. CASE written[r] # <<>>
      BY <2>3, WrittenStays
    <2>4. CASE \E p \in Process : Claiming(p, r)
      BY <2>4, ClaimingNext
    <2>5. CASE Slipped(r, {"claim", "failback"})
      BY <2>5, SlipsStay DEF Slipped
    <2> QED
      BY <1>3, <2>1, <2>2, <2>3, <2>4, <2>5 DEF NoneVanishes, ClaimDied
  <1> QED
    BY <1>1, <1>2, <1>3

-----------------------------------------------------------------------------
(* The theorems.                                                           *)

LEMMA InvInit == Init => IInv
  <1> SUFFICES ASSUME Init PROVE IInv
    OBVIOUS
  <1>1. TypeOK
    BY TypeInit
  <1>2. QueueInv /\ LiveInv /\ OwnerInv /\ SnapshotInv
    BY DEF Init, QueueInv, LiveInv, OwnerInv, SnapshotInv, Nobody, Serving
  <1>3. ClaimInv /\ LostInv /\ AtMostOneLost
    BY DEF Init, ClaimInv, LostInv, AtMostOneLost, Has, Range
  <1>4. WorkInv /\ ResponseInv /\ NoneVanishes
    BY DEF Init, WorkInv, ResponseInv, NoneVanishes, Awaited, Response
  <1> QED
    BY <1>1, <1>2, <1>3, <1>4 DEF IInv

LEMMA InvNext == IInv /\ [Next]_vars => IInv'
  BY TypeNext, QueueNext, LiveNext, OwnerNext, SnapshotNext, ClaimNext, LostNext,
     AtMostOneLostNext, WorkNext, ResponseNext, NoneVanishesNext
  DEF IInv

\* The invariant holds for every deployment.
THEOREM Invariance == Spec => []IInv
  BY InvInit, InvNext, PTL DEF Spec

\* Every variable keeps its type.
THEOREM TypeCorrect == Spec => []TypeOK
  BY Invariance, PTL DEF IInv

\* A call is told its server was lost only if that server had been without a
\* live entry: the first heartbeat in start() and the order of a reaper's two
\* reads protect every server that keeps heartbeating.
THEOREM LostOnlyIfAbsentHolds == Spec => []LostOnlyIfAbsent
  <1>1. IInv => LostOnlyIfAbsent
    BY DEF IInv, LostInv, LostOnlyIfAbsent
  <1> QED
    BY <1>1, Invariance, PTL

\* Reapers race for the HDEL, and one error at most is written.
THEOREM AtMostOneLostHolds == Spec => []AtMostOneLost
  BY Invariance, PTL DEF IInv

\* The caller gets the first response written.
THEOREM FirstWriteWinsHolds == Spec => []FirstWriteWins
  <1>1. IInv => FirstWriteWins
    BY DEF IInv, ResponseInv, FirstWriteWins
  <1> QED
    BY <1>1, Invariance, PTL

\* The request of a waiting call is in Redis, responded to or in the hands of
\* a reaper that runs and will push the error; what else can become of it is
\* named: a claim lost with a failed Redis call, or with a killed reaper.
THEOREM NoneVanishesHolds == Spec => []NoneVanishes
  BY Invariance, PTL DEF IInv

\* One server takes a request, and it never goes back to a queue.
THEOREM TakenOnceHolds == Spec => TakenOnce
  <1>1. ASSUME IInv, IInv', [Next]_vars, NEW r \in Request, holder[r] # NoServer
        PROVE  holder'[r] = holder[r] /\ ~Queued(r)'
    <2>1. holder'[r] = holder[r]
      BY <1>1, HolderKept DEF IInv
    <2>2. ~Queued(r)'
      BY <1>1, <2>1, DeploymentAssumption DEF IInv, QueueInv, Queued, Range
    <2> QED
      BY <2>1, <2>2
  <1>2. IInv /\ IInv' /\ [Next]_vars =>
          [\A r \in Request :
             holder[r] # NoServer => holder'[r] = holder[r] /\ ~Queued(r)']_vars
    BY <1>1
  <1> QED
    BY <1>2, Invariance, PTL DEF Spec, TakenOnce
=============================================================================
