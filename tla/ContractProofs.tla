--------------------------- MODULE ContractProofs ---------------------------
(***************************************************************************)
(* Proof that AnyCall implements CallContract, for every deployment: each  *)
(* step of the protocol is a step of the contract or changes nothing of it. *)
(***************************************************************************)
EXTENDS AnyCallProofs

CInv == IInv /\ OutcomeInv /\ AskedInv

-----------------------------------------------------------------------------
(* The invariants that only the contract needs.                            *)

LEMMA OutcomeNext == TypeOK /\ OutcomeInv /\ [Next]_vars => OutcomeInv'
  <1> SUFFICES ASSUME TypeOK, OutcomeInv, [Next]_vars, NEW r \in Request
               PROVE  /\ (call[r] \in {"idle", "checked"} \/ Awaited(r)
                             => outcome[r] = "none")'
                      /\ (call[r] = "closing" => outcome[r] # "refused")'
    BY DEF OutcomeInv
  <1> USE DEF TypeOK, OutcomeInv, Awaited, CallStep
  <1>1. CASE UNCHANGED <<call, outcome>>
    BY <1>1
  <1>2. ASSUME NEW q \in Request, Check(q)
        PROVE  /\ (call[r] \in {"idle", "checked"} \/ Awaited(r)
                      => outcome[r] = "none")'
               /\ (call[r] = "closing" => outcome[r] # "refused")'
    <2>1. CASE q = r
      BY <1>2, <2>1 DEF Check
    <2>2. CASE q # r
      <3>1. call'[r] = call[r] /\ outcome'[r] = outcome[r]
        BY <1>2, <2>2 DEF Check
      <3> QED
        BY <3>1
    <2> QED
      BY <2>1, <2>2
  <1>3. ASSUME NEW q \in Request,
               \/ Publish(q) \/ SliceEnds(q) \/ WaiterReads(q) \/ WaiterSkips(q)
               \/ WaiterReturns(q)
        PROVE  /\ (call[r] \in {"idle", "checked"} \/ Awaited(r)
                      => outcome[r] = "none")'
               /\ (call[r] = "closing" => outcome[r] # "refused")'
    <2>1. /\ \E from \in {"checked", "waiting", "quiet", "reaping"},
                to \in {"waiting", "quiet", "reaping"} : CallStep(q, from, to)
          /\ UNCHANGED outcome
      BY <1>3 DEF Publish, SliceEnds, WaiterReads, WaiterSkips, WaiterReturns
    <2> QED
      BY <2>1
  <1>4. ASSUME NEW q \in Request, Receive(q)
        PROVE  /\ (call[r] \in {"idle", "checked"} \/ Awaited(r)
                      => outcome[r] = "none")'
               /\ (call[r] = "closing" => outcome[r] # "refused")'
    <2>1. Head(responses[q]) \in Response
      BY <1>4 DEF Receive, Pop
    <2> QED
      BY <1>4, <2>1 DEF Receive, Response
  <1>5. ASSUME NEW q \in Request, TimeOut(q) \/ Close(q)
        PROVE  /\ (call[r] \in {"idle", "checked"} \/ Awaited(r)
                      => outcome[r] = "none")'
               /\ (call[r] = "closing" => outcome[r] # "refused")'
    BY <1>5 DEF TimeOut, Close
  <1>6. ASSUME NEW q \in Request, CallFails(q)
        PROVE  /\ (call[r] \in {"idle", "checked"} \/ Awaited(r)
                      => outcome[r] = "none")'
               /\ (call[r] = "closing" => outcome[r] # "refused")'
    <2>1. /\ \E from \in Call, to \in {"closing", "closed"} : CallStep(q, from, to)
          /\ outcome' = [outcome EXCEPT ![q] = "error"]
      BY <1>6 DEF CallFails, Call
    <2> QED
      BY <2>1
  <1> QED
    BY <1>1, <1>2, <1>3, <1>4, <1>5, <1>6, CallWriters

\* A request stays where it was asked for: in its queue, or with its server.
LEMMA AskedStays ==
  ASSUME TypeOK, QueueInv, OwnerInv, OwnerInv', [Next]_vars, NEW r \in Request,
         Queued(r) \/ holder[r] # NoServer
  PROVE  Queued(r)' \/ holder'[r] # NoServer
  <1>1. CASE holder[r] # NoServer
    BY <1>1, HolderKept
  <1>2. CASE Queued(r)
    <2>1. Queued(r)' \/ inflight'[r] # NoServer
      BY <1>2, QueuedNext
    <2> QED
      BY <2>1 DEF OwnerInv
  <1> QED
    BY <1>1, <1>2

\* Taking pops one queue.
LEMMA TakePops ==
  ASSUME TypeOK, QueueInv, NEW s \in Server, Acquire(s) \/ AcquireReplyLost(s)
  PROVE  \E m \in Method :
           queue[m] # <<>> /\ queue' = [queue EXCEPT ![m] = Tail(@)]
  BY TakeFacts

\* What is in a queue after a step was in it before, or has just been pushed.
LEMMA QueuedComes ==
  ASSUME TypeOK, QueueInv, [Next]_vars, NEW r \in Request, Queued(r)'
  PROVE  Queued(r) \/ (queue' = Pushed(r) /\ (Publish(r) \/ CallFails(r)))
  <1> DEFINE n == MethodOf[r]
  <1>1. n \in Method /\ queue[n] \in Seq(Request)
    BY DeploymentAssumption DEF TypeOK
  <1>2. PICK i \in DOMAIN queue'[n] : queue'[n][i] = r
    BY DEF Queued, Range
  <1>3. ASSUME queue'[n] = queue[n]
        PROVE  Queued(r)
    BY <1>2, <1>3 DEF Queued, Range
  <1>4. ASSUME NEW s \in Server, Acquire(s) \/ AcquireReplyLost(s)
        PROVE  Queued(r)
    <2>1. PICK m \in Method :
            queue[m] # <<>> /\ queue' = [queue EXCEPT ![m] = Tail(@)]
      BY <1>4, TakePops
    <2>2. CASE m # n
      <3>1. queue'[n] = queue[n]
        BY <1>1, <2>1, <2>2 DEF TypeOK
      <3> QED
        BY <1>3, <3>1
    <2>3. CASE m = n
      <3>1. queue'[n] = Tail(queue[n]) /\ queue[n] # <<>>
        BY <2>1, <2>3 DEF TypeOK
      <3>2. i \in DOMAIN Tail(queue[n]) /\ Tail(queue[n])[i] = r
        BY <1>2, <3>1
      <3>3. \A j \in DOMAIN Tail(queue[n]) :
              j + 1 \in DOMAIN queue[n] /\ Tail(queue[n])[j] = queue[n][j + 1]
        BY <1>1, <3>1, TailFacts
      <3> QED
        BY <3>2, <3>3 DEF Queued, Range
    <2> QED
      BY <2>2, <2>3
  <1>5. ASSUME NEW q \in Request, Publish(q) \/ CallFails(q)
        PROVE  Queued(r) \/ (queue' = Pushed(r) /\ (Publish(r) \/ CallFails(r)))
    <2>1. queue' = queue \/ queue' = Pushed(q)
      BY <1>5 DEF Publish, CallFails
    <2>2. CASE queue' = queue
      BY <1>3, <2>2
    <2>3. CASE q = r
      BY <1>3, <1>5, <2>1, <2>3
    <2>4. CASE queue' = Pushed(q) /\ q # r
      <3>1. CASE MethodOf[q] # n
        BY <1>3, <2>4, <3>1 DEF Pushed, TypeOK
      <3>2. CASE MethodOf[q] = n
        <4>1. queue'[n] = Append(queue[n], q)
          BY <1>1, <2>4, <3>2 DEF Pushed, TypeOK
        <4>2. i \in DOMAIN queue[n] /\ queue[n][i] = r
          BY <1>1, <1>2, <2>4, <4>1
        <4> QED
          BY <4>2 DEF Queued, Range
      <3> QED
        BY <3>1, <3>2
    <2> QED
      BY <2>1, <2>2, <2>3, <2>4
  <1> QED
    BY <1>3, <1>4, <1>5, QueueWriters

\* Only the oldest request of a queue is ever taken.
LEMMA TakenWasQueued ==
  ASSUME TypeOK, QueueInv, NEW s \in Server, Acquire(s) \/ AcquireReplyLost(s)
  PROVE  \E r \in Request :
           /\ Queued(r)
           /\ holder[r] = NoServer
           /\ holder' = [holder EXCEPT ![r] = s]
  <1>1. PICK m \in Method :
          /\ queue[m] # <<>>
          /\ Head(queue[m]) \in Request
          /\ MethodOf[Head(queue[m])] = m
          /\ holder[Head(queue[m])] = NoServer
          /\ holder' = [holder EXCEPT ![Head(queue[m])] = s]
    BY TakeFacts
  <1>2. 1 \in DOMAIN queue[m] /\ Head(queue[m]) = queue[m][1]
    BY <1>1, TailFacts DEF TypeOK
  <1> QED
    BY <1>1, <1>2 DEF Queued, Range

\* A request becomes asked by its own push only.
LEMMA AskedComes ==
  ASSUME TypeOK, QueueInv, [Next]_vars, NEW r \in Request,
         Queued(r)' \/ holder'[r] # NoServer
  PROVE  \/ Queued(r) \/ holder[r] # NoServer
         \/ queue' = Pushed(r) /\ (Publish(r) \/ CallFails(r))
  <1>1. CASE UNCHANGED holder
    BY <1>1, QueuedComes
  <1>2. ASSUME NEW s \in Server, Acquire(s) \/ AcquireReplyLost(s)
        PROVE  holder'[r] # NoServer => Queued(r) \/ holder[r] # NoServer
    BY <1>2, TakenWasQueued DEF TypeOK
  <1> QED
    BY <1>1, <1>2, QueuedComes, HolderWriters

\* A push puts the request into its queue.
LEMMA PushQueues ==
  ASSUME TypeOK, NEW r \in Request, queue' = Pushed(r)
  PROVE  Queued(r)'
  <1> DEFINE n == MethodOf[r]
  <1>1. n \in Method /\ queue[n] \in Seq(Request)
    BY DeploymentAssumption DEF TypeOK
  <1>2. queue'[n] = Append(queue[n], r)
    BY <1>1 DEF Pushed, TypeOK
  <1>3. Len(queue[n]) + 1 \in DOMAIN queue'[n] /\ queue'[n][Len(queue[n]) + 1] = r
    BY <1>1, <1>2
  <1> QED
    BY <1>3 DEF Queued, Range

LEMMA AskedNext ==
  TypeOK /\ QueueInv /\ OwnerInv /\ OwnerInv' /\ AskedInv /\ [Next]_vars => AskedInv'
  <1> SUFFICES ASSUME TypeOK, QueueInv, OwnerInv, OwnerInv', AskedInv, [Next]_vars,
                      NEW r \in Request, Awaited(r)'
               PROVE  Queued(r)' \/ holder'[r] # NoServer
    BY DEF AskedInv
  <1>1. Awaited(r) \/ Publish(r)
    BY CallWriters
    DEF Awaited, TypeOK, Check, Receive, TimeOut, Close, CallFails, SliceEnds,
        WaiterReads, WaiterSkips, WaiterReturns, CallStep, Publish
  <1>2. CASE Publish(r)
    BY <1>2, PushQueues DEF Publish
  <1>3. CASE Awaited(r)
    BY <1>3, AskedStays DEF AskedInv
  <1> QED
    BY <1>1, <1>2, <1>3

LEMMA CInvNext == CInv /\ [Next]_vars => CInv'
  <1> SUFFICES ASSUME CInv, [Next]_vars PROVE CInv'
    OBVIOUS
  <1>1. IInv'
    BY InvNext DEF CInv
  <1>2. OutcomeInv' /\ AskedInv'
    BY <1>1, OutcomeNext, AskedNext DEF CInv, IInv
  <1> QED
    BY <1>1, <1>2 DEF CInv

LEMMA CInvInit == Init => CInv
  <1> SUFFICES ASSUME Init PROVE CInv
    OBVIOUS
  <1>1. IInv
    BY InvInit
  <1>2. OutcomeInv /\ AskedInv
    BY DEF Init, OutcomeInv, AskedInv, Awaited
  <1> QED
    BY <1>1, <1>2 DEF CInv

-----------------------------------------------------------------------------
(* What a step does to the variables of the contract.                      *)

\* Two calls do not push in one step.
LEMMA OnePush ==
  ASSUME TypeOK, NEW r \in Request, NEW q \in Request,
         Publish(r) \/ CallFails(r), Publish(q) \/ CallFails(q)
  PROVE  q = r
  <1> USE DEF TypeOK, CallStep
  <1>1. \A t \in Request :
          Publish(t) \/ CallFails(t) =>
            /\ call'[t] # call[t]
            /\ \A u \in Request : u # t => call'[u] = call[u]
    BY DEF Publish, CallFails
  <1> QED
    BY <1>1

LEMMA AskedKept ==
  ASSUME CInv, CInv', [Next]_vars, \A r \in Request : ~Publish(r) /\ ~CallFails(r)
  PROVE  Asked' = Asked
  <1>1. \A r \in Request :
          Queued(r)' \/ holder'[r] # NoServer <=> Queued(r) \/ holder[r] # NoServer
    BY AskedStays, AskedComes DEF CInv, IInv
  <1> QED
    BY <1>1 DEF Asked

LEMMA AskedGrows ==
  ASSUME CInv, CInv', [Next]_vars, NEW r \in Request, Publish(r) \/ CallFails(r)
  PROVE  Asked' \in {Asked, Asked \cup {r}}
  <1>1. \A q \in Request :
          Queued(q) \/ holder[q] # NoServer => Queued(q)' \/ holder'[q] # NoServer
    BY AskedStays DEF CInv, IInv
  <1>2. ASSUME NEW q \in Request, Queued(q)' \/ holder'[q] # NoServer
        PROVE  Queued(q) \/ holder[q] # NoServer \/ q = r
    BY <1>2, AskedComes, OnePush DEF CInv, IInv
  <1>3. Asked \subseteq Asked' /\ Asked' \subseteq Asked \cup {r}
    BY <1>1, <1>2 DEF Asked
  <1> QED
    BY <1>3

\* The first response written is the verdict, a later one changes nothing.
LEMMA VerdictOfWrite ==
  ASSUME TypeOK, NEW r \in Request, NEW x \in Response, Write(r, x)
  PROVE  /\ written[r] = <<>> =>
              Verdict[r] = "none" /\ Verdict' = [Verdict EXCEPT ![r] = x]
         /\ written[r] # <<>> => Verdict' = Verdict
  <1>1. /\ written[r] \in Seq(Response)
        /\ written'[r] = Append(written[r], x)
        /\ \A q \in Request : q # r => written'[q] = written[q]
    BY DEF Write, TypeOK
  <1>2. written'[r] # <<>>
    BY <1>1
  <1>3. CASE written[r] = <<>>
    <2>1. written'[r][1] = x
      BY <1>1, <1>3
    <2>2. \A q \in Request :
            (IF written'[q] = <<>> THEN "none" ELSE written'[q][1])
            = IF q = r THEN x ELSE IF written[q] = <<>> THEN "none" ELSE written[q][1]
      BY <1>1, <1>2, <2>1
    <2> QED
      BY <1>3, <2>2 DEF Verdict
  <1>4. CASE written[r] # <<>>
    <2>1. written'[r][1] = written[r][1]
      BY <1>1, <1>4
    <2>2. \A q \in Request :
            (IF written'[q] = <<>> THEN "none" ELSE written'[q][1])
            = IF written[q] = <<>> THEN "none" ELSE written[q][1]
      BY <1>1, <1>2, <1>4, <2>1
    <2> QED
      BY <1>4, <2>2 DEF Verdict
  <1> QED
    BY <1>3, <1>4

\* All other steps change nothing the contract speaks of.
LEMMA PromiseWriters ==
  ASSUME [Next]_vars
  PROVE  \/ UNCHANGED <<queue, holder, absent, written, outcome>>
         \/ \E s \in Server :
              Acquire(s) \/ AcquireReplyLost(s) \/ TickEnds(s) \/ EntryExpires(s)
         \/ \E p \in Process : FailBackPush(p)
         \/ \E r \in Request :
              \/ PushAnswer(r) \/ Check(r) \/ Publish(r) \/ Receive(r)
              \/ TimeOut(r) \/ CallFails(r)
  BY DEF Start, ReadOwners, Heartbeat, HeartbeatFails, Claim, ClaimFails,
    FailBackExpire, FailBackFails, LoopExits, Dispatch, Begin, Finish, ExpireAnswer,
    Release, RespondFails, Stop, Shutdown, Exit, Close, ResponseExpires, SliceEnds,
    WaiterReads, WaiterSkips, ReadAlive, ReadAliveFails, WaiterReturns, Crash,
    Next, ReapingStep, HeartbeatStep, LoopStep, LifeStep, WorkStep, CallerStep,
    vars, redis, server, reaper, caller, history

-----------------------------------------------------------------------------
(* Each action is a step of the contract, or a stuttering step of it.      *)

LEMMA AcquireSteps ==
  ASSUME CInv, CInv', [Next]_vars, NEW s \in Server, Acquire(s) \/ AcquireReplyLost(s)
  PROVE  \E r \in Request : Contract!Take(s, r)
  <1>1. PICK r \in Request :
          /\ Queued(r)
          /\ holder[r] = NoServer
          /\ holder' = [holder EXCEPT ![r] = s]
    BY TakenWasQueued DEF CInv, IInv
  <1>2. UNCHANGED <<absent, written, outcome>>
    BY DEF Acquire, AcquireReplyLost, caller, history
  <1>3. \A q \in Request : ~Publish(q) /\ ~CallFails(q)
    <2>1. holder' # holder
      BY <1>1, ProcessAssumption DEF CInv, IInv, TypeOK
    <2> QED
      BY <2>1 DEF Publish, CallFails, server
  <1>4. Asked' = Asked
    BY <1>3, AskedKept
  <1> QED
    BY <1>1, <1>2, <1>4 DEF Contract!Take, Asked, Verdict

LEMMA LapseSteps ==
  ASSUME CInv, CInv', [Next]_vars, NEW s \in Server, TickEnds(s) \/ EntryExpires(s)
  PROVE  Contract!Lapse(s) \/ UNCHANGED Contract!promise
  <1>1. UNCHANGED <<queue, holder, written, outcome>>
    BY DEF TickEnds, EntryExpires, redis, server, caller
  <1>2. absent' = absent \/ absent' = absent \cup {s}
    BY DEF TickEnds, EntryExpires
  <1>3. Asked' = Asked /\ Verdict' = Verdict
    BY <1>1 DEF Asked, Verdict, Queued
  <1> QED
    BY <1>1, <1>2, <1>3 DEF Contract!Lapse, Contract!promise

LEMMA WriteSteps ==
  ASSUME CInv, NEW r \in Request, NEW x \in Response, Write(r, x),
         UNCHANGED <<queue, holder, absent, outcome>>,
         holder[r] # NoServer, x = "lost" => holder[r] \in absent
  PROVE  Contract!Decide(r, x) \/ UNCHANGED Contract!promise
  <1>1. Asked' = Asked
    BY DEF Asked, Queued
  <1>2. CASE written[r] = <<>>
    BY <1>1, <1>2, VerdictOfWrite DEF Contract!Decide, CInv, IInv
  <1>3. CASE written[r] # <<>>
    BY <1>1, <1>3, VerdictOfWrite DEF Contract!promise, CInv, IInv
  <1> QED
    BY <1>2, <1>3

LEMMA FailBackSteps ==
  ASSUME CInv, NEW p \in Process, FailBackPush(p)
  PROVE  Contract!Decide(claim[p], "lost") \/ UNCHANGED Contract!promise
  <1>1. /\ Write(claim[p], "lost")
        /\ UNCHANGED <<queue, holder, absent, outcome>>
        /\ reapStep[p] = "push"
    BY DEF FailBackPush, server, caller
  <1>2. claim[p] \in Request /\ holder[claim[p]] \in absent /\ absent \subseteq Server
    BY <1>1 DEF CInv, IInv, TypeOK, ClaimInv
  <1>3. holder[claim[p]] # NoServer
    BY <1>2, ProcessAssumption
  <1> QED
    BY <1>1, <1>2, <1>3, WriteSteps DEF Response

LEMMA AnswerSteps ==
  ASSUME CInv, NEW r \in Request, PushAnswer(r)
  PROVE  Contract!Decide(r, "answer") \/ UNCHANGED Contract!promise
  <1>1. /\ Write(r, "answer")
        /\ UNCHANGED <<queue, holder, absent, outcome>>
        /\ holder[r] \in Server
    BY DEF PushAnswer, AtWork, caller
  <1>2. holder[r] # NoServer
    BY <1>1, ProcessAssumption
  <1> QED
    BY <1>1, <1>2, WriteSteps DEF Response

\* The steps of a call.
LEMMA PublishSteps ==
  ASSUME CInv, CInv', [Next]_vars, NEW r \in Request, Publish(r)
  PROVE  Contract!Ask(r)
  <1>1. /\ call[r] = "checked"
        /\ queue' = Pushed(r)
        /\ UNCHANGED <<holder, absent, written, outcome>>
    BY DEF Publish, CallStep, server, history
  <1>2. r \notin Asked /\ outcome[r] = "none"
    BY <1>1, DeploymentAssumption
    DEF CInv, IInv, QueueInv, OutcomeInv, Asked, Queued, Range
  <1>3. r \in Asked'
    BY <1>1, PushQueues DEF CInv, IInv, Asked
  <1>4. Asked' = Asked \cup {r}
    BY <1>2, <1>3, AskedGrows
  <1> QED
    BY <1>1, <1>2, <1>4 DEF Contract!Ask, Verdict

LEMMA CheckSteps ==
  ASSUME CInv, NEW r \in Request, Check(r)
  PROVE  Contract!Refuse(r) \/ UNCHANGED Contract!promise
  <1>1. /\ call[r] = "idle"
        /\ UNCHANGED <<queue, holder, absent, written>>
        /\ outcome' = outcome \/ outcome' = [outcome EXCEPT ![r] = "refused"]
    BY DEF Check, CallStep, redis, server, history
  <1>2. r \notin Asked /\ outcome[r] = "none"
    BY <1>1, DeploymentAssumption
    DEF CInv, IInv, QueueInv, OutcomeInv, Asked, Queued, Range
  <1>3. Asked' = Asked /\ Verdict' = Verdict
    BY <1>1 DEF Asked, Verdict, Queued
  <1> QED
    BY <1>1, <1>2, <1>3 DEF Contract!Refuse, Contract!Returns, Contract!promise

LEMMA ReceiveSteps ==
  ASSUME CInv, CInv', NEW r \in Request, Receive(r)
  PROVE  Contract!Respond(r)
  <1>1. /\ call[r] = "waiting"
        /\ UNCHANGED <<queue, holder, absent, written>>
        /\ responses[r] # <<>>
        /\ outcome' = [outcome EXCEPT ![r] = Head(responses[r])]
    BY DEF Receive, CallStep, Pop, server, history
  <1>2. outcome[r] = "none"
    BY <1>1 DEF CInv, OutcomeInv, Awaited
  <1>3. outcome'[r] = Head(responses[r]) /\ Head(responses[r]) \in Response
    BY <1>1 DEF CInv, IInv, TypeOK
  <1>4. written[r] # <<>> /\ outcome'[r] = written[r][1]
    BY <1>1, <1>3 DEF CInv, IInv, ResponseInv
  <1>5. Verdict[r] = Head(responses[r]) /\ Verdict[r] # "none"
    BY <1>3, <1>4 DEF Verdict, Response
  <1>6. Asked' = Asked /\ Verdict' = Verdict
    BY <1>1 DEF Asked, Verdict, Queued
  <1> QED
    BY <1>1, <1>2, <1>5, <1>6 DEF Contract!Respond, Contract!Returns

LEMMA TimeOutSteps ==
  ASSUME CInv, NEW r \in Request, TimeOut(r)
  PROVE  Contract!TimeOut(r)
  <1>1. /\ ClientOf[r] \in Impatient
        /\ Awaited(r)
        /\ UNCHANGED <<queue, holder, absent, written>>
        /\ outcome' = [outcome EXCEPT ![r] = "timeout"]
    BY DEF TimeOut, CallStep, Awaited, redis, server, history
  <1>2. r \in Asked /\ outcome[r] = "none"
    BY <1>1 DEF CInv, AskedInv, OutcomeInv, Asked
  <1>3. Asked' = Asked /\ Verdict' = Verdict
    BY <1>1 DEF Asked, Verdict, Queued
  <1> QED
    BY <1>1, <1>2, <1>3 DEF Contract!TimeOut, Contract!Returns

LEMMA CallFailsSteps ==
  ASSUME CInv, CInv', [Next]_vars, NEW r \in Request, CallFails(r)
  PROVE  Contract!Break(r)
  <1>1. /\ call[r] \in {"idle", "checked", "waiting", "closing"}
        /\ UNCHANGED <<holder, absent, written>>
        /\ outcome' = [outcome EXCEPT ![r] = "error"]
    BY DEF CallFails, CallStep, server
  <1>2. outcome[r] # "refused"
    BY <1>1 DEF CInv, OutcomeInv, Awaited
  <1>3. Asked' \in {Asked, Asked \cup {r}}
    BY AskedGrows
  <1>4. Verdict' = Verdict
    BY <1>1 DEF Verdict
  <1> QED
    BY <1>1, <1>2, <1>3, <1>4 DEF Contract!Break, Contract!Returns

LEMMA StepKeepsContract ==
  ASSUME CInv, CInv', [Next]_vars
  PROVE  [Contract!Next]_(Contract!promise)
  <1>1. CASE UNCHANGED <<queue, holder, absent, written, outcome>>
    BY <1>1 DEF Contract!promise, Asked, Verdict, Queued
  <1>2. ASSUME NEW s \in Server, Acquire(s) \/ AcquireReplyLost(s)
        PROVE  Contract!Next
    BY <1>2, AcquireSteps DEF Contract!Next
  <1>3. ASSUME NEW s \in Server, TickEnds(s) \/ EntryExpires(s)
        PROVE  [Contract!Next]_(Contract!promise)
    BY <1>3, LapseSteps DEF Contract!Next
  <1>4. ASSUME NEW p \in Process, FailBackPush(p)
        PROVE  [Contract!Next]_(Contract!promise)
    <2>1. claim[p] \in Request
      BY <1>4 DEF FailBackPush, CInv, IInv, TypeOK
    <2> QED
      BY <1>4, <2>1, FailBackSteps DEF Contract!Next
  <1>5. ASSUME NEW r \in Request, PushAnswer(r) \/ Check(r)
        PROVE  [Contract!Next]_(Contract!promise)
    BY <1>5, AnswerSteps, CheckSteps DEF Contract!Next
  <1>6. ASSUME NEW r \in Request, Publish(r) \/ Receive(r) \/ TimeOut(r) \/ CallFails(r)
        PROVE  Contract!Next
    BY <1>6, PublishSteps, ReceiveSteps, TimeOutSteps, CallFailsSteps DEF Contract!Next
  <1> QED
    BY <1>1, <1>2, <1>3, <1>4, <1>5, <1>6, PromiseWriters

-----------------------------------------------------------------------------
\* The invariant the contract rests on holds for every deployment.
THEOREM ContractInvariance == Spec => []CInv
  BY CInvInit, CInvNext, PTL DEF Spec

\* AnyCall implements CallContract: whatever is killed, stopped, late or lost,
\* a refused call never runs, a request is taken once, and a call gets the
\* first response written for it, which speaks of a lost server only if there
\* was one.
THEOREM KeepsContractHolds == Spec => KeepsContract
  <1>1. ASSUME Init PROVE Contract!Init
    <2>1. Asked = {}
      <3>1. \A r \in Request : queue[MethodOf[r]] = <<>> /\ holder[r] = NoServer
        BY <1>1, DeploymentAssumption DEF Init, Nobody
      <3> QED
        BY <3>1 DEF Asked, Queued, Range
    <2>2. Verdict = [r \in Request |-> "none"]
      BY <1>1 DEF Init, Verdict
    <2> QED
      BY <1>1, <2>1, <2>2 DEF Init, Contract!Init, Nobody
  <1>2. CInv /\ CInv' /\ [Next]_vars => [Contract!Next]_(Contract!promise)
    BY StepKeepsContract
  <1> QED
    BY <1>1, <1>2, ContractInvariance, PTL DEF Spec, KeepsContract, Contract!Spec

-----------------------------------------------------------------------------
(* What the contract comes to, and with it the protocol.                   *)

LEMMA MeaningInit == Contract!Init => Contract!Types /\ Contract!Meaning
  BY DEF Contract!Init, Contract!Types, Contract!Meaning

LEMMA MeaningNext ==
  /\ Contract!Types /\ Contract!Meaning
  /\ [Contract!Next]_(Contract!promise)
  => Contract!Types' /\ Contract!Meaning'
  <1> SUFFICES ASSUME Contract!Types, Contract!Meaning,
                      [Contract!Next]_(Contract!promise)
               PROVE  Contract!Types' /\ Contract!Meaning'
    OBVIOUS
  <1> DEFINE Good == Contract!Types' /\ Contract!Meaning'
  <1> USE ProcessAssumption DEF Contract!Types, Contract!Meaning
  <1>1. ASSUME NEW s \in Server, Contract!Lapse(s) PROVE Good
    BY <1>1 DEF Contract!Lapse
  <1>2. ASSUME NEW s \in Server, NEW r \in Request, Contract!Take(s, r) PROVE Good
    BY <1>2 DEF Contract!Take
  <1>3. ASSUME NEW r \in Request, Contract!Ask(r) PROVE Good
    BY <1>3 DEF Contract!Ask
  <1>4. ASSUME NEW r \in Request, Contract!Refuse(r) PROVE Good
    BY <1>4 DEF Contract!Refuse, Contract!Returns
  <1>5. ASSUME NEW r \in Request, Contract!Respond(r) PROVE Good
    BY <1>5 DEF Contract!Respond, Contract!Returns
  <1>6. ASSUME NEW r \in Request, Contract!TimeOut(r) PROVE Good
    BY <1>6 DEF Contract!TimeOut, Contract!Returns
  <1>7. ASSUME NEW r \in Request, Contract!Break(r) PROVE Good
    BY <1>7 DEF Contract!Break, Contract!Returns
  <1>8. ASSUME NEW r \in Request, NEW response \in {"answer", "lost"},
               Contract!Decide(r, response)
        PROVE  Good
    BY <1>8 DEF Contract!Decide
  <1>9. CASE UNCHANGED Contract!promise
    BY <1>9 DEF Contract!promise
  <1> QED
    BY <1>1, <1>2, <1>3, <1>4, <1>5, <1>6, <1>7, <1>8, <1>9 DEF Contract!Next

\* Whatever implements the contract gives every outcome its meaning, AnyCall
\* with it.
THEOREM OutcomesMean == Spec => [](Contract!Types /\ Contract!Meaning)
  BY MeaningInit, MeaningNext, KeepsContractHolds, PTL DEF KeepsContract, Contract!Spec

\* A call that is told no server is available was never published, and no
\* server ever runs it, as the comment of NoServerAvailableError says; it
\* follows from the contract alone.
THEOREM RefusedNeverRunsHolds == Spec => []RefusedNeverRuns
  <1>1. Contract!Meaning => RefusedNeverRuns
    BY DEF Contract!Meaning, RefusedNeverRuns, Asked
  <1> QED
    BY <1>1, OutcomesMean, PTL
=============================================================================
