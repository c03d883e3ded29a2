---------------------------- MODULE ResidueProofs ----------------------------
(***************************************************************************)
(* Proofs of what AnyCall leaves behind in Redis, for every deployment:    *)
(* in-flight entries nobody is busy with, responses nobody reads.          *)
(***************************************************************************)
EXTENDS AnyCallProofs, SequenceTheorems

\* The slips that leave an in-flight entry, and a response without a TTL.
EntrySlip  == {"acquire", "submit", "push", "expire", "release"}
ExpirySlip == {"expire", "failback_expire"}

Busy(r) == work[r] \notin {"none", "done"}

\* An entry is of a request its server is busy with, dead or alive, or one
\* that a failed step has left.
HeldInv == \A r \in Request : inflight[r] # NoServer => Busy(r) \/ Slipped(r, EntrySlip)

Expiring(p, r) == reapStep[p] = "expire" /\ claim[p] = r

\* Whoever has pushed a response is about to give its queue a TTL, unless the
\* queue has one, is gone, or a failed step has left it without.
UnreadInv ==
  \A r \in Request :
    responses[r] # <<>> =>
      \/ r \in expiring
      \/ work[r] = "expire"
      \/ \E p \in Process : Expiring(p, r)
      \/ Slipped(r, ExpirySlip)

RInv == IInv /\ HeldInv /\ UnreadInv

-----------------------------------------------------------------------------
(* In-flight entries.                                                      *)

\* A request its server is busy with stays so until it is released, or its
\* release fails.
LEMMA BusyUntilReleased ==
  ASSUME TypeOK, QueueInv, WorkInv, [Next]_vars, NEW r \in Request, Busy(r)
  PROVE  Busy(r)' \/ Slipped(r, EntrySlip)' \/ Release(r)
  <1> USE DEF TypeOK, Busy, Slipped, EntrySlip
  <1>1. CASE UNCHANGED work
    BY <1>1
  <1>2. ASSUME NEW s \in Server, Acquire(s) \/ AcquireReplyLost(s)
        PROVE  Busy(r)'
    <2>1. PICK q \in Request, w \in {"taken", "done"} :
            holder[q] = NoServer /\ work' = [work EXCEPT ![q] = w]
      BY <1>2, TakeFacts
    <2>2. q # r
      BY <2>1 DEF WorkInv
    <2> QED
      BY <2>1, <2>2
  <1>3. ASSUME NEW s \in Server, NEW q \in Request, Dispatch(s, q)
        PROVE  Busy(r)' \/ Slipped(r, EntrySlip)'
    <2>1. CASE status[s] = "shutdown"
      BY <1>3, <2>1 DEF Dispatch
    <2>2. CASE status[s] # "shutdown"
      BY <1>3, <2>2 DEF Dispatch
    <2> QED
      BY <2>1, <2>2
  <1>4. ASSUME NEW q \in Request,
               Begin(q) \/ Finish(q) \/ PushAnswer(q) \/ ExpireAnswer(q)
        PROVE  Busy(r)'
    <2>1. \E w \in {"running", "push", "expire", "release"} : work' = [work EXCEPT ![q] = w]
      BY <1>4 DEF Begin, Finish, PushAnswer, ExpireAnswer, WorkGoesTo
    <2> QED
      BY <2>1
  <1>5. ASSUME NEW q \in Request, Release(q)
        PROVE  Busy(r)' \/ Release(r)
    BY <1>5 DEF Release, WorkGoesTo
  <1>6. ASSUME NEW q \in Request, RespondFails(q)
        PROVE  Busy(r)' \/ Slipped(r, EntrySlip)'
    <2>1. PICK step \in {"push", "expire", "release"} : slips' = slips \cup {<<step, q>>}
      BY <1>6 DEF RespondFails
    <2>2. CASE q = r
      BY <2>1, <2>2
    <2>3. CASE q # r
      BY <1>6, <2>3 DEF RespondFails, WorkGoesTo
    <2> QED
      BY <2>2, <2>3
  <1> QED
    BY <1>1, <1>2, <1>3, <1>4, <1>5, <1>6, WorkWriters

\* An entry comes with a request taken, whose server is busy with it from
\* then on, or never hears of it.
LEMMA EntryComes ==
  ASSUME TypeOK, QueueInv, [Next]_vars, NEW r \in Request,
         inflight[r] = NoServer, inflight'[r] # NoServer
  PROVE  Busy(r)' \/ Slipped(r, EntrySlip)'
  <1>1. ASSUME NEW s \in Server, Acquire(s)
        PROVE  Busy(r)'
    <2>1. PICK m \in Acquirable(s) :
            Take(s, m) /\ work' = [work EXCEPT ![Head(queue[m])] = "taken"]
      BY <1>1 DEF Acquire
    <2>2. m \in Method /\ queue[m] \in Seq(Request) /\ queue[m] # <<>>
      BY <2>1, DeploymentAssumption DEF Acquirable, TypeOK
    <2>3. inflight' = [inflight EXCEPT ![Head(queue[m])] = s] /\ Head(queue[m]) \in Request
      BY <2>1, <2>2 DEF Take
    <2>4. Head(queue[m]) = r
      BY <2>3 DEF TypeOK
    <2> QED
      BY <2>1, <2>4 DEF Busy, TypeOK
  <1>2. ASSUME NEW s \in Server, AcquireReplyLost(s)
        PROVE  Slipped(r, EntrySlip)'
    <2>1. PICK m \in Acquirable(s) :
            Take(s, m) /\ slips' = slips \cup {<<"acquire", Head(queue[m])>>}
      BY <1>2 DEF AcquireReplyLost
    <2>2. m \in Method /\ queue[m] \in Seq(Request) /\ queue[m] # <<>>
      BY <2>1, DeploymentAssumption DEF Acquirable, TypeOK
    <2>3. inflight' = [inflight EXCEPT ![Head(queue[m])] = s] /\ Head(queue[m]) \in Request
      BY <2>1, <2>2 DEF Take
    <2>4. Head(queue[m]) = r
      BY <2>3 DEF TypeOK
    <2> QED
      BY <2>1, <2>4 DEF Slipped, EntrySlip
  <1>3. ASSUME NEW p \in Process, NEW q \in Request, Claim(p, q) \/ ClaimFails(p, q)
        PROVE  FALSE
    BY <1>3 DEF Claim, ClaimFails, TypeOK
  <1>4. ASSUME NEW q \in Request, Release(q)
        PROVE  FALSE
    BY <1>4 DEF Release, TypeOK
  <1> QED
    BY <1>1, <1>2, <1>3, <1>4, InflightWriters

LEMMA HeldNext == TypeOK /\ QueueInv /\ WorkInv /\ HeldInv /\ [Next]_vars => HeldInv'
  <1> SUFFICES ASSUME TypeOK, QueueInv, WorkInv, HeldInv, [Next]_vars,
                      NEW r \in Request, inflight'[r] # NoServer
               PROVE  Busy(r)' \/ Slipped(r, EntrySlip)'
    BY DEF HeldInv
  <1>1. CASE inflight[r] = NoServer
    BY <1>1, EntryComes
  <1>2. CASE Slipped(r, EntrySlip)
    BY <1>2, SlipsStay DEF Slipped
  <1>3. CASE Busy(r)
    <2>1. ~Release(r)
      BY DEF Release, TypeOK
    <2> QED
      BY <1>3, <2>1, BusyUntilReleased
  <1> QED
    BY <1>1, <1>2, <1>3 DEF HeldInv

-----------------------------------------------------------------------------
(* Responses.                                                              *)

LEMMA ExpiringWriters ==
  ASSUME [Next]_vars
  PROVE  \/ UNCHANGED expiring
         \/ \E p \in Process : FailBackExpire(p)
         \/ \E r \in Request :
              ExpireAnswer(r) \/ Receive(r) \/ Close(r) \/ CallFails(r) \/ ResponseExpires(r)
  BY DEF Start, ReadOwners, Heartbeat, HeartbeatFails, TickEnds, EntryExpires,
    Claim, ClaimFails, FailBackPush, FailBackFails, Acquire, AcquireReplyLost,
    LoopExits, Dispatch, Begin, Finish, PushAnswer, Release, RespondFails, Stop,
    Shutdown, Exit, Check, Publish, TimeOut, SliceEnds, WaiterReads, WaiterSkips,
    ReadAlive, ReadAliveFails, WaiterReturns, Crash, Next, ReapingStep, HeartbeatStep,
    LoopStep, LifeStep, WorkStep, CallerStep, vars, redis, server, reaper, caller, history

\* Who pushes a response goes on to set its expiry.
LEMMA ResponseComes ==
  ASSUME TypeOK, [Next]_vars, NEW r \in Request,
         responses[r] = <<>>, responses'[r] # <<>>
  PROVE  work'[r] = "expire" \/ \E p \in Process : Expiring(p, r)'
  <1> USE DEF TypeOK
  <1>1. ASSUME NEW p \in Process, FailBackPush(p)
        PROVE  Expiring(p, r)'
    <2>1. claim[p] = r
      BY <1>1 DEF FailBackPush, Write
    <2> QED
      BY <1>1, <2>1 DEF FailBackPush, Expiring
  <1>2. ASSUME NEW q \in Request, PushAnswer(q)
        PROVE  work'[r] = "expire"
    <2>1. q = r
      BY <1>2 DEF PushAnswer, Write
    <2> QED
      BY <1>2, <2>1 DEF PushAnswer, WorkGoesTo
  <1>3. ASSUME NEW q \in Request, Receive(q) \/ Close(q) \/ ResponseExpires(q)
        PROVE  FALSE
    BY <1>3 DEF Receive, Close, ResponseExpires, Pop, Delete
  <1>4. ASSUME NEW q \in Request, CallFails(q)
        PROVE  FALSE
    <2>1. UNCHANGED responses \/ Pop(q) \/ Delete(q)
      BY <1>4 DEF CallFails
    <2> QED
      BY <2>1 DEF Pop, Delete
  <1> QED
    BY <1>1, <1>2, <1>3, <1>4, ResponseWriters

LEMMA LastTail ==
  ASSUME NEW S, NEW q \in Seq(S), q # <<>>, Tail(q) # <<>>
  PROVE  Len(q) # 1
  <1>1. Tail(q) \in Seq(S) /\ Len(Tail(q)) = Len(q) - 1 /\ Len(q) \in Nat
    OBVIOUS
  <1>2. Len(Tail(q)) \in Nat \ {0}
    BY <1>1, EmptySeq
  <1> QED
    BY <1>1, <1>2

\* Redis drops the TTL of a queue with the queue only.
LEMMA ExpiryStays ==
  ASSUME TypeOK, [Next]_vars, NEW r \in Request, r \in expiring,
         responses'[r] # <<>>
  PROVE  r \in expiring'
  <1> USE DEF TypeOK
  <1>1. ASSUME NEW q \in Request, Pop(q)
        PROVE  r \in expiring'
    <2>1. CASE q = r
      <3>1. responses'[r] = Tail(responses[r]) /\ responses[r] # <<>>
        BY <1>1, <2>1 DEF Pop
      <3>2. Len(responses[r]) # 1
        BY <3>1, LastTail
      <3> QED
        BY <1>1, <2>1, <3>2 DEF Pop
    <2>2. CASE q # r
      BY <1>1, <2>2 DEF Pop
    <2> QED
      BY <2>1, <2>2
  <1>2. ASSUME NEW q \in Request, Delete(q)
        PROVE  r \in expiring'
    BY <1>2 DEF Delete
  <1>3. ASSUME NEW p \in Process, FailBackExpire(p)
        PROVE  r \in expiring'
    BY <1>3 DEF FailBackExpire, SetExpiry
  <1>4. ASSUME NEW q \in Request, ExpireAnswer(q)
        PROVE  r \in expiring'
    BY <1>4 DEF ExpireAnswer, SetExpiry
  <1>5. ASSUME NEW q \in Request,
               Receive(q) \/ Close(q) \/ CallFails(q) \/ ResponseExpires(q)
        PROVE  UNCHANGED expiring \/ Pop(q) \/ Delete(q)
    BY <1>5 DEF Receive, Close, CallFails, ResponseExpires
  <1> QED
    BY <1>1, <1>2, <1>3, <1>4, <1>5, ExpiringWriters

\* A worker past its push sets the expiry, or fails.
LEMMA WorkerExpires ==
  ASSUME TypeOK, QueueInv, WorkInv, [Next]_vars, NEW r \in Request,
         work[r] = "expire", responses[r] # <<>>
  PROVE  work'[r] = "expire" \/ r \in expiring' \/ Slipped(r, ExpirySlip)'
  <1> USE DEF TypeOK
  <1>1. ASSUME NEW s \in Server, Acquire(s) \/ AcquireReplyLost(s)
        PROVE  work'[r] = "expire"
    <2>1. PICK q \in Request, w \in {"taken", "done"} :
            holder[q] = NoServer /\ work' = [work EXCEPT ![q] = w]
      BY <1>1, TakeFacts
    <2>2. q # r
      BY <2>1 DEF WorkInv
    <2> QED
      BY <2>1, <2>2
  <1>2. ASSUME NEW s \in Server, NEW q \in Request, Dispatch(s, q)
        PROVE  work'[r] = "expire"
    <2>1. q # r /\ \E w \in {"done", "queued"} : work' = [work EXCEPT ![q] = w]
      BY <1>2 DEF Dispatch
    <2> QED
      BY <2>1
  <1>3. ASSUME NEW q \in Request, Begin(q) \/ Finish(q) \/ PushAnswer(q) \/ Release(q)
        PROVE  work'[r] = "expire"
    <2>1. q # r /\ \E w \in Work : work' = [work EXCEPT ![q] = w]
      BY <1>3 DEF Begin, Finish, PushAnswer, Release, AtWork, WorkGoesTo, Work
    <2> QED
      BY <2>1
  <1>4. ASSUME NEW q \in Request, ExpireAnswer(q)
        PROVE  work'[r] = "expire" \/ r \in expiring'
    BY <1>4 DEF ExpireAnswer, SetExpiry, WorkGoesTo
  <1>5. ASSUME NEW q \in Request, RespondFails(q)
        PROVE  work'[r] = "expire" \/ Slipped(r, ExpirySlip)'
    <2>1. CASE q = r
      <3>1. slips' = slips \cup {<<"expire", r>>}
        BY <1>5, <2>1 DEF RespondFails, AtWork
      <3> QED
        BY <3>1 DEF Slipped, ExpirySlip
    <2>2. CASE q # r
      BY <1>5, <2>2 DEF RespondFails, WorkGoesTo
    <2> QED
      BY <2>1, <2>2
  <1> QED
    BY <1>1, <1>2, <1>3, <1>4, <1>5, WorkWriters

\* So does a reaper past its push.
LEMMA ReaperExpires ==
  ASSUME TypeOK, [Next]_vars, NEW r \in Request, NEW p \in Process,
         Expiring(p, r), responses[r] # <<>>
  PROVE  Expiring(p, r)' \/ r \in expiring' \/ Slipped(r, ExpirySlip)'
  <1> USE DEF TypeOK, Expiring
  <1>1. CASE UNCHANGED <<reapStep, owners, claim>>
    BY <1>1
  <1>2. ASSUME NEW s \in Server,
               ReadOwners(s) \/ Heartbeat(s) \/ HeartbeatFails(s) \/ TickEnds(s)
        PROVE  Expiring(p, r)'
    BY <1>2 DEF ReadOwners, Heartbeat, HeartbeatFails, TickEnds
  <1>3. ASSUME NEW q \in Process, FailBackPush(q)
        PROVE  Expiring(p, r)'
    BY <1>3 DEF FailBackPush
  <1>4. ASSUME NEW q \in Process, FailBackExpire(q)
        PROVE  Expiring(p, r)' \/ r \in expiring'
    <2>1. CASE q = p
      BY <1>4, <2>1 DEF FailBackExpire, SetExpiry
    <2>2. CASE q # p
      BY <1>4, <2>2 DEF FailBackExpire
    <2> QED
      BY <2>1, <2>2
  <1>5. ASSUME NEW q \in Process, FailBackFails(q)
        PROVE  Expiring(p, r)' \/ Slipped(r, ExpirySlip)'
    <2>1. CASE q = p
      <3>1. slips' = slips \cup {<<"failback_expire", r>>}
        BY <1>5, <2>1 DEF FailBackFails
      <3> QED
        BY <3>1 DEF Slipped, ExpirySlip
    <2>2. CASE q # p
      BY <1>5, <2>2 DEF FailBackFails
    <2> QED
      BY <2>1, <2>2
  <1>6. ASSUME NEW q \in Process, NEW t \in Request, Claim(q, t) \/ ClaimFails(q, t)
        PROVE  Expiring(p, r)'
    <2>1. q # p
      BY <1>6 DEF Claim, ClaimFails
    <2> QED
      BY <1>6, <2>1 DEF Claim, ClaimFails
  <1>7. ASSUME NEW t \in Request, WaiterReads(t) \/ WaiterReturns(t)
        PROVE  Expiring(p, r)'
    BY <1>7 DEF WaiterReads, WaiterReturns
  <1>8. ASSUME NEW c \in Client, ReadAlive(c) \/ ReadAliveFails(c)
        PROVE  Expiring(p, r)'
    BY <1>8 DEF ReadAlive, ReadAliveFails
  <1> QED
    BY <1>1, <1>2, <1>3, <1>4, <1>5, <1>6, <1>7, <1>8, ReaperWriters

LEMMA UnreadNext ==
  TypeOK /\ QueueInv /\ WorkInv /\ UnreadInv /\ [Next]_vars => UnreadInv'
  <1> SUFFICES ASSUME TypeOK, QueueInv, WorkInv, UnreadInv, [Next]_vars,
                      NEW r \in Request, responses'[r] # <<>>
               PROVE  \/ r \in expiring'
                      \/ work'[r] = "expire"
                      \/ \E p \in Process : Expiring(p, r)'
                      \/ Slipped(r, ExpirySlip)'
    BY DEF UnreadInv
  <1>1. CASE responses[r] = <<>>
    BY <1>1, ResponseComes
  <1>2. CASE responses[r] # <<>>
    <2>1. CASE r \in expiring
      BY <2>1, ExpiryStays
    <2>2. CASE work[r] = "expire"
      BY <1>2, <2>2, WorkerExpires
    <2>3. CASE \E p \in Process : Expiring(p, r)
      BY <1>2, <2>3, ReaperExpires
    <2>4. CASE Slipped(r, ExpirySlip)
      BY <2>4, SlipsStay DEF Slipped
    <2> QED
      BY <1>2, <2>1, <2>2, <2>3, <2>4 DEF UnreadInv
  <1> QED
    BY <1>1, <1>2

-----------------------------------------------------------------------------
LEMMA RInvInit == Init => RInv
  <1> SUFFICES ASSUME Init PROVE RInv
    OBVIOUS
  <1>1. HeldInv /\ UnreadInv
    BY DEF Init, HeldInv, UnreadInv, Nobody
  <1> QED
    BY <1>1, InvInit DEF RInv

\* The invariant of what stays in Redis holds for every deployment.
THEOREM ResidueInvariance == Spec => []RInv
  <1>1. RInv /\ [Next]_vars => RInv'
    BY InvNext, HeldNext, UnreadNext DEF RInv, IInv
  <1> QED
    BY <1>1, RInvInit, PTL DEF Spec

\* The in-flight hash is true: an entry of a server that runs is one it is
\* busy with, unless a failed Redis call left it; of a server that died, too,
\* is every entry one it was busy with.
THEOREM InflightIsBusyHolds == Spec => []InflightIsBusy
  <1>1. RInv => InflightIsBusy
    BY DEF RInv, HeldInv, InflightIsBusy, Busy, EntrySlip
  <1> QED
    BY <1>1, ResidueInvariance, PTL

\* No response outlives its TTL: every writer sets one, after every push, and
\* what a reader leaves keeps it.
THEOREM UnreadExpiresHolds == Spec => []UnreadExpires
  <1>1. RInv => UnreadExpires
    BY DEF RInv, UnreadInv, UnreadExpires, Expiring, ExpirySlip
  <1> QED
    BY <1>1, ResidueInvariance, PTL
=============================================================================
