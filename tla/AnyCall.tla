------------------------------ MODULE AnyCall ------------------------------
(***************************************************************************)
(* The life of a call in AnyCall: clients, servers and the Redis keys they *)
(* share.  A client LPUSHes a request; a server pops it and records itself *)
(* as its owner in one script, runs the handler and answers; servers, and  *)
(* clients that have waited in silence, fail back the requests whose owner *)
(* stopped heartbeating ("reaping").                                       *)
(*                                                                         *)
(* One action is one Redis command or script of one thread, so whatever    *)
(* the threads can interleave is a behaviour.  A server has a heartbeat    *)
(* thread, a read loop and one worker per request; a client has one thread *)
(* per call.  Time is not counted: an entry of the live set may expire     *)
(* whenever nobody is bound to refresh it, a wait may end at any moment.   *)
(* Capacity limits and the doorbell only delay Acquire; they are left out  *)
(* here.  The code is the Python implementation; names follow it.          *)
(*                                                                         *)
(* A definition marked "Seeded bug" is part of no behaviour: it is what    *)
(* the definition after it would be with a plausible mistake in the code,  *)
(* and shows that a property notices the mistake.                          *)
(***************************************************************************)
EXTENDS Naturals, Sequences, FiniteSets, Functions

CONSTANTS
  Server, Client, Request, Method,
  NoServer, NoRequest,
  MethodOf,     \* the method a request calls
  ClientOf,     \* the client that makes the call
  Serves,       \* the methods a server has handlers for
  Crashable,    \* processes that may be killed
  Stoppable,    \* servers on which stop() may be called
  Stallable,    \* servers whose heartbeat thread may be late by the TTL
  Impatient,    \* clients configured with a timeout
  MaxFaults     \* bound on the Redis calls that fail

Process == Server \cup Client

ASSUME ProcessAssumption ==
  /\ Server \cap Client = {}
  /\ NoServer \notin Server
  /\ NoRequest \notin Request

ASSUME DeploymentAssumption ==
  /\ MethodOf \in [Request -> Method]
  /\ ClientOf \in [Request -> Client]
  /\ Serves \in [Server -> SUBSET Method]

ASSUME HazardAssumption ==
  /\ Crashable \subseteq Process
  /\ Stoppable \subseteq Server
  /\ Stallable \subseteq Server
  /\ Impatient \subseteq Client
  /\ MaxFaults \in Nat

VARIABLES
  \* Redis
  queue,      \* anycall:requests:<method>, the oldest request first
  inflight,   \* anycall:inflight, the owner of each request taken
  alive,      \* anycall:servers:alive, the members within the TTL
  responses,  \* anycall:responses:<id>, the oldest response first
  expiring,   \* the response queues that have a TTL
  \* processes
  status,     \* life cycle of each server and client
  loop,       \* the read loop of a server
  work,       \* how far the server that took a request is with it
  holder,     \* the server that took a request
  reapStep,   \* a heartbeat tick of a server, a reaping of a client
  owners,     \* the owners a reaper has read and not dealt with yet
  claim,      \* the request whose in-flight entry a reaper removed
  call,       \* the thread of a call
  outcome,    \* what the call gave its caller
  \* history, read by no guard but the bound on faults
  absent,     \* servers that at some time ran, or had run, outside alive
  written,    \* every response ever pushed for a request
  slips,      \* <<step, request>>: failed steps whose exception is swallowed
  faults      \* Redis calls that have failed

redis   == <<queue, inflight, alive, responses, expiring>>
server  == <<loop, work, holder>>
reaper  == <<reapStep, owners, claim>>
caller  == <<call, outcome>>
history == <<absent, written, slips, faults>>
vars    == <<redis, status, server, reaper, caller, history>>

Response == {"answer", "lost"}
Status   == {"new", "starting", "up", "stopping", "shutdown", "down", "crashed"}
Loop     == {"off", "poll", "dispatch", "done"}
Work     == {"none", "taken", "queued", "running", "push", "expire", "release", "done"}
ReapStep == {"idle", "read", "reap", "push", "expire", "done"}
Call     == {"idle", "checked", "waiting", "quiet", "reaping", "closing", "closed"}
Outcome  == Response \cup {"none", "refused", "timeout", "error"}
Slip     == {"acquire", "submit", "push", "expire", "release", "claim",
             "failback", "failback_expire"}

\* Nothing left to reap in a snapshot of the owners.
Nobody == [r \in Request |-> NoServer]

TypeOK ==
  /\ queue \in [Method -> Seq(Request)]
  /\ inflight \in [Request -> Server \cup {NoServer}]
  /\ alive \subseteq Server
  /\ responses \in [Request -> Seq(Response)]
  /\ expiring \subseteq Request
  /\ status \in [Process -> Status]
  /\ loop \in [Server -> Loop]
  /\ work \in [Request -> Work]
  /\ holder \in [Request -> Server \cup {NoServer}]
  /\ reapStep \in [Process -> ReapStep]
  /\ owners \in [Process -> [Request -> Server \cup {NoServer}]]
  /\ claim \in [Process -> Request \cup {NoRequest}]
  /\ \A p \in Process : reapStep[p] \in {"push", "expire"} => claim[p] \in Request
  /\ call \in [Request -> Call]
  /\ outcome \in [Request -> Outcome]
  /\ absent \subseteq Server
  /\ written \in [Request -> Seq(Response)]
  /\ slips \subseteq Slip \X Request
  /\ faults \in 0..MaxFaults

Init ==
  /\ queue = [m \in Method |-> <<>>]
  /\ inflight = Nobody
  /\ alive = {}
  /\ responses = [r \in Request |-> <<>>]
  /\ expiring = {}
  /\ status = [p \in Process |-> IF p \in Server THEN "new" ELSE "up"]
  /\ loop = [s \in Server |-> "off"]
  /\ work = [r \in Request |-> "none"]
  /\ holder = Nobody
  /\ reapStep = [p \in Process |-> "idle"]
  /\ owners = [p \in Process |-> Nobody]
  /\ claim = [p \in Process |-> NoRequest]
  /\ call = [r \in Request |-> "idle"]
  /\ outcome = [r \in Request |-> "none"]
  /\ absent = {}
  /\ written = [r \in Request |-> <<>>]
  /\ slips = {}
  /\ faults = 0

Executing(p) == status[p] \in {"starting", "up", "stopping", "shutdown"}
Stopped(s)   == status[s] \in {"stopping", "shutdown"}

\* A Redis call raises; the command may or may not have been executed.
Fault ==
  /\ faults < MaxFaults
  /\ faults' = faults + 1

\* Seeded bug: RPUSH, so the newest response is popped first.
WriteAtWrongEnd(r, response) ==
  /\ responses' = [responses EXCEPT ![r] = <<response>> \o @]
  /\ written' = [written EXCEPT ![r] = Append(@, response)]

\* LPUSH of a response.
Write(r, response) ==
  /\ responses' = [responses EXCEPT ![r] = Append(@, response)]
  /\ written' = [written EXCEPT ![r] = Append(@, response)]

\* EXPIRE of a response queue: a no-op on a key that is gone.
SetExpiry(r) ==
  expiring' = IF responses[r] = <<>> THEN expiring ELSE expiring \cup {r}

-----------------------------------------------------------------------------
(* The heartbeat thread, and reaping, which clients share with it.         *)

\* Seeded bug: start() leaves the first heartbeat to the heartbeat thread.
StartWithoutTick(s) ==
  /\ status[s] = "new"
  /\ status' = [status EXCEPT ![s] = "up"]
  /\ loop' = [loop EXCEPT ![s] = "poll"]
  /\ UNCHANGED <<redis, work, holder, reaper, caller, history>>

\* start(): one tick runs before any thread does.
Start(s) ==
  /\ status[s] = "new"
  /\ status' = [status EXCEPT ![s] = "starting"]
  /\ UNCHANGED <<redis, server, reaper, caller, history>>

\* HGETALL of the in-flight hash, before the live set is read.
ReadOwners(s) ==
  /\ Executing(s)
  /\ reapStep[s] = "idle"
  /\ reapStep' = [reapStep EXCEPT ![s] = "read"]
  /\ owners' = [owners EXCEPT ![s] = inflight]
  /\ UNCHANGED <<redis, status, server, claim, caller, history>>

\* The owners that reader's snapshot of the live set does not have.
Orphans(reader, members) ==
  [r \in Request |->
     IF owners[reader][r] \in members THEN NoServer ELSE owners[reader][r]]

\* The heartbeat script: refresh the entry, return the members still alive.
Heartbeat(s) ==
  /\ Executing(s)
  /\ reapStep[s] = "read"
  /\ alive' = alive \cup {s}
  /\ owners' = [owners EXCEPT ![s] = Orphans(s, alive')]
  /\ reapStep' = [reapStep EXCEPT ![s] = "reap"]
  /\ UNCHANGED <<queue, inflight, responses, expiring, status, server, claim,
                 caller, history>>

\* HGETALL or the script raises: the tick logs and ends, nothing is reaped.
HeartbeatFails(s) ==
  /\ Executing(s)
  /\ reapStep[s] \in {"idle", "read"}
  /\ Fault
  /\ \/ UNCHANGED alive
     \/ /\ reapStep[s] = "read"
        /\ alive' = alive \cup {s}
  /\ owners' = [owners EXCEPT ![s] = Nobody]
  /\ reapStep' = [reapStep EXCEPT ![s] = "reap"]
  /\ UNCHANGED <<queue, inflight, responses, expiring, status, server, claim,
                 caller, absent, written, slips>>

\* Seeded bug: the count HDEL returns is ignored.
ClaimUnchecked(p, r) ==
  /\ Executing(p)
  /\ reapStep[p] = "reap"
  /\ owners[p][r] # NoServer
  /\ owners' = [owners EXCEPT ![p][r] = NoServer]
  /\ inflight' = [inflight EXCEPT ![r] = NoServer]
  /\ reapStep' = [reapStep EXCEPT ![p] = "push"]
  /\ claim' = [claim EXCEPT ![p] = r]
  /\ UNCHANGED <<queue, alive, responses, expiring, status, server, caller,
                 history>>

\* Seeded bug: the owner is passed where the request id belongs.
ClaimOfOwner(p, r) ==
  /\ Executing(p)
  /\ reapStep[p] = "reap"
  /\ owners[p][r] # NoServer
  /\ owners' = [owners EXCEPT ![p][r] = NoServer]
  /\ reapStep' = [reapStep EXCEPT ![p] = "push"]
  /\ claim' = [claim EXCEPT ![p] = owners[p][r]]
  /\ UNCHANGED <<redis, status, server, caller, history>>

\* The HDEL of one orphan.  Whoever removed the entry goes on to respond.
Claim(p, r) ==
  /\ Executing(p)
  /\ reapStep[p] = "reap"
  /\ owners[p][r] # NoServer
  /\ owners' = [owners EXCEPT ![p][r] = NoServer]
  /\ inflight' = [inflight EXCEPT ![r] = NoServer]
  /\ IF inflight[r] = NoServer
       THEN UNCHANGED <<reapStep, claim>>
       ELSE /\ reapStep' = [reapStep EXCEPT ![p] = "push"]
            /\ claim' = [claim EXCEPT ![p] = r]
  /\ UNCHANGED <<queue, alive, responses, expiring, status, server, caller,
                 history>>

\* The HDEL raises, executed or not: reap_orphans logs and takes the next one.
ClaimFails(p, r) ==
  /\ Executing(p)
  /\ reapStep[p] = "reap"
  /\ owners[p][r] # NoServer
  /\ Fault
  /\ owners' = [owners EXCEPT ![p][r] = NoServer]
  /\ \/ UNCHANGED <<inflight, slips>>
     \/ /\ inflight[r] # NoServer
        /\ inflight' = [inflight EXCEPT ![r] = NoServer]
        /\ slips' = slips \cup {<<"claim", r>>}
  /\ UNCHANGED <<queue, alive, responses, expiring, status, server, reapStep,
                 claim, caller, absent, written>>

FailBackPush(p) ==
  /\ Executing(p)
  /\ reapStep[p] = "push"
  /\ Write(claim[p], "lost")
  /\ reapStep' = [reapStep EXCEPT ![p] = "expire"]
  /\ UNCHANGED <<queue, inflight, alive, expiring, status, server, owners,
                 claim, caller, absent, slips, faults>>

\* Seeded bug: only servers set the expiry, the error of a reaper has none.
FailBackWithoutExpire(p) ==
  /\ Executing(p)
  /\ reapStep[p] = "expire"
  /\ reapStep' = [reapStep EXCEPT ![p] = "reap"]
  /\ claim' = [claim EXCEPT ![p] = NoRequest]
  /\ UNCHANGED <<redis, status, server, owners, caller, history>>

FailBackExpire(p) ==
  /\ Executing(p)
  /\ reapStep[p] = "expire"
  /\ SetExpiry(claim[p])
  /\ reapStep' = [reapStep EXCEPT ![p] = "reap"]
  /\ claim' = [claim EXCEPT ![p] = NoRequest]
  /\ UNCHANGED <<queue, inflight, alive, responses, status, server, owners,
                 caller, history>>

\* The pipeline of respond() breaks before the push, or before the expiry.
FailBackFails(p) ==
  /\ Executing(p)
  /\ reapStep[p] \in {"push", "expire"}
  /\ Fault
  /\ slips' = slips \cup
       {<<IF reapStep[p] = "push" THEN "failback" ELSE "failback_expire", claim[p]>>}
  /\ reapStep' = [reapStep EXCEPT ![p] = "reap"]
  /\ claim' = [claim EXCEPT ![p] = NoRequest]
  /\ UNCHANGED <<redis, status, server, owners, caller, absent, written>>

\* Seeded bug: the heartbeat loop is "while True".
TickEndsForEver(s) ==
  /\ Executing(s)
  /\ reapStep[s] = "reap"
  /\ owners[s] = Nobody
  /\ reapStep' = [reapStep EXCEPT ![s] = "idle"]
  /\ IF status[s] = "starting"
       THEN /\ status' = [status EXCEPT ![s] = "up"]
            /\ loop' = [loop EXCEPT ![s] = "poll"]
            /\ absent' = IF s \in alive THEN absent ELSE absent \cup {s}
       ELSE UNCHANGED <<status, loop, absent>>
  /\ UNCHANGED <<redis, work, holder, owners, claim, caller, written, slips,
                 faults>>

\* The end of a tick.  The first one, in start(), lets the threads begin;
\* after it the thread checks _running and sleeps, or returns.
TickEnds(s) ==
  /\ Executing(s)
  /\ reapStep[s] = "reap"
  /\ owners[s] = Nobody
  /\ reapStep' = [reapStep EXCEPT ![s] = IF Stopped(s) THEN "done" ELSE "idle"]
  /\ IF status[s] = "starting"
       THEN /\ status' = [status EXCEPT ![s] = "up"]
            /\ loop' = [loop EXCEPT ![s] = "poll"]
            /\ absent' = IF s \in alive THEN absent ELSE absent \cup {s}
       ELSE UNCHANGED <<status, loop, absent>>
  /\ UNCHANGED <<redis, work, holder, owners, claim, caller, written, slips,
                 faults>>

\* Nobody refreshed the entry for HEARTBEAT_TTL_SECONDS.
EntryExpires(s) ==
  /\ s \in alive
  /\ \/ s \in Stallable
     \/ status[s] \in {"down", "crashed"}
     \/ reapStep[s] = "done"
  /\ alive' = alive \ {s}
  /\ absent' = absent \cup {s}
  /\ UNCHANGED <<queue, inflight, responses, expiring, status, server, reaper,
                 caller, written, slips, faults>>

-----------------------------------------------------------------------------
(* The read loop and the workers of a server.                              *)

Acquirable(s) ==
  {m \in Serves[s] : queue[m] # <<>>}

\* Seeded bug: the request is popped and its owner never recorded.
TakeUnrecorded(s, m) ==
  LET r == Head(queue[m]) IN
    /\ queue' = [queue EXCEPT ![m] = Tail(@)]
    /\ UNCHANGED inflight
    /\ holder' = [holder EXCEPT ![r] = s]

\* Seeded bug: the request is read (LINDEX) and not popped.
TakePeeks(s, m) ==
  LET r == Head(queue[m]) IN
    /\ UNCHANGED queue
    /\ inflight' = [inflight EXCEPT ![r] = s]
    /\ holder' = [holder EXCEPT ![r] = s]

\* ACQUIRE_SCRIPT: RPOP from one queue and HSET of the owner, atomically.
Take(s, m) ==
  LET r == Head(queue[m]) IN
    /\ queue' = [queue EXCEPT ![m] = Tail(@)]
    /\ inflight' = [inflight EXCEPT ![r] = s]
    /\ holder' = [holder EXCEPT ![r] = s]

\* The queues are shuffled, so any that has a request may be the one.
Acquire(s) ==
  /\ Executing(s)
  /\ loop[s] = "poll"
  /\ \E m \in Acquirable(s) :
       /\ Take(s, m)
       /\ work' = [work EXCEPT ![Head(queue[m])] = "taken"]
  /\ loop' = [loop EXCEPT ![s] = "dispatch"]
  /\ UNCHANGED <<alive, responses, expiring, status, reaper, caller, history>>

\* The loop checks _running before the next round.
NextRound(s) == IF Stopped(s) THEN "done" ELSE "poll"

\* The script ran but its reply was lost: the loop swallows the exception.
AcquireReplyLost(s) ==
  /\ Executing(s)
  /\ loop[s] = "poll"
  /\ Fault
  /\ \E m \in Acquirable(s) :
       /\ Take(s, m)
       /\ work' = [work EXCEPT ![Head(queue[m])] = "done"]
       /\ slips' = slips \cup {<<"acquire", Head(queue[m])>>}
  /\ loop' = [loop EXCEPT ![s] = NextRound(s)]
  /\ UNCHANGED <<alive, responses, expiring, status, reaper, caller, absent,
                 written>>

\* submit() to the pool, which raises once stop() has shut the pool down.
Dispatch(s, r) ==
  /\ Executing(s)
  /\ loop[s] = "dispatch"
  /\ holder[r] = s
  /\ work[r] = "taken"
  /\ loop' = [loop EXCEPT ![s] = NextRound(s)]
  /\ IF status[s] = "shutdown"
       THEN /\ work' = [work EXCEPT ![r] = "done"]
            /\ slips' = slips \cup {<<"submit", r>>}
       ELSE /\ work' = [work EXCEPT ![r] = "queued"]
            /\ UNCHANGED slips
  /\ UNCHANGED <<redis, status, holder, reaper, caller, absent, written, faults>>

LoopExits(s) ==
  /\ Stopped(s)
  /\ loop[s] = "poll"
  /\ loop' = [loop EXCEPT ![s] = "done"]
  /\ UNCHANGED <<redis, status, work, holder, reaper, caller, history>>

\* A worker of the server that holds r is about to take this step.
AtWork(r, step) ==
  /\ work[r] = step
  /\ holder[r] \in Server
  /\ Executing(holder[r])

WorkGoesTo(r, step) == work' = [work EXCEPT ![r] = step]

Begin(r) ==
  /\ AtWork(r, "queued")
  /\ WorkGoesTo(r, "running")
  /\ UNCHANGED <<redis, status, loop, holder, reaper, caller, history>>

\* The handler returns or raises: either way there is a response to send.
Finish(r) ==
  /\ AtWork(r, "running")
  /\ WorkGoesTo(r, "push")
  /\ UNCHANGED <<redis, status, loop, holder, reaper, caller, history>>

\* respond(): LPUSH, EXPIRE and HDEL in one pipeline, not one transaction.
PushAnswer(r) ==
  /\ AtWork(r, "push")
  /\ Write(r, "answer")
  /\ WorkGoesTo(r, "expire")
  /\ UNCHANGED <<queue, inflight, alive, expiring, status, loop, holder, reaper,
                 caller, absent, slips, faults>>

ExpireAnswer(r) ==
  /\ AtWork(r, "expire")
  /\ SetExpiry(r)
  /\ WorkGoesTo(r, "release")
  /\ UNCHANGED <<queue, inflight, alive, responses, status, loop, holder, reaper,
                 caller, history>>

\* Seeded bug: respond() is not given the request id, so it skips the HDEL.
ReleaseNothing(r) ==
  /\ AtWork(r, "release")
  /\ WorkGoesTo(r, "done")
  /\ UNCHANGED <<redis, status, loop, holder, reaper, caller, history>>

Release(r) ==
  /\ AtWork(r, "release")
  /\ inflight' = [inflight EXCEPT ![r] = NoServer]
  /\ WorkGoesTo(r, "done")
  /\ UNCHANGED <<queue, alive, responses, expiring, status, loop, holder, reaper,
                 caller, history>>

\* The pipeline breaks before one of its commands: _process_message logs it.
RespondFails(r) ==
  /\ \E step \in {"push", "expire", "release"} :
       /\ AtWork(r, step)
       /\ slips' = slips \cup {<<step, r>>}
  /\ Fault
  /\ WorkGoesTo(r, "done")
  /\ UNCHANGED <<redis, status, loop, holder, reaper, caller, absent, written>>

\* stop(): first the flag, then the pool, then wait for every thread.
Stop(s) ==
  /\ s \in Stoppable
  /\ status[s] = "up"
  /\ status' = [status EXCEPT ![s] = "stopping"]
  /\ UNCHANGED <<redis, server, reaper, caller, history>>

Shutdown(s) ==
  /\ status[s] = "stopping"
  /\ status' = [status EXCEPT ![s] = "shutdown"]
  /\ UNCHANGED <<redis, server, reaper, caller, history>>

Exit(s) ==
  /\ status[s] = "shutdown"
  /\ loop[s] = "done"
  /\ reapStep[s] = "done"
  /\ \A r \in Request : holder[r] = s => work[r] = "done"
  /\ status' = [status EXCEPT ![s] = "down"]
  /\ UNCHANGED <<redis, server, reaper, caller, history>>

-----------------------------------------------------------------------------
(* A call.                                                                 *)

CallStep(r, from, to) ==
  /\ status[ClientOf[r]] = "up"
  /\ call[r] = from
  /\ call' = [call EXCEPT ![r] = to]

Pushed(r) == [queue EXCEPT ![MethodOf[r]] = Append(@, r)]

\* Seeded bug: the servers are counted when the request has been pushed.
CheckAfterPush(r) ==
  /\ IF alive = {}
       THEN /\ CallStep(r, "idle", "closed")
            /\ outcome' = [outcome EXCEPT ![r] = "refused"]
       ELSE /\ CallStep(r, "idle", "checked")
            /\ UNCHANGED outcome
  /\ queue' = Pushed(r)
  /\ UNCHANGED <<inflight, alive, responses, expiring, status, server, reaper,
                 history>>

\* alive_count() before anything is published.
Check(r) ==
  /\ IF alive = {}
       THEN /\ CallStep(r, "idle", "closed")
            /\ outcome' = [outcome EXCEPT ![r] = "refused"]
       ELSE /\ CallStep(r, "idle", "checked")
            /\ UNCHANGED outcome
  /\ UNCHANGED <<redis, status, server, reaper, history>>

Publish(r) ==
  /\ CallStep(r, "checked", "waiting")
  /\ queue' = Pushed(r)
  /\ UNCHANGED <<inflight, alive, responses, expiring, status, server, reaper,
                 outcome, history>>

\* BRPOP takes the oldest response; Redis drops the key of an empty list.
Pop(r) ==
  /\ responses[r] # <<>>
  /\ responses' = [responses EXCEPT ![r] = Tail(@)]
  /\ expiring' = IF Len(responses[r]) = 1 THEN expiring \ {r} ELSE expiring

Receive(r) ==
  /\ CallStep(r, "waiting", "closing")
  /\ Pop(r)
  /\ outcome' = [outcome EXCEPT ![r] = Head(responses[r])]
  /\ UNCHANGED <<queue, inflight, alive, status, server, reaper, history>>

TimeOut(r) ==
  /\ ClientOf[r] \in Impatient
  /\ CallStep(r, "waiting", "closing")
  /\ outcome' = [outcome EXCEPT ![r] = "timeout"]
  /\ UNCHANGED <<redis, status, server, reaper, history>>

\* DEL of the response queue, in the finally block.
Delete(r) ==
  /\ responses' = [responses EXCEPT ![r] = <<>>]
  /\ expiring' = expiring \ {r}

Close(r) ==
  /\ CallStep(r, "closing", "closed")
  /\ Delete(r)
  /\ UNCHANGED <<queue, inflight, alive, status, server, reaper, outcome, history>>

\* A Redis call of the call itself raises, executed or not; the caller gets
\* the error.
CallFails(r) ==
  /\ \/ /\ CallStep(r, "idle", "closed")
        /\ UNCHANGED <<queue, responses, expiring>>
     \/ /\ CallStep(r, "checked", "closing")
        /\ queue' \in {queue, Pushed(r)}
        /\ UNCHANGED <<responses, expiring>>
     \/ /\ CallStep(r, "waiting", "closing")
        /\ Pop(r) \/ UNCHANGED <<responses, expiring>>
        /\ UNCHANGED queue
     \/ /\ CallStep(r, "closing", "closed")
        /\ Delete(r) \/ UNCHANGED <<responses, expiring>>
        /\ UNCHANGED queue
  /\ Fault
  /\ outcome' = [outcome EXCEPT ![r] = "error"]
  /\ UNCHANGED <<inflight, alive, status, server, reaper, absent, written, slips>>

\* The TTL of a response runs out.  A client that waits pops a response far
\* sooner than RESPONSE_TTL_SECONDS, so this happens to unread ones only.
ResponseExpires(r) ==
  /\ r \in expiring
  /\ call[r] = "closed" \/ status[ClientOf[r]] = "crashed"
  /\ Delete(r)
  /\ UNCHANGED <<queue, inflight, alive, status, server, reaper, caller, history>>

\* A slice of the wait ends empty and the client has been quiet long enough.
SliceEnds(r) ==
  /\ CallStep(r, "waiting", "quiet")
  /\ responses[r] = <<>>
  /\ UNCHANGED <<redis, status, server, reaper, outcome, history>>

\* The call gets the reap lock of its client and reads the owners.
WaiterReads(r) ==
  LET c == ClientOf[r] IN
    /\ CallStep(r, "quiet", "reaping")
    /\ reapStep[c] = "idle"
    /\ inflight # Nobody
    /\ reapStep' = [reapStep EXCEPT ![c] = "read"]
    /\ owners' = [owners EXCEPT ![c] = inflight]
    /\ UNCHANGED <<redis, status, server, claim, outcome, history>>

\* Another call has the lock, nothing is in flight, or the HGETALL raises.
WaiterSkips(r) ==
  /\ CallStep(r, "quiet", "waiting")
  /\ \/ /\ reapStep[ClientOf[r]] # "idle" \/ inflight = Nobody
        /\ UNCHANGED faults
     \/ Fault
  /\ UNCHANGED <<redis, status, server, reaper, outcome, absent, written, slips>>

ReadAlive(c) ==
  /\ Executing(c)
  /\ reapStep[c] = "read"
  /\ owners' = [owners EXCEPT ![c] = Orphans(c, alive)]
  /\ reapStep' = [reapStep EXCEPT ![c] = "reap"]
  /\ UNCHANGED <<redis, status, server, claim, caller, history>>

ReadAliveFails(c) ==
  /\ Executing(c)
  /\ reapStep[c] = "read"
  /\ Fault
  /\ owners' = [owners EXCEPT ![c] = Nobody]
  /\ reapStep' = [reapStep EXCEPT ![c] = "reap"]
  /\ UNCHANGED <<redis, status, server, claim, caller, absent, written, slips>>

\* Seeded bug: the lock is not released.
WaiterKeepsLock(r) ==
  LET c == ClientOf[r] IN
    /\ CallStep(r, "reaping", "waiting")
    /\ reapStep[c] = "reap"
    /\ owners[c] = Nobody
    /\ UNCHANGED <<redis, status, server, reaper, outcome, history>>

\* The reaping call gives the lock back and waits again.
WaiterReturns(r) ==
  LET c == ClientOf[r] IN
    /\ CallStep(r, "reaping", "waiting")
    /\ reapStep[c] = "reap"
    /\ owners[c] = Nobody
    /\ reapStep' = [reapStep EXCEPT ![c] = "idle"]
    /\ UNCHANGED <<redis, status, server, owners, claim, outcome, history>>

-----------------------------------------------------------------------------
\* kill -9 of a process: all its threads stop where they are.
Crash(p) ==
  /\ p \in Crashable
  /\ Executing(p)
  /\ status' = [status EXCEPT ![p] = "crashed"]
  /\ UNCHANGED <<redis, server, reaper, caller, history>>

ReapingStep(p) ==
  \/ FailBackPush(p) \/ FailBackExpire(p) \/ FailBackFails(p)
  \/ \E r \in Request : Claim(p, r) \/ ClaimFails(p, r)

HeartbeatStep(s) ==
  \/ Start(s) \/ ReadOwners(s) \/ Heartbeat(s) \/ HeartbeatFails(s)
  \/ TickEnds(s) \/ EntryExpires(s)

LoopStep(s) ==
  \/ Acquire(s) \/ AcquireReplyLost(s) \/ LoopExits(s)
  \/ \E r \in Request : Dispatch(s, r)

LifeStep(s) == Stop(s) \/ Shutdown(s) \/ Exit(s)

WorkStep(r) ==
  \/ Begin(r) \/ Finish(r) \/ PushAnswer(r) \/ ExpireAnswer(r) \/ Release(r)
  \/ RespondFails(r)

CallerStep(r) ==
  \/ Check(r) \/ Publish(r) \/ Receive(r) \/ TimeOut(r) \/ Close(r)
  \/ CallFails(r) \/ ResponseExpires(r)
  \/ SliceEnds(r) \/ WaiterReads(r) \/ WaiterSkips(r) \/ WaiterReturns(r)

Next ==
  \/ \E p \in Process : ReapingStep(p) \/ Crash(p)
  \/ \E s \in Server : HeartbeatStep(s) \/ LoopStep(s) \/ LifeStep(s)
  \/ \E r \in Request : WorkStep(r) \/ CallerStep(r)
  \/ \E c \in Client : ReadAlive(c) \/ ReadAliveFails(c)

Spec == Init /\ [][Next]_vars

-----------------------------------------------------------------------------
(* What the scheduler owes the threads.  Nothing is owed to start(), stop(), *)
(* crashes, failing calls or timeouts.                                       *)

ReapProgress(p) ==
  \/ FailBackPush(p) \/ FailBackExpire(p)
  \/ \E r \in Request : Claim(p, r)

LoopProgress(s) ==
  \/ Acquire(s) \/ LoopExits(s)
  \/ \E r \in Request : Dispatch(s, r)

TickProgress(s) == ReadOwners(s) \/ Heartbeat(s) \/ TickEnds(s)

\* Handlers terminate.
WorkProgress(r) ==
  \/ Begin(r) \/ Finish(r) \/ PushAnswer(r) \/ ExpireAnswer(r) \/ Release(r)

CallProgress(r) ==
  \/ Publish(r) \/ Receive(r) \/ Close(r)
  \/ WaiterReads(r) \/ WaiterSkips(r) \/ WaiterReturns(r)

\* The clock of Redis runs: an entry nobody refreshes any more expires.
Unrefreshed(s) == status[s] \in {"down", "crashed"} \/ reapStep[s] = "done"
ClockStep(s)   == Unrefreshed(s) /\ EntryExpires(s)

\* A waiting call is sure to find its client quiet only while no server lives.
QuietSlice(r) == alive = {} /\ SliceEnds(r)

Fairness ==
  /\ \A p \in Process : WF_vars(ReapProgress(p))
  /\ \A s \in Server :
       /\ WF_vars(TickProgress(s))
       /\ WF_vars(LoopProgress(s))
       /\ WF_vars(Shutdown(s) \/ Exit(s))
       /\ WF_vars(ClockStep(s))
  /\ \A r \in Request :
       /\ WF_vars(WorkProgress(r))
       /\ WF_vars(CallProgress(r))
       /\ WF_vars(QuietSlice(r))
  /\ \A c \in Client : WF_vars(ReadAlive(c))

FairSpec == Spec /\ Fairness

-----------------------------------------------------------------------------
(* Safety.                                                                 *)

Awaited(r)     == call[r] \in {"waiting", "quiet", "reaping"}
Queued(r)      == r \in Range(queue[MethodOf[r]])
Has(r, x)      == x \in Range(written[r])
Claiming(p, r) == reapStep[p] = "push" /\ claim[p] = r
Slipped(r, steps) == \E step \in steps : <<step, r>> \in slips

\* A call is told its server was lost only if that server had no live entry
\* at some time after it began to serve: no start-up, and no order in which
\* a reaper's two reads fall among the owner's first steps, can make a server
\* that never missed a heartbeat look dead.
LostOnlyIfAbsent ==
  \A r \in Request : Has(r, "lost") => holder[r] \in absent

\* Nobody who could have answered is called lost: while no Redis call has
\* failed, a server that is not stopped and never late with its heartbeats by
\* the TTL is failed back only if it was killed, whatever the others do and
\* whenever its start falls into their reaping.
LostMeansDead ==
  \A r \in Request :
    /\ Has(r, "lost")
    /\ faults = 0
    /\ holder[r] \notin Stoppable \cup Stallable
    => status[holder[r]] = "crashed"

\* However many servers and clients see the same orphan, at most one error is
\* ever written for it, and it is never written twice.
AtMostOneLost ==
  \A r \in Request : \A i, j \in DOMAIN written[r] :
    written[r][i] = "lost" /\ written[r][j] = "lost" => i = j

\* The caller gets the response that was written first: an answer pushed
\* before its owner was reaped beats the error, and a server that answers
\* after it was failed back cannot turn the error into a result.
FirstWriteWins ==
  \A r \in Request :
    outcome[r] \in Response => written[r] # <<>> /\ outcome[r] = written[r][1]

\* A call that was refused for want of a server is never run: a server that
\* comes up a moment later finds nothing of it.
RefusedNeverRuns ==
  \A r \in Request :
    outcome[r] = "refused" => ~Queued(r) /\ holder[r] = NoServer

\* A reaper was killed between its claim on r and its push; it was not the
\* server that held r.
ClaimDied(r) ==
  \E p \in Process \ {holder[r]} : status[p] = "crashed" /\ Claiming(p, r)

\* A call that waits has its request in its queue, in the in-flight hash, in
\* the hands of a reaper that lives and is about to push the error, or it has
\* been responded to -- unless the reaper's claim was lost with a failed Redis
\* call, or the reaper was killed while it held the claim.  The death of its
\* own server alone, wherever it falls, never loses a request.
NoneVanishes ==
  \A r \in Request : Awaited(r) =>
    \/ Queued(r)
    \/ inflight[r] # NoServer
    \/ written[r] # <<>>
    \/ \E p \in Process : Executing(p) /\ Claiming(p, r)
    \/ ClaimDied(r)
    \/ Slipped(r, {"claim", "failback"})

\* An in-flight entry of a server that still runs is one a worker of it is
\* busy with: nothing but a swallowed failure leaves an entry behind.  It is
\* what makes "the owner is alive" mean "an answer will come".
InflightIsBusy ==
  \A r \in Request :
    /\ inflight[r] # NoServer
    /\ status[inflight[r]] # "crashed"
    => \/ work[r] \notin {"none", "done"}
       \/ Slipped(r, {"acquire", "submit", "push", "expire", "release"})

\* A response nobody will read does not stay in Redis: once its call is over,
\* or its client was killed while it waited, the queue is gone or has a TTL --
\* unless a writer is, or was killed, between its push and its expiry, or the
\* setting of the expiry failed.
UnreadExpires ==
  \A r \in Request :
    /\ call[r] = "closed" \/ status[ClientOf[r]] = "crashed"
    /\ responses[r] # <<>>
    /\ work[r] # "expire"
    /\ \A p \in Process : claim[p] # r
    /\ ~Slipped(r, {"expire", "failback_expire"})
    => r \in expiring

\* A request is handed to one server, once: neither reaping nor a failed call
\* ever runs it again.
TakenOnce ==
  [][\A r \in Request :
       holder[r] # NoServer => holder'[r] = holder[r] /\ ~Queued(r)']_vars

-----------------------------------------------------------------------------
(* What the comments and docs promise and the code does not keep.          *)

\* exceptions.py: "stopped heartbeating before it responded, so no response
\* will ever come".  The heartbeats of a server that is stopped end before
\* its handlers do.
LostIsFinal ==
  \A r \in Request : \A i, j \in DOMAIN written[r] :
    written[r][i] = "lost" /\ written[r][j] = "answer" => j < i

\* reaping.py: "push a server-lost error to its response queue so the client
\* stops waiting"; taking-requests.md: "a crash can never lose a request
\* without a trace".  A reaper holds its claim in memory only.
CrashLeavesTrace ==
  \A r \in Request : Awaited(r) =>
    \/ Queued(r)
    \/ inflight[r] # NoServer
    \/ written[r] # <<>>
    \/ \E p \in Process : Executing(p) /\ Claiming(p, r)

\* server.py: "this server must be in it [the live set] before it owns
\* anything".  A first heartbeat that fails is logged, and start() goes on.
\* Meant for deployments in which no entry of a running server expires.
TakerIsAlive ==
  [][\A r \in Request :
       holder[r] = NoServer /\ holder'[r] # NoServer => holder'[r] \in alive]_vars

-----------------------------------------------------------------------------
(* Liveness.                                                               *)

\* What the code cannot recover from: the reply of the acquire script or the
\* push of an answer lost under an owner that lives on, or a reaper that
\* fails or dies between its claim and its push.
Forfeited(r) ==
  \/ Slipped(r, {"acquire", "push", "claim", "failback"})
  \/ \E p \in Process : status[p] = "crashed" /\ Claiming(p, r)

\* A call whose request was taken returns, whether its server answers, stops
\* or dies, and whether a server or only the waiting client is left to notice.
TakenCallReturns ==
  \A r \in Request :
    Awaited(r) /\ inflight[r] # NoServer
      ~> \/ call[r] = "closed"
         \/ status[ClientOf[r]] = "crashed"
         \/ Forfeited(r)

\* stop() returns: no thread of the server waits for another for ever.
StopReturns ==
  \A s \in Server : status[s] = "stopping" ~> status[s] \in {"down", "crashed"}
=============================================================================
