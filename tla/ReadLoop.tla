------------------------------ MODULE ReadLoop ------------------------------
(***************************************************************************)
(* The inside of one server instance: the read loop, the doorbell, the     *)
(* wake listener, the concurrency limiters, the pool and its workers,      *)
(* methods registered and unregistered while it runs, stop() and start()   *)
(* again.  AnyCall has what servers and clients do to each other; here     *)
(* Redis is a set of queued requests and the connection of one             *)
(* subscription.  A client's PUBLISH is a command of its own and may never *)
(* come; no other call to Redis fails but those of the subscription.       *)
(*                                                                         *)
(* One thread calls start() and stop(), one registers methods.  Each time  *)
(* a method is registered it gets a new limiter: limiters are numbered.    *)
(* The heartbeat loop is in AnyCall; here it only occupies a thread.       *)
(***************************************************************************)
EXTENDS Integers, Sequences, FiniteSets, Functions

CONSTANTS
  Request, Method,
  MethodOf,    \* the method a request calls
  Cap,         \* max_concurrency of each method
  GlobalCap,   \* max_concurrency of the server; no cap is a large one
  Early,       \* the methods registered before anything else happens
  Changing,    \* the methods registered late, or anew
  Leaving,     \* the methods that may be unregistered
  MaxStarts,   \* bound on the calls of start()
  MaxLimiters  \* bound on registrations, Early's included

ASSUME LoopAssumption ==
  /\ IsFiniteSet(Request)
  /\ IsFiniteSet(Method)
  /\ MethodOf \in [Request -> Method]
  /\ Cap \in [Method -> Nat \ {0}]
  /\ GlobalCap \in Nat \ {0}
  /\ Early \subseteq Method
  /\ Changing \subseteq Method
  /\ Leaving \subseteq Method
  /\ MaxStarts \in Nat
  /\ MaxLimiters \in Nat
  /\ Cardinality(Early) <= MaxLimiters

VARIABLES
  at,          \* how far each request is
  mine,        \* the limiter a request was dispatched under, 0 for none
  handlers,    \* method_handlers
  limiter,     \* _method_limiters: the limiter of a method, 0 for none
  made,        \* limiters made so far
  inUse,       \* _in_use of each limiter
  globalInUse, \* _in_use of the server-wide limiter
  change,      \* a registration in progress: <<what, method>>
  rung,        \* the doorbell
  loop,        \* where the read loop is
  avail,       \* the methods the read loop saw room for
  ear,         \* where the wake listener is
  subscribed,  \* the methods whose channels it believes it listens to
  sent,        \* its (UN)SUBSCRIBEs Redis has not processed, the oldest first:
               \* what it listens to after each
  listening,   \* the methods whose channels Redis delivers to it
  message,     \* a wake it has not read yet
  owed,        \* requests pushed whose PUBLISH is to come, or never comes
  missed,      \* history: requests whose PUBLISH found the SUBSCRIBE sent and
               \* not processed, since the loop last looked
  life,        \* start() and stop()
  starts,      \* calls of start() so far
  pool,        \* submitted requests no thread has begun, oldest first
  sizedFor     \* the methods the pool was sized for: a thread for each request
               \* they may run at once, beside those of the three loops

requests  == <<at, mine>>
methods   == <<handlers, limiter, made, change>>
slots     == <<inUse, globalInUse>>
reader    == <<loop, avail>>
wakes     == <<listening, message, owed, missed>>
listener  == <<ear, subscribed, sent, wakes>>
lifecycle == <<life, starts, sizedFor>>
vars      == <<requests, methods, slots, rung, reader, listener, lifecycle, pool>>

Limiter == 1..MaxLimiters
InHand  == {"taken", "slot", "global", "submit"}
Stage   == {"new", "queued"} \cup InHand \cup
           {"pending", "running", "finished", "ringing", "done", "dropped"}
NoChange == <<"none">>

\* Dispatching holds a slot of a limiter from here on, until it is released.
HoldsSlot(r) ==
  at[r] \in {"global", "submit", "pending", "running", "finished", "dropped"}
HoldsGlobal(r) == HoldsSlot(r) /\ at[r] # "global"

TypeOK ==
  /\ at \in [Request -> Stage]
  /\ mine \in [Request -> {0} \cup Limiter]
  /\ handlers \subseteq Method
  /\ limiter \in [Method -> {0} \cup Limiter]
  /\ made \in {0} \cup Limiter
  /\ inUse \in [Limiter -> Nat]
  /\ globalInUse \in 0..GlobalCap
  /\ change \in {NoChange} \cup ({"add", "drop"} \X Method)
  /\ rung \in BOOLEAN
  /\ loop \in {"off", "look", "clear", "take", "wait", "dispatch"}
  /\ avail \subseteq Method
  /\ ear \in {"off", "tick", "ring"}
  /\ subscribed \subseteq Method
  /\ sent \in Seq(SUBSET Method)
  /\ listening \subseteq Method
  /\ message \in BOOLEAN
  /\ owed \subseteq Request
  /\ missed \subseteq Request
  /\ life \in {"down", "up", "stopping", "shutdown"}
  /\ starts \in 0..MaxStarts
  /\ pool \in Seq(Request)
  /\ sizedFor \subseteq Method

Init ==
  /\ at = [r \in Request |-> "new"]
  /\ mine = [r \in Request |-> 0]
  /\ handlers = Early
  /\ made = Cardinality(Early)
  /\ limiter \in [Method -> 0..made]
  /\ \A m \in Method : limiter[m] = 0 <=> m \notin Early
  /\ \A m, n \in Early : limiter[m] = limiter[n] => m = n
  /\ inUse = [l \in Limiter |-> 0]
  /\ globalInUse = 0
  /\ change = NoChange
  /\ rung = (Early # {})
  /\ loop = "off"
  /\ avail = {}
  /\ ear = "off"
  /\ subscribed = {}
  /\ sent = <<>>
  /\ listening = {}
  /\ message = FALSE
  /\ owed = {}
  /\ missed = {}
  /\ life = "down"
  /\ starts = 0
  /\ pool = <<>>
  /\ sizedFor = {}

Running == life = "up"

MovesTo(r, from, to) ==
  /\ at[r] = from
  /\ at' = [at EXCEPT ![r] = to]

\* LPUSH of a request.
Push(r) ==
  /\ MovesTo(r, "new", "queued")
  /\ owed' = owed \cup {r}
  /\ UNCHANGED <<mine, methods, slots, rung, reader, ear, subscribed, sent,
                 listening, message, missed, lifecycle, pool>>

\* PUBLISH on the wake channel, the second command of the pipeline: other
\* commands may come between, and a client may die there.
Wake(r) ==
  LET m == MethodOf[r] IN
    /\ r \in owed
    /\ owed' = owed \ {r}
    /\ message' = (message \/ m \in listening)
    /\ missed' = IF m \in subscribed \ listening THEN missed \cup {r} ELSE missed
    /\ UNCHANGED <<requests, methods, slots, rung, reader, ear, subscribed, sent,
                   listening, lifecycle, pool>>

-----------------------------------------------------------------------------
(* register() and unregister(): the handler first, then its limiter.       *)

Register(m) ==
  /\ change = NoChange
  /\ made < MaxLimiters
  /\ handlers' = handlers \cup {m}
  /\ change' = <<"add", m>>
  /\ UNCHANGED <<requests, limiter, made, slots, rung, reader, listener, lifecycle, pool>>

\* Seeded bug: a method that has a limiter keeps it, with its count reset.
LimiterReset(m) ==
  /\ change = <<"add", m>>
  /\ IF limiter[m] = 0
       THEN /\ made' = made + 1
            /\ limiter' = [limiter EXCEPT ![m] = made']
            /\ UNCHANGED inUse
       ELSE /\ inUse' = [inUse EXCEPT ![limiter[m]] = 0]
            /\ UNCHANGED <<made, limiter>>
  /\ rung' = TRUE
  /\ change' = NoChange
  /\ UNCHANGED <<requests, handlers, globalInUse, reader, listener, lifecycle, pool>>

LimiterMade(m) ==
  /\ change = <<"add", m>>
  /\ made' = made + 1
  /\ limiter' = [limiter EXCEPT ![m] = made']
  /\ rung' = TRUE
  /\ change' = NoChange
  /\ UNCHANGED <<requests, handlers, slots, reader, listener, lifecycle, pool>>

Unregister(m) ==
  /\ change = NoChange
  /\ m \in handlers
  /\ handlers' = handlers \ {m}
  /\ change' = <<"drop", m>>
  /\ UNCHANGED <<requests, limiter, made, slots, rung, reader, listener, lifecycle, pool>>

LimiterDropped(m) ==
  /\ change = <<"drop", m>>
  /\ limiter' = [limiter EXCEPT ![m] = 0]
  /\ rung' = TRUE
  /\ change' = NoChange
  /\ UNCHANGED <<requests, handlers, made, slots, reader, listener, lifecycle, pool>>

-----------------------------------------------------------------------------
(* start() and stop().                                                     *)

Start ==
  /\ life = "down"
  /\ starts < MaxStarts
  /\ starts' = starts + 1
  /\ life' = "up"
  /\ sizedFor' = handlers
  /\ loop' = "look"
  /\ ear' = "tick"
  /\ UNCHANGED <<requests, methods, slots, rung, avail, subscribed, sent, wakes,
                 pool>>

StopBegins ==
  /\ life = "up"
  /\ life' = "stopping"
  /\ UNCHANGED <<requests, methods, slots, rung, reader, listener, starts,
                 pool, sizedFor>>

\* stop() rings and closes the pool to new work.
Shutdown ==
  /\ life = "stopping"
  /\ life' = "shutdown"
  /\ rung' = TRUE
  /\ UNCHANGED <<requests, methods, slots, reader, listener, starts, pool,
                 sizedFor>>

OnThread(r) == at[r] \in {"running", "finished", "ringing"}

\* shutdown(wait=True) returns: the pool is empty and every thread has ended.
StopDone ==
  /\ life = "shutdown"
  /\ loop = "off" /\ ear = "off"
  /\ pool = <<>>
  /\ \A r \in Request : ~OnThread(r)
  /\ life' = "down"
  /\ UNCHANGED <<requests, methods, slots, rung, reader, listener, starts,
                 pool, sizedFor>>

-----------------------------------------------------------------------------
(* The read loop.                                                          *)

HasRoom(m) == limiter[m] = 0 \/ inUse[limiter[m]] < Cap[m]

MethodsWithCapacity ==
  IF globalInUse >= GlobalCap THEN {} ELSE {m \in handlers : HasRoom(m)}

\* The handlers are copied and the limiters asked before the bell is cleared.
\* What the loop saw may be stale at once, so the reads are one step.
Look ==
  /\ loop = "look"
  /\ Running
  /\ avail' = MethodsWithCapacity
  /\ loop' = IF avail' = {} THEN "wait" ELSE "clear"
  /\ missed' = {}
  /\ UNCHANGED <<requests, methods, slots, rung, ear, subscribed, sent, listening,
                 message, owed, lifecycle, pool>>

LoopExits ==
  /\ loop = "look"
  /\ ~Running
  /\ loop' = "off"
  /\ UNCHANGED <<requests, methods, slots, rung, avail, listener, lifecycle, pool>>

Clear ==
  /\ loop = "clear"
  /\ rung' = FALSE
  /\ loop' = "take"
  /\ UNCHANGED <<requests, methods, slots, avail, listener, lifecycle, pool>>

Waiting(ms) == {r \in Request : at[r] = "queued" /\ MethodOf[r] \in ms}

\* The acquire script takes a request of any queue it is given.
TakeOne(r) ==
  /\ loop = "take"
  /\ r \in Waiting(avail)
  /\ MovesTo(r, "queued", "taken")
  /\ loop' = "dispatch"
  /\ avail' = {}
  /\ UNCHANGED <<mine, methods, slots, rung, listener, lifecycle, pool>>

TakeNothing ==
  /\ loop = "take"
  /\ Waiting(avail) = {}
  /\ loop' = "wait"
  /\ UNCHANGED <<requests, methods, slots, rung, avail, listener, lifecycle, pool>>

\* Seeded bug: a wait has no fallback, only a ring ends it.
WaitForRing ==
  /\ loop = "wait"
  /\ rung
  /\ rung' = FALSE
  /\ loop' = "look"
  /\ avail' = {}
  /\ UNCHANGED <<requests, methods, slots, listener, lifecycle, pool>>

\* The bell is rung, or the fallback is over: either way it is silent again.
WaitEnds ==
  /\ loop = "wait"
  /\ rung' = FALSE
  /\ loop' = "look"
  /\ avail' = {}
  /\ UNCHANGED <<requests, methods, slots, listener, lifecycle, pool>>

\* _dispatch_message: the limiter the method has now, maybe not the one the
\* loop asked.
FindLimiter(r) ==
  /\ loop = "dispatch"
  /\ mine' = [mine EXCEPT ![r] = limiter[MethodOf[r]]]
  /\ MovesTo(r, "taken", "slot")
  /\ UNCHANGED <<methods, slots, rung, reader, listener, lifecycle, pool>>

TakeSlot(r) ==
  /\ MovesTo(r, "slot", "global")
  /\ IF mine[r] = 0
       THEN UNCHANGED inUse
       ELSE /\ inUse[mine[r]] < Cap[MethodOf[r]]
            /\ inUse' = [inUse EXCEPT ![mine[r]] = @ + 1]
  /\ UNCHANGED <<mine, methods, globalInUse, rung, reader, listener, lifecycle, pool>>

TakeGlobalSlot(r) ==
  /\ MovesTo(r, "global", "submit")
  /\ globalInUse < GlobalCap
  /\ globalInUse' = globalInUse + 1
  /\ UNCHANGED <<mine, methods, inUse, rung, reader, listener, lifecycle, pool>>

\* submit() raises once the pool is shut down: the loop goes on, with the
\* request and its slots lost.  (The handler is the one in the loop's snapshot,
\* so a method unregistered since then still runs.)
Submit(r) ==
  /\ IF life = "shutdown"
       THEN MovesTo(r, "submit", "dropped") /\ UNCHANGED pool
       ELSE MovesTo(r, "submit", "pending") /\ pool' = Append(pool, r)
  /\ loop' = "look"
  /\ UNCHANGED <<mine, methods, slots, rung, avail, listener, lifecycle>>

-----------------------------------------------------------------------------
(* The workers.                                                            *)

\* Threads of the pool that no loop occupies.
FreeOfLoops ==
  FoldFunctionOnSet(+, 0, Cap, sizedFor)
  + (IF loop = "off" THEN 1 ELSE 0) + (IF ear = "off" THEN 1 ELSE 0)

Begin(r) ==
  /\ pool # <<>>
  /\ r = Head(pool)
  /\ Cardinality({q \in Request : OnThread(q)}) < FreeOfLoops
  /\ pool' = Tail(pool)
  /\ MovesTo(r, "pending", "running")
  /\ UNCHANGED <<mine, methods, slots, rung, reader, listener, lifecycle>>

Finish(r) ==
  /\ MovesTo(r, "running", "finished")
  /\ UNCHANGED <<mine, methods, slots, rung, reader, listener, lifecycle, pool>>

\* Seeded bug: the worker releases the limiter its method has by now.
FreeCurrentSlot(r) ==
  LET l == limiter[MethodOf[r]] IN
    /\ MovesTo(r, "finished", "ringing")
    /\ globalInUse' = globalInUse - 1
    /\ inUse' = IF l = 0 THEN inUse ELSE [inUse EXCEPT ![l] = @ - 1]
    /\ mine' = [mine EXCEPT ![r] = 0]
    /\ UNCHANGED <<methods, rung, reader, listener, lifecycle, pool>>

\* Seeded bug: a request without a limiter of its own frees nothing.
FreeOwnSlotOnly(r) ==
  /\ MovesTo(r, "finished", "ringing")
  /\ IF mine[r] = 0
       THEN UNCHANGED slots
       ELSE /\ globalInUse' = globalInUse - 1
            /\ inUse' = [inUse EXCEPT ![mine[r]] = @ - 1]
  /\ mine' = [mine EXCEPT ![r] = 0]
  /\ UNCHANGED <<methods, rung, reader, listener, lifecycle, pool>>

\* The two releases are one step: the ring that makes use of them follows.
FreeSlots(r) ==
  /\ MovesTo(r, "finished", "ringing")
  /\ globalInUse' = globalInUse - 1
  /\ inUse' = IF mine[r] = 0 THEN inUse ELSE [inUse EXCEPT ![mine[r]] = @ - 1]
  /\ mine' = [mine EXCEPT ![r] = 0]
  /\ UNCHANGED <<methods, rung, reader, listener, lifecycle, pool>>

RingWhenFreed(r) ==
  /\ MovesTo(r, "ringing", "done")
  /\ rung' = TRUE
  /\ UNCHANGED <<mine, methods, slots, reader, listener, lifecycle, pool>>

-----------------------------------------------------------------------------
(* The wake listener.                                                      *)

\* What is sent when handlers changed: SUBSCRIBE to the channels that are new,
\* then UNSUBSCRIBE from those that are not wanted any more.
Commands ==
  (IF handlers \subseteq subscribed THEN <<>> ELSE <<subscribed \cup handlers>>)
  \o (IF subscribed \subseteq handlers THEN <<>> ELSE <<handlers>>)

\* Seeded bug: a new subscription does not ring the bell.
SubscribeQuietly ==
  /\ ear = "tick"
  /\ Running
  /\ subscribed # handlers
  /\ sent' = sent \o Commands
  /\ subscribed' = handlers
  /\ UNCHANGED <<requests, methods, slots, rung, reader, ear, wakes, lifecycle, pool>>

\* The commands are sent; no reply is waited for.
Subscribe ==
  /\ ear = "tick"
  /\ Running
  /\ subscribed # handlers
  /\ sent' = sent \o Commands
  /\ subscribed' = handlers
  /\ ear' = IF handlers \subseteq subscribed THEN "tick" ELSE "ring"
  /\ UNCHANGED <<requests, methods, slots, rung, reader, wakes, lifecycle, pool>>

\* Redis processes the oldest command of the subscription's connection.
RedisSubscribes ==
  /\ sent # <<>>
  /\ listening' = Head(sent)
  /\ sent' = Tail(sent)
  /\ UNCHANGED <<requests, methods, slots, rung, reader, ear, subscribed, message,
                 owed, missed, lifecycle, pool>>

\* A request may have come before the SUBSCRIBE was sent.
RingForNew ==
  /\ ear = "ring"
  /\ rung' = TRUE
  /\ ear' = "tick"
  /\ UNCHANGED <<requests, methods, slots, reader, subscribed, sent, wakes, lifecycle,
                 pool>>

\* With no channel wanted the listener sleeps and reads nothing.
Hear ==
  /\ ear = "tick"
  /\ subscribed # {}
  /\ message
  /\ message' = FALSE
  /\ rung' = TRUE
  /\ UNCHANGED <<requests, methods, slots, reader, ear, subscribed, sent, listening,
                 owed, missed, lifecycle, pool>>

\* The connection is closed: what was on its way in either direction is lost.
Disconnect ==
  /\ subscribed' = {}
  /\ sent' = <<>>
  /\ listening' = {}
  /\ message' = FALSE

\* A call of the subscription fails; the next tick connects anew.
EarFails ==
  /\ ear = "tick"
  /\ Disconnect
  /\ UNCHANGED <<requests, methods, slots, rung, reader, ear, owed, missed, lifecycle,
                 pool>>

EarExits ==
  /\ ear = "tick"
  /\ ~Running
  /\ ear' = "off"
  /\ Disconnect
  /\ UNCHANGED <<requests, methods, slots, rung, reader, owed, missed, lifecycle, pool>>

-----------------------------------------------------------------------------
Registration ==
  (\E m \in Changing : Register(m)) \/ (\E m \in Leaving : Unregister(m))
Registered == \E m \in Method : LimiterMade(m) \/ LimiterDropped(m)

LoopStep ==
  \/ Look \/ LoopExits \/ Clear \/ TakeNothing \/ WaitEnds
  \/ \E r \in Request : TakeOne(r) \/ FindLimiter(r) \/ TakeSlot(r)
                          \/ TakeGlobalSlot(r) \/ Submit(r)

WorkerStep(r) == Begin(r) \/ Finish(r) \/ FreeSlots(r) \/ RingWhenFreed(r)

EarStep == Subscribe \/ RingForNew \/ Hear \/ EarExits

StopStep == Shutdown \/ StopDone

Next ==
  \/ \E r \in Request : Push(r) \/ Wake(r) \/ WorkerStep(r)
  \/ RedisSubscribes
  \/ Registration \/ Registered
  \/ LoopStep \/ EarStep \/ EarFails
  \/ Start \/ StopBegins \/ StopStep

Spec == Init /\ [][Next]_vars

\* Every thread goes on; nobody owes a push, its PUBLISH, the processing of a
\* SUBSCRIBE, a registration, start() or stop().
Fairness ==
  /\ WF_vars(LoopStep)
  /\ WF_vars(EarStep)
  /\ WF_vars(StopStep)
  /\ WF_vars(Registered)
  /\ \A r \in Request : WF_vars(WorkerStep(r))

FairSpec == Spec /\ Fairness

-----------------------------------------------------------------------------
(* Safety.                                                                 *)

Processed(m) == {r \in Request : MethodOf[r] = m /\ at[r] = "running"}

\* A method keeps its cap as long as it has the limiter it began with: however
\* others are registered and unregistered, the server stopped and started again
\* and requests dropped on the way, no more of its requests run at once.  (One
\* that was registered anew runs that many more.)
HasFirstLimiter(m) == limiter[m] \in 1..Cardinality(Early)
CapUntilRegisteredAnew ==
  \A m \in Method : HasFirstLimiter(m) => Cardinality(Processed(m)) <= Cap[m]

\* The counters say who holds a slot, through registrations, unregistrations
\* and restarts: no slot is freed twice, and none is lost but with a request
\* whose submit() was refused.
SlotsAccounted ==
  /\ \A l \in Limiter :
       inUse[l] = Cardinality({r \in Request : mine[r] = l /\ HoldsSlot(r)})
  /\ globalInUse = Cardinality({r \in Request : HoldsGlobal(r)})

Asleep == loop = "wait" /\ ~rung
\* Nothing is about to ring the bell.
Silent ==
  /\ ~message
  /\ ear = "tick"
  /\ change = NoChange
  /\ \A r \in Request : at[r] # "ringing"

\* The loop does not sleep while a request waits for a method it saw room for
\* and whose channel it listens to: a wake that comes between its look at the
\* queues and its wait is kept, and so is one that came before the SUBSCRIBE
\* was sent.  Two cases are left to the fallback: the request's PUBLISH has
\* not come, or it came after the SUBSCRIBE was sent and before Redis had
\* processed it.
NoMissedWake ==
  Asleep /\ Silent => Waiting(avail \cap subscribed) \subseteq owed \cup missed

-----------------------------------------------------------------------------
(* Liveness.                                                               *)

\* Slots lost to a refused submit(), or a pool sized for no method at all.
Crippled == sizedFor = {} \/ \E r \in Request : at[r] = "dropped"

\* A queued request of a registered method is taken and handled, although
\* wakes may be lost at any time.
QueuedIsServed ==
  \A r \in Request :
    at[r] = "queued" /\ MethodOf[r] \in handlers /\ Running
      ~> at[r] = "done" \/ MethodOf[r] \notin handlers \/ ~Running \/ Crippled

\* stop() returns: the loop gets out of its wait or its limiter, the workers
\* drain the pool.
StopReturns == life = "stopping" ~> life = "down"

-----------------------------------------------------------------------------
(* What the comments promise and the code does not keep.                   *)

\* server.py of register(): "the read loop covers this queue on its next
\* iteration".  It takes the request; a pool sized before has no thread for it.
TakenIsHandled == \A r \in Request : at[r] = "taken" ~> at[r] \in {"done", "dropped"}
=============================================================================
