# AnyCall in TLA+

AnyCall is remote procedure calls over Redis: a client pushes a request on a
list, a server pops it, runs a handler and pushes the response on a list of the
request's own. Servers heartbeat into a sorted set, record in a hash the
requests they hold, and whoever notices that an owner has stopped heartbeating
fails its requests back to their callers. The protocol has no coordinator:
what makes it correct is the order of a few Redis commands issued by threads of
different processes, any of which may die between two of them. These modules
model that protocol, the inside of a server, what a call carries, the time a
lost call takes to be noticed, and the visualizer that watches it all. They are
model-checked on small deployments; their safety is proved for deployments of
any size.

The Python implementation (`src/implementations/python/lib/src/anycall/`) is
the reference; paths below are relative to it.

## 1. The system

| Component | State | Operations | Talks to |
|---|---|---|---|
| Redis keys and scripts (`redis_adapter.py`, `queues.py`) | request queues, `anycall:inflight`, `anycall:servers:alive`, response queues with a TTL | push and wake, acquire script, respond pipeline, HDEL, heartbeat script, counts, delete | everybody |
| Server: life and heartbeat (`server.py`) | `_running`, the pool, the heartbeat thread | `start`, `_heartbeat_tick`, `stop` | live set, reaping |
| Server: read loop and workers (`server.py`) | handlers, limiters, doorbell, worker threads | `_poll_all_queues`, `_dispatch_message`, `_process_message`, `register`, `unregister`, `_listen_for_wakes` | request queues, in-flight hash, response queues |
| Reaping (`reaping.py`) | the owners it read, the claim it holds; all in memory | `reap_orphans` | in-flight hash, response queues |
| Client (`client.py`) | the call, `_reap_lock`, `_last_activity` | `_call_impl`, `_await_response`, `_reap_if_quiet` | live set, request and response queues, reaping |
| Type registry (`registry.py`) | types by operation | `register`, `get` | the client |
| Responses, serialization, errors | none | conversions | client and server |
| Java library | as the Python one | as the Python one, with timeouts on reaping commands | the same keys |
| Visualizer (`tools/visualizer`) | last snapshot, last heartbeat seen | snapshot, diff, estimate | reads all keys |

What is hard about each, and what makes it correct:

- *Redis and reaping.* The owners and the live set are two reads, the claim and
  the error two writes, several reapers run at once. Correct: only owners that
  were really absent are reaped; at most one error per request; the caller gets
  what was written first; a request loses its last trace only with a reaper's
  failed call or its death.
- *Server.* Three threads and a pool against `stop()`; exceptions that are
  logged and swallowed with a request in hand. Correct: an in-flight entry of a
  live server means a worker is busy with it; `stop()` returns.
- *Client.* Timeouts that race answers; a lock shared by calls; nobody else
  left alive. Correct: a call whose request was taken returns; an unread
  response expires, unless its writer died or failed before it could say so.
- *Read loop.* A doorbell that is cleared and rung by different threads,
  limiters read before they are acquired and replaced while they are held, a
  pool that is shut down under the loop, a subscription that is sent and not
  awaited. Correct: no wake is missed but where a fallback is known to make up
  for it, a queued request is handled, a method's requests stay within its cap,
  no slot is lost.
- *Registry and submission.* A type is looked up and then stored, a depth is
  read and then a request pushed, by threads that share a client; a request is
  parsed by a Lua script and again by a server, which do not read the same
  requests. Correct: a registered type is only replaced by one registered at
  the same time; the limit is passed by no more than the callers that race; an
  entry made by one parser is removed whatever the other makes of it; whoever
  can be told is told.
- *Time.* A heartbeat period against a TTL, slices of a wait against its
  timeout, a quiet timer that several calls reset. Correct: a server that beats
  is never reaped, one that does not is reaped in the time the visualizer
  announces, a timeout is kept.
- *Visualizer.* A snapshot in several reads of what changes meanwhile, compared
  with the last one; tables rebuilt under the user's hands. Correct: no server
  that stays is called gone in the log and nothing is told twice, a wrong table
  is short-lived, a selection stays on its rows.

`PROJECT.json` lists every hazard at its line, with the properties that cover
it or the reason none does yet.

## 2. The modules

| Module | What it is |
|---|---|
| `AnyCall` | the protocol: state, one action per Redis command or script of a thread, fairness, properties |
| `CallContract` | what a call is promised, without queues, heartbeats or Redis |
| `AnyCallInv` | the inductive invariant of `AnyCall`, in named parts; `AnyCall` as an implementation of `CallContract` |
| `AnyCallProofs` | theorems about `AnyCall`: its invariant, and the lemmas the next three modules share |
| `ContractProofs` | that `AnyCall` implements `CallContract`, and what follows from the contract |
| `ResidueProofs` | what `AnyCall` leaves behind in Redis |
| `PromiseProofs` | servers that are only ever killed: what holds of them, and with them of the comments that findings 1 and 3 refute |
| `ReadLoop` | the inside of one server instance: read loop, doorbell, limiters, pool, wake listener, registration at run time, `start()` again after `stop()` |
| `ReadLoopProofs` | theorems about `ReadLoop` |
| `Exchange` | what a call carries: the type registry, the depth limit, the envelope of a request, the address of a response |
| `ExchangeProofs` | theorems about `Exchange` |
| `ReapWindow` | heartbeats, slices, the quiet timer and timeouts with a clock |
| `ReapWindowProofs` | theorems about `ReapWindow` |
| `Visualizer` | the poller, its log and its window, composed with `AnyCall` |
| `VisualizerInv` | the inductive invariant of `Visualizer`, in named parts |
| `VisualizerProofs` | theorems about `Visualizer` |
| `MCAnyCall`, `MCReadLoop`, `MCExchange`, `MCReapWindow`, `MCVisualizer` | small instances for TLC: model values, the functions of a deployment, symmetry |

How they fit: `AnyCall` is the composition of servers, clients, reapers and
Redis, and implements `CallContract`. `Visualizer` EXTENDS it and adds a reader:
each step is one of the watcher, or one of `AnyCall` that leaves the watcher
alone. `ReadLoop`, `Exchange` and `ReapWindow` each open one thing that
`AnyCall` keeps closed, and keep closed what `AnyCall` opens: `AnyCall` lets any
server that runs take any request it serves, `ReadLoop` says when a server
really gets to it; a request is atomic there and has a shape in `Exchange`; an
entry may expire there at any time that heartbeats allow, and at a moment in
`ReapWindow`. They share no variables.

### `AnyCall`: state

| Variable | Code |
|---|---|
| `queue` | `anycall:requests:<method>` |
| `inflight` | `anycall:inflight`, `NoServer` where a request has no entry |
| `alive` | the members of `anycall:servers:alive` within the TTL |
| `responses`, `expiring` | `anycall:responses:<id>`; whether the key has a TTL |
| `status` | `start()`, `stop()` and the death of a process; `stopping` is after `_running = False`, `shutdown` after `ThreadPoolExecutor.shutdown` has set its flag |
| `loop` | the thread of `_poll_all_queues`: looking, or with a request in hand |
| `work`, `holder` | how far the server that popped a request is, and which it is |
| `reapStep`, `owners`, `claim` | where a heartbeat tick or a waiter's reaping is, the owners it still has to deal with, the entry it removed |
| `call`, `outcome` | where the thread of a call is, what it returns or raises |

`absent`, `written`, `slips` and `faults` are history: servers that ran outside
the live set, every response pushed, the failed steps whose exception is
swallowed, and the count of faults. No guard reads them but the bound on
`faults`.

### `AnyCall`: actions

*Heartbeat and reaping.* `Start` and the first tick run before any thread
(`start`). A tick is `ReadOwners` (HGETALL), `Heartbeat` (the script: refresh,
prune, read), one `Claim` per orphan (HDEL) followed by `FailBackPush` and
`FailBackExpire`, and `TickEnds`. Any of them may fail: `HeartbeatFails` ends
the tick, `ClaimFails` and `FailBackFails` go on with the next orphan. A wait
whose slice ends empty (`SliceEnds`) takes the lock and reads the owners
(`WaiterReads`), then `ReadAlive`, the same claims, and `WaiterReturns`
(unlock); with the lock busy, nothing in flight or a failed read it waits on
(`WaiterSkips`).

*Server.* `Acquire` (the script, from any of its queues), `Dispatch` (submit to
the pool, which raises after shutdown), `Begin`, `Finish`, then the pipeline of
`respond`, which is not a transaction: `PushAnswer`, `ExpireAnswer`, `Release`.
`AcquireReplyLost` and `RespondFails` are the failures the loop and the worker
swallow. `Stop`, `Shutdown`, `Exit` are `stop()`.

*Client.* `Check`, `Publish`, `Receive`, `TimeOut`, `Close`, and `CallFails` for
an error of any of its commands.

*Environment.* `Crash` kills a process with all its threads. `EntryExpires` and
`ResponseExpires` are Redis's clock.

### `AnyCall`: abstractions

- Time is not counted. An entry of the live set expires only when nobody is
  bound to refresh it (the server is dead or down, its heartbeat thread has
  returned, or it is in `Stallable`: a deployment whose heartbeats may be late
  by the TTL). A slice of a wait may end whenever the response queue is empty,
  which covers every value of the quiet timer.
- A response is an answer or a lost-server error; results and errors of a
  handler are both answers.
- The claims of one tick are taken in any order: a dict has an order, the model
  does not rely on it.
- `ResponseExpires` does not touch the queue of a call that still waits: that
  call pops within its wait, the TTL is 60 s.
- The pipeline of `push_and_wake` is its push: the wake is a hint to a doorbell
  that this module does not have.
- A Redis call that raises has either taken effect or not, and a command is
  executed once. `uv.lock` pins redis-py 8.0.0, whose clients retry by default;
  whether that reaches the clients `core.py` builds from a URL, which set
  nothing about it, is decided there. If it does, a command whose reply was lost
  runs again. An LPUSH of a request then puts it in its queue twice and it may
  be run twice, and one of an error writes it twice: `TakenOnce`,
  `AtMostOneLost` and the invariants under them (`QueueInv`, `EntryStaysGone`,
  `LostInv`) would not hold, nor would `DepthBounded` count the copies. An HDEL
  that took effect returns 0 the second time, so the claim is lost, as it is
  with the slip "claim". The acquire script takes a second request, as with the
  slip "acquire". The heartbeat script, EXPIRE and DEL may run twice without
  harm.

Left out of `AnyCall`: concurrency limits, the doorbell and the wake listener
(they only delay `Acquire`), methods registered at run time, requests that do
not parse, the queue-depth limit, starting an instance again after `stop()`.
`ReadLoop` and `Exchange` have these.

### `CallContract`

A request is asked, taken by one server, and has one verdict: an answer, or
"lost", which is allowed only if its server lapsed. A call is refused before it
was asked, returns the verdict, times out if it may, or breaks with a Redis
error. `AnyCallInv!Contract` maps it: `asked` is what was queued or taken,
`taker` is `holder`, `lapsed` is `absent`, `verdict` the first response written,
`result` is `outcome`. A Redis error may replace an outcome the call already
had: the `delete` in the `finally` block comes after the result is decided
(`client.py:338-339`).

### `ReadLoop`: state and actions

| Variable | Code | Actions |
|---|---|---|
| `at`, `mine` | where a request is, the `method_limiter` it was dispatched with | `Push` (LPUSH), then the loop's and the worker's steps |
| `handlers`, `limiter`, `made`, `change` | `method_handlers`, `_method_limiters`; two writes per registration | `Register`, `LimiterMade`, `Unregister`, `LimiterDropped` |
| `inUse`, `globalInUse` | `_in_use` of each limiter | `TakeSlot`, `TakeGlobalSlot`, `FreeSlots` |
| `rung` | `Doorbell._rung` | `Clear`, `WaitEnds`, and whoever rings |
| `loop`, `avail` | the thread of `_poll_all_queues`, its `available_methods` | `Look`, `Clear`, `TakeOne` or `TakeNothing`, `WaitEnds`; `FindLimiter`, `TakeSlot`, `TakeGlobalSlot`, `Submit`; `LoopExits` |
| `ear`, `subscribed` | the thread of `_listen_for_wakes`, the set it keeps under that name | `Subscribe` (sends), `RingForNew`, `Hear`, `EarFails`, `EarExits` |
| `sent`, `listening`, `message` | its commands on their way to Redis, the channels Redis delivers to it, a wake on its way back | `RedisSubscribes`, `Wake` (PUBLISH); lost by `Disconnect` |
| `owed`, `missed` | requests whose PUBLISH has not come; history: requests whose PUBLISH came before Redis had processed the SUBSCRIBE | `Push`, `Wake`; `Look` forgets the missed |
| `life`, `starts`, `pool`, `sizedFor` | `_running`, the executor, its queue and size | `Start`, `StopBegins`, `Shutdown`, `StopDone`; `Begin`, `Finish`, `FreeSlots`, `RingWhenFreed` |

A registration that replaces a method's limiter leaves the old one to the
requests that hold it, so limiters are numbered. A wait may end at any time: the
fallback period is not counted. LPUSH and PUBLISH are two commands of a pipeline
without MULTI, so a client may die between them and its PUBLISH never come.
(UN)SUBSCRIBE is sent and no reply is read; the acquire script runs on another
connection and may overtake it. `Look` reads handlers and limiters in one step,
since the code treats them as stale anyway; a worker's two releases are one
step, as are a new limiter and its ring. The heartbeat thread only occupies a
thread of the pool. One thread calls `start()` and `stop()`, in turn, and one
registers; `MaxStarts` and `MaxLimiters` bound how often, `Changing` and
`Leaving` which methods.

### `Exchange`: state and actions

| Variable | Code | Actions |
|---|---|---|
| `registered`, `promised`, `overlaps` | `TypeRegistry._types` for one method; history: the types whose registration returned, the pairs registered at once | `Look`, `Store` |
| `default` | `_default_max_queue_depth` | `SetDefault` |
| `at`, `number`, `type`, `limit`, `outcome`, `used` | a thread in `_call_impl` or `register`, and its locals | `Begin`, `CheckDepth`, `Publish`, `Receive`, `TimeOut`, `Close` |
| `queue`, `inflight`, `responses` | the keys of the method in Redis | `SendForeign`, `Take`, `Respond`, `Reap` |
| `shape`, `stage` | how a request is written; how far a server is with it | `Take`, `Respond`, `RunExits` |

A foreign request has one of three shapes, for the four combinations the two
parsers can make of one (the well-formed one is the client's own): "extra" has a
field the server's `AnyCallRequest(**normalized)` rejects and the script
ignores; "snake" spells `request_id`, which the server accepts and the script
does not; "garbage" is no request. What a handler returns or raises, an argument
or a result of the wrong type, and an unparsable request all end in `Respond`; a
`BaseException` ends in `RunExits`. `Reap` and the refusal for want of a live
server are here whenever they may be, since `AnyCall` has the conditions.

Left out: responses that are not JSON or carry no payload (no server writes
one), the text of errors, the Java server's responses. `_dispatch_message` also
discards a request of a method without a handler (`server.py:455-462`), but the
handlers it looks in are the loop's own snapshot, from which the queues were
chosen, so the branch is never taken.

### `ReapWindow`: state and actions

| Variable | Code | Actions |
|---|---|---|
| `now` | the clock, of Redis and of the processes | `TimePasses` |
| `state`, `beat` | a server and the score of its entry | `Start`, `Tick`, `Stop`, `Leave` |
| `holder`, `inflight`, `response` | the owner, the entry, the response queue of a call | `Take`, `Answer`, `FailBack` within `Tick` and `SliceEnds` |
| `at`, `begun`, `slice` | a call, `deadline` less the timeout, the start of its present BRPOP | `Publish`, `Receive`, `SliceEnds` |
| `activity` | `_last_activity` of the client | `Publish`, `Receive`, `SliceEnds` |
| `late` | history: when a server outside the live set last answered | `Answer` |

Time is discrete and passes only when nothing is due: no heartbeat, no end of a
slice, no response to read. What is due takes no time. This is the timing the
comments of the code assume; that heartbeats come late and that steps take long
is `AnyCall`'s subject. The edges of the TTL are the code's: the heartbeat
script prunes scores up to `now - TTL`, `alive_members` counts from `now - TTL`,
so at that instant a server is dead to servers and alive to clients.

### `Visualizer`: state and actions

| Variable | Code | Actions |
|---|---|---|
| `poll`, `read` | where `collect_snapshot` is, the servers it has read | `ReadServers`, `ReadInflight`, `PollFails` |
| `connected`, `shown` | `ActivityTracker._prev`, what the tables show | `ReadInflight`, `PollFails` |
| `story`, `goneLog` | the lines about a request on this connection, the servers called gone last | `ReadInflight` |
| `selected`, `current` | the selection of the table of servers and its current row | `Click`, `RestoreRows` |

The rest of a poll (the queue lengths and previews, the listener counts, INFO)
is left out: each is read once and compared with itself. After a failed poll
the next one is compared with nothing, so `story` starts anew. That
`setCurrentItem` selects the row alone, and which rows a click selects, is Qt's
(`Click` is external).

## 3. What the runs check

| Run | Instance and bounds | Shows |
|---|---|---|
| `failures` | two servers, a client, one call: one server may be killed or stopped, the other's heartbeats may be late, the client may time out, one Redis call fails | `TypeOK`, `LostOnlyIfAbsent`, `AtMostOneLost`, `FirstWriteWins`, `RefusedNeverRuns`, `NoneVanishes`, `InflightIsBusy`, `UnreadExpires`, `KeepsContract` |
| `two_calls` | two servers, two calls of one client; one server may be killed | the safety properties across requests, `LostMeansDead`, `TakenOnce`, absence of deadlock |
| `live` | two servers, one call, no timeout; every process may be killed, one server stopped; under `FairSpec` | `TakenCallReturns`, `StopReturns`, and `UnreadExpires` where the client was killed as it waited |
| `late_answer` | one server stopped, nothing else | violates `LostIsFinal` |
| `lost_claim` | servers killed, nothing else | violates `CrashLeavesTrace` |
| `first_beat` | one fault, nothing else | violates `TakerIsAlive` |
| `loop` | two requests of one method with cap 1, a server-wide cap of 2, one re-registration, two starts | `TypeOK`, `CapUntilRegisteredAnew`, `SlotsAccounted`, `NoMissedWake` |
| `loop_live` | two requests of two methods, a server-wide cap of 1, one method registered late; under `FairSpec` | `NoMissedWake`, `QueuedIsServed`, `StopReturns` |
| `late_method` | no method at the start, one registered later; under `FairSpec` | violates `TakenIsHandled` |
| `exchange` | two threads with three uses between them, limits of 0 and 1, two types, one foreign request of any shape | `TypeOK`, `DepthBounded`, `TypesAgree`, `NothingLeftInflight`, `CallerIsTold` |
| `window` | two servers and two calls, one with a timeout; period 1, TTL 2, quiet time and slice 3, the clock to 10 | `TypeOK`, `ReapedByServer`, `ReapedByClient`, `EndsInTime`, `LivingIsNeverLost` |
| `visualizer` | the watcher over two servers, one of which serves the call and may be killed; polls may fail | `VisTypeOK`, `GoneIsTrue`, `ToldOnceInOrder`, `FalseGoneIsBrief`, `SelectionStays` |

Why these bounds: two servers and a client are three reapers, enough for races
on one orphan and for a reaper that is reaped; a request is independent of the
others except through the queue, the snapshot of a reaper and the reap lock,
which `two_calls` shares between two. A single fault reaches each of the places
where an exception is swallowed; the proofs have no bound on it. For the read
loop, two requests are one that runs or is dispatched and one that waits, two
limiters of a method are the old one and the new, and a server-wide cap of 1
under two methods is the smallest one at which the two limits differ. `loop` has
two starts and a method that comes and goes, `loop_live` one start and a method
that only comes (`Leaving` is empty), because the connection of the subscription
multiplies the states. In `exchange` two threads are the race, and three uses
let each of them register and one call, or two call while a third request was
abandoned. In `window` the clock runs past the last moment at which an orphan of
the first servers can still be due; the timeout of 4 is no multiple of a slice;
the proofs have no bound on the clock and leave the periods open. In
`visualizer` the server that serves nothing is there to appear and to reap.
`CHECK_DEADLOCK FALSE` is given only where every process may be dead or down, or
the bounds of uses and of the clock are reached. The requests are symmetric in
`two_calls` and `loop`; the liveness runs have no symmetry.

### The properties

- `LostOnlyIfAbsent`: an error names a server that was outside the live set at
  some time while it served. It depends on the order of the two reads and on
  the tick inside `start()`.
- `LostMeansDead`: the same as a promise to whoever deploys servers. While no
  Redis call has failed, a server that is not stopped and whose heartbeats are
  never late by the TTL is failed back only if it was killed.
- `AtMostOneLost`: the count HDEL returns makes the claim exclusive.
- `FirstWriteWins`: the caller gets the response written first, whoever wrote.
- `RefusedNeverRuns`: a call that raised `NoServerAvailableError` was never
  published ("Thrown before the request is published", `exceptions.py:56`), so
  that a server that comes up a moment later cannot run it.
- `NoneVanishes`: a waiting call has a trace somewhere: its queue entry, its
  in-flight entry, a response, or a reaper that is alive and about to push. What
  may lose it is named: a reaper's claim or push that fails, or a reaper, other
  than the server that held the request, killed between the two (finding 2). The
  death of the request's own server, wherever it falls, is not among them.
- `InflightIsBusy`: an entry of a server that runs is one it works on, or the
  leftover of a named failure (a lost acquire reply, a submit after shutdown, a
  broken pipeline). While it lasts, such an entry is what nobody reaps; the
  property says that nothing else leaves one.
- `UnreadExpires`: once its call is over or its client was killed, a response
  has a TTL. Excepted are a writer that is, or was killed, between its LPUSH and
  its EXPIRE, and an EXPIRE that failed: these leave a response in Redis for
  good.
- `TakenOnce`: at most one server, at most once, runs a request.
- `TakenCallReturns`: a call whose request was taken ends, though every server
  dies, unless the request is `Forfeited` (below).
- `StopReturns`: `stop()` returns (in both modules: in `AnyCall` with heartbeats
  and reaping, in `ReadLoop` with the waits, the limiters and the pool).
- `SlotsAccounted`: a limiter counts exactly its holders, although methods are
  registered anew under requests that hold the old limiter or none, so that no
  slot is freed twice, and none is lost except by a refused `submit()`.
- `CapUntilRegisteredAnew`: a method that still has the limiter it began with
  runs no more requests at once than its cap, whatever is registered beside it.
  Of one that is registered anew this does not hold (disagreement a).
- `NoMissedWake`: with nothing about to ring, the loop is not asleep on a
  request it had room for. It is what the order of clear, look and wait is for,
  and the ring after a subscription. Two cases are left to the fallback: the
  request's PUBLISH has not come (its client may have died), or it came after
  the SUBSCRIBE was sent and before Redis had processed it (disagreement b).
- `KeepsContract`: `AnyCall` implements `CallContract`, so that what a caller
  sees needs no knowledge of how requests are failed back.
- `QueuedIsServed`: a queued request of a registered method is handled, although
  wakes get lost, unless a slot was lost or the pool has no worker.
- `DepthBounded`: the depth of the queue passes the largest limit by less than
  the number of threads, beside the requests of others, although requests of
  calls that gave up stay in it.
- `TypesAgree`: what `register_type` promised is replaced only by a registration
  that overlapped it. Two that overlap do both succeed, with different types,
  which the docstring ("write-once", "no contention on same key") rules out by
  usage, not by code.
- `NothingLeftInflight`, `CallerIsTold`: the entry is removed under the id the
  script found, the response goes to the id the server found; the two agree
  unless the request has a field the server does not know.
- `ReapedByServer`, `ReapedByClient`: an orphan is gone within TTL and period if
  a server lives, else within TTL, quiet time and slice of the last heartbeat:
  10 s and 68 s with the code's values. The second bound is reached, and one
  thing moves it that `estimate_reaping` overlooks: a server that is stopped may
  answer after its entry is gone, which the client counts as activity.
- `EndsInTime`: a wait in slices ends at its timeout. `LivingIsNeverLost`: a
  heartbeat that comes in time is enough.
- `GoneIsTrue`: the log calls a server gone, or a request orphaned, only if the
  server was really absent. The tables do not have this property, because the
  live set is read first; `FalseGoneIsBrief` says the next poll puts it right.
  The lines about a request that has left the hash are guesses: "failed back"
  may be told of a server that never died (disagreement c), "answered" of a
  request that was failed back between two polls, which the docstring covers
  ("best-effort").
- `ToldOnceInOrder`: on one connection each thing is told once and in order, of
  every server that is not in `Stallable`. A server whose entry expires and
  comes back is told to be gone once more when it goes again: TLC finds this at
  once where heartbeats may be late, so the property names the condition.
- `SelectionStays`: a refresh selects no row the user had not selected, as long
  as the current row is one of the selected or has gone (disagreement d is the
  rest). It may lose some: rows above the current one are deselected when it is
  made current.

### Findings

1. *A reaped server may answer* (`late_answer`). `stop()` ends the heartbeat
   loop after one more tick, and then waits for the handlers. One that takes
   longer than the TTL is failed back under a server that lives and answers.
   `exceptions.py` says "no response will ever come". It is proved that this is
   so of servers that are killed but neither stopped nor late, while Redis does
   not fail (`LostIsFinalWhereSteady`).
2. *A reaper that dies loses the request* (`lost_claim`). HDEL first, push
   second: between them the request exists in the reaper's memory only, which
   is the gap `docs/taking-requests.md` closes for the acquire.
3. *The first heartbeat may fail* (`first_beat`). The exception is logged inside
   the tick, and `start()` goes on to take requests, though its comment says the
   server "must be in it before it owns anything". Without failing calls, stops
   and late heartbeats it is proved to be (`TakerIsAliveWhereSteady`).
4. *A method registered after `start()` may have no thread* (`late_method`). The
   pool is sized once. On a server started without methods every thread belongs
   to a loop, and a request of a method registered later is taken, never
   handled, and never reaped.

Four more disagreements of code and text have no run of their own; the formula
given with each is one TLC refutes on the instance named.

a. *A method registered anew has its cap once more.* Each registration makes a
   new limiter (`server.py:251`) while requests under the old one still run,
   although `annotation.py:4-6` says "max_concurrency caps how many requests for
   this operation a single server instance processes at once". On the instance
   of `loop`: `\A m \in Method : Cardinality(Processed(m)) <= Cap[m]`.

b. *The bell after a subscription is rung too early.* `pubsub.subscribe()` sends
   SUBSCRIBE and waits for no reply; confirmations are dropped
   (`redis_adapter.py:210`). The loop may answer the ring of `server.py:364` on
   its own connection before Redis has processed SUBSCRIBE, and a request
   published between the two is noticed a fallback period later.
   `server.py:338-340` and `docs/taking-requests.md:88-89` say the ring is there
   for requests that came before the subscription existed. Nothing is lost by
   it: `QueuedIsServed` holds. On the instance of `loop`: `Asleep /\ Silent =>
   Waiting(avail \cap listening) \subseteq owed`.

c. *The log may say of a living server that it died.* A server that starts and
   takes a request between the two reads of a poll is shown as gone
   (`poller.py:273-274`), although `poller.py:83` says such an owner "stopped
   heartbeating". If the request has left by the next poll, the log says "failed
   back to its client (server ... died)" of a request that its server answered.
   On the instance of `visualizer`: `\A r \in Request : "failed" \in
   Range(story[r]) => holder[r] \in absent`.

d. *A refresh may move the selection.* With the current row taken out of the
   selection by Ctrl-click, `setCurrentItem` (`app.py:477-491`) selects it again
   and drops what was selected above it; Ctrl-C then copies a row nobody chose.
   The README of the visualizer says "Selection and expand/collapse state
   survive each poll refresh", `app.py:218-221` likewise. On the instance of
   `visualizer`: `[][Refreshed => selected' \subseteq selected]_visVars`.

Smaller disagreements, met while modelling: a ring of a worker between the
loop's look at the limiters and its clear of the bell is dropped, so a freed
slot is noticed a fallback period later (`server.py:412-428`, where the
Doorbell's docstring says such a ring is kept); `exceptions.py:81` and
`docs/reaping.md` say 30-60 s where the bound is 68 s after the last heartbeat;
`exceptions.py:110` says `SerializationError` covers a type mismatch, which
raises an error of dacite that is no `AnyCallError`; `get_queue_depth` documents
XLEN and XDEL of a stream where the queue is a list whose entries are gone when
they are taken.

## 4. Fairness

`FairSpec` asks weak fairness of what the threads do by themselves: the
heartbeat loop (it sleeps 2 s and ticks), a reaper in the middle of its walk,
the read loop (it looks at least every `WAKE_FALLBACK_SECONDS`), workers (hence
handlers terminate), a call's next command, `stop()`'s wait. Redis's clock is
fair for an entry nobody refreshes. A slice that ends is owed only while no
server is alive: with a live server the quiet timer may be reset by other calls
for ever. Nothing is owed to `start()`, `stop()`, crashes, timeouts or faults.
In `ReadLoop` likewise: the loop, the listener, workers and a `stop()` or a
registration under way go on; nothing is owed to pushes and their PUBLISH, to
Redis's processing of a SUBSCRIBE, to new registrations or failures of the
subscription, and a failing subscription may fail for ever.

`TakenCallReturns` excludes what the code cannot recover from: a lost acquire
reply or a failed push under an owner that lives on, a claim or fail-back that
fails, a reaper that dies holding a claim (finding 2). A request that is never
taken waits for ever by design (docs/reaping.md, "Not covered").

In `ReadLoop` and `AnyCall` alike the fallback period and the socket timeouts
are what justifies weak fairness of a thread that waits. `Exchange`,
`ReapWindow` and `Visualizer` have safety properties only and state no fairness;
in `ReapWindow` the bounds on time are safety properties, since the clock cannot
pass what is due.

## 5. Proofs

TLAPS proves what TLC checks on the instances above for any number of servers,
clients, threads, requests, methods, registrations and faults, any limits, caps
and periods. Assumptions are on constants only and TLC evaluates them in every
run: sets that are disjoint or finite, functions that have their types, and in
`ReapWindow` that the heartbeat period is shorter than the TTL
(`TimeAssumption`), which `queues.py` sets to 2 and 8 seconds.

| Module | Invariant | Properties proved |
|---|---|---|
| `AnyCallProofs` | `Invariance` (`IInv`) | `TypeOK`, `LostOnlyIfAbsent`, `AtMostOneLost`, `FirstWriteWins`, `NoneVanishes`, `TakenOnce` |
| `ContractProofs` | `ContractInvariance` (`IInv`, `OutcomeInv`, `AskedInv`) | `KeepsContract`, `RefusedNeverRuns`; `OutcomesMean`, the meaning of each outcome |
| `ResidueProofs` | `ResidueInvariance` (`IInv`, `HeldInv`, `UnreadInv`) | `InflightIsBusy`, `UnreadExpires` |
| `PromiseProofs` | `SteadyInvariance` (`IInv`, `SteadyInv`) | `LostMeansDead`; under `OnlyCrashes` also `LostIsFinal` and `TakerIsAlive` |
| `VisualizerProofs` | `VisInvariance` (`IInv` and the parts in `VisualizerInv`) | `VisTypeOK`, `GoneIsTrue`, `ToldOnceInOrder`, `FalseGoneIsBrief`, `SelectionStays`; `WatchingIsHarmless` |
| `ReadLoopProofs` | `Invariance` (`IInv`) | `TypeOK`, `SlotsAccounted`, `LimiterCaps`, `CapUntilRegisteredAnew`, `NoMissedWake` |
| `ExchangeProofs` | `Invariance` (`IInv`) | `TypeOK`, `DepthBounded`, `TypesAgree`, `NothingLeftInflight`, `CallerIsTold` |
| `ReapWindowProofs` | `Invariance` (`IInv`) | `TypeOK`, `ReapedByServer`, `ReapedByClient`, `EndsInTime`, `LivingIsNeverLost` |

Each theorem is named after its property with `Holds` behind it, `TypeOK`'s is
`TypeCorrect` and `VisTypeCorrect`, that of `LimiterCaps` is `LimiterCapsHold`.
Two theorems have a hypothesis, named in the statement: `OnlyCrashes` says of a
deployment that nothing is stopped or late and that Redis does not fail;
processes may still be killed at any step. All others hold in every deployment.
A proof is one lemma per part of the invariant, with a step per action that can
disturb it; in `AnyCallProofs` "writers" lemmas name the actions that change
each variable, so that the others are dealt with once. `Invariance` joins the
parts.

*`AnyCall`.* None of the invariants is inductive alone. `LostOnlyIfAbsent` needs
that what a reaper has in hand after its second read are owners that were absent
(`SnapshotInv`, `ClaimInv`), which needs that whoever has an entry served when
the entry was read, and that whoever serves is in the live set or was once
absent (`OwnerInv`, `LiveInv`). `AtMostOneLost` needs that a claim is held by
one reaper, on a request out of the hash and without an error yet, and that an
entry once removed never comes back (`ClaimInv`, `LostInv`, `EntryStaysGone`),
which rests on a request being in one queue once and never after it was taken
(`QueueInv`). `FirstWriteWins` needs that a call which still waits has lost no
response (`ResponseInv`). `NoneVanishes` needs that a worker past its push has
left a response (`WorkInv`), and that whoever holds a claim is a process that
runs or was killed, and not the server the request was taken by (`ClaimInv`,
`SnapshotInv`): a server never finds its own entry orphaned, because it
refreshes its heartbeat in the script that lists the living.

*`AnyCall` implements `CallContract`.* A step of the protocol is one of the
contract or leaves it alone: taking is `Take`, whether the reply arrives or not;
the end of the first tick of a server whose entry is missing, and the expiry of
an entry, are `Lapse`; the push of a response is `Decide` if it is the first; a
failing command of a call is `Break`. This needs that only what waits or has not
been published has no outcome (`OutcomeInv`), that a call which times out was
asked (`AskedInv`), and of `IInv` that a reaper pushes for a server that was
absent and that what a call pops is what was written first. What the contract
comes to is then proved of `CallContract` alone and holds of `AnyCall` because
it implements it (`OutcomesMean`); that a refused call never runs is a part of
that.

*What is left in Redis.* An entry has a worker that will release it or a slip
that says why not (`HeldInv`, for servers dead or alive; `InflightIsBusy` is
about the living). A response that is in Redis has a TTL, or a writer that is
about to set one, or a slip (`UnreadInv`): whoever pushes to a queue sets its
expiry after the push, so that an EXPIRE that finds the queue gone leaves
nothing behind, and a queue that is popped empty and filled again has the second
writer's EXPIRE to come.

*Promises.* A steady server, one that is neither stopped nor late while no call
fails, is in the live set from the script of its first tick on and leaves it
only when it was killed (`SteadyInv`): no entry of it expires while it runs,
because its heartbeat thread never returns. With `LostInv` that is
`LostMeansDead`.

*`Visualizer`.* A step is one of the watcher, which leaves the processes alone,
or one of theirs, which leaves it alone; each part of the invariant is kept by
both. `ShownInv` says of the time between the two reads of a poll that an owner
which is shown already is among the servers just read or was absent; this is why
a wrong table lasts one poll, and it needs `LiveInv` and `OwnerInv` of the
processes. `GoneIsTrue` compares two reads of the servers, so that each server
that is missing from the second was absent. `ToldOnceInOrder` needs that an
owner that is told to be gone is gone for good (`GoneInv`: nobody is left to
refresh it) and that an entry that is gone never comes back, and says which six
stories the log can tell (`StoryInv`).

*`ReadLoop`.* The counters stay natural numbers only because they count holders
(`SlotsAccounted` is needed for `TypeOK`), and a limiter keeps its cap because
the guard compares the counter (`LimiterCaps`, with `SlotsAccounted` again).
That a method keeps it needs that all its requests hold the same limiter: a
method that still has its first limiter has never been without, and nothing else
gives it that number (`FirstInv`). `NoMissedWake` speaks of a loop that sleeps
with nothing about to ring; the inductive form (`WakeInv`) says which of bell,
message and listener will ring, step by step, for an LPUSH and a PUBLISH that
are apart and a SUBSCRIBE that Redis processes when it gets to it.

*`Exchange`.* A call's number is its own and that of no other thread's request
(`NumberInv`); `RegistryInv` relates a thread between its look and its store to
the type that is registered meanwhile. `DepthBounded` is inductive once the
threads past their look at the depth are counted with the queue: one more such
thread means the queue was below the limit at that moment.

*`ReapWindow`.* `ReapedByClient` needs a witness that is not in the state: the
moment of a last sign of life within a quiet period before the call's present
slice began (`PatientInv`), and that the timer is never ahead of such signs
while there is something to reap (`ActivityInv`). `ReapedByServer` needs that a
server that beats leaves nobody's entry older than its own last prune
(`ServerInv`).

Model-checked only: the liveness properties `TakenCallReturns`, `StopReturns`
and `QueuedIsServed`, since liveness under fairness and ENABLED are out of the
prover's reach. So are induction over data and RECURSIVE operators; no module
uses one. `ReadLoop` therefore keeps the methods a pool was sized for and sums
their caps only in the guard that needs the number of threads. The four findings
are counterexamples. Of the first three a theorem says what holds instead
(`LostIsFinalWhereSteady`, `NoneVanishesHolds`, `TakerIsAliveWhereSteady`), and
of the disagreements `CapUntilRegisteredAnewHolds`, `NoMissedWakeHolds`,
`GoneIsTrueHolds` and `SelectionStaysHolds`. None is about `TakenIsHandled`, a
liveness property.

## 6. Not modelled, and what is next

- The Java library. It speaks the same protocol with the same scripts and can be
  mixed with the Python one, but its server is not the same program: commands of
  reaping are bounded by timeouts, and the in-flight entry is removed in a
  `finally` block, apart from the response and even if the push of the response
  failed, so `NoneVanishes` would need another exception. It deserves an
  `AnyCall` of its own.
- `start()` concurrent with `stop()` or with `register()`. `stop()` uses the
  pool after it has left the lock, so a `start()` in between would have two
  pools and two sets of loops; `ReadLoop` has one thread that calls the two in
  turn, as every caller in the repository does.
- The conversions themselves (JSON, dacite, dataclasses), the factories and the
  decorator (`core.py`, `annotation.py`), which build objects and check
  arguments.
- The visualizer's queue previews, listener counts, Redis figures, layout,
  fonts, pinning and copies as JSON; its shutdown (`closeEvent` waits two
  seconds for a thread whose command may take longer).
- Examples, contract files, build and release scripts.

Next: the Java server; `start()` racing `stop()`.

To repeat a run: `tlc -config AnyCallFailures.cfg MCAnyCall`; the proofs:
`tlapm AnyCallProofs.tla` (about three minutes; the others take less, as each
module's own proofs are checked when tlapm is given that module).
