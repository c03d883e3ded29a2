----------------------------- MODULE ReapWindow -----------------------------
(***************************************************************************)
(* When a call whose server died is told so.  AnyCall says that it is told *)
(* and why; here time counts: heartbeats every Period, entries of the live *)
(* set that last Ttl, a client that waits in slices and reaps when it has  *)
(* been quiet long enough.  The calls are those of one client and share    *)
(* its timer.                                                              *)
(*                                                                         *)
(* A tick of a heartbeat, or the end of a slice, is one step and takes no  *)
(* time; time passes only when nothing is due.  What a reaper finds dead   *)
(* it fails back at once.                                                  *)
(***************************************************************************)
EXTENDS Integers, FiniteSets

CONSTANTS
  Server, Call, NoServer,
  Period,    \* HEARTBEAT_PERIOD_SECONDS
  Ttl,       \* HEARTBEAT_TTL_SECONDS
  Quiet,     \* WAITER_REAP_QUIET_SECONDS
  Slice,     \* WAITER_REAP_SLICE_SECONDS
  Timeout,   \* the timeout of each call, 0 for none
  MaxTime    \* bound on the clock

ASSUME TimeAssumption ==
  /\ Period \in Nat \ {0}
  /\ Ttl \in Nat
  /\ Period < Ttl
  /\ Quiet \in Nat \ {0}
  /\ Slice \in Nat \ {0}
  /\ Timeout \in [Call -> Nat]
  /\ MaxTime \in Nat
  /\ NoServer \notin Server

VARIABLES
  now,
  state,     \* of each server
  beat,      \* when its last heartbeat was
  at,        \* of each call
  begun,     \* when it was published
  slice,     \* when its present slice began
  holder,    \* the server that took its request
  inflight,  \* the calls whose request has an in-flight entry
  response,  \* the response in its queue
  activity,  \* _last_activity of the client
  late       \* when a server answered that was in the live set no more (history)

servers == <<state, beat>>
calls   == <<at, begun, slice>>
redis   == <<holder, inflight, response>>
vars    == <<now, servers, calls, redis, activity, late>>

\* A server that is stopped beats no more, but finishes what it runs.
State == {"off", "up", "stopping", "dead"}

TypeOK ==
  /\ now \in Nat
  /\ state \in [Server -> State]
  /\ beat \in [Server -> Nat]
  /\ at \in [Call -> {"idle", "waiting", "done"}]
  /\ begun \in [Call -> Nat]
  /\ slice \in [Call -> Nat]
  /\ holder \in [Call -> Server \cup {NoServer}]
  /\ inflight \subseteq Call
  /\ \A c \in inflight : holder[c] # NoServer
  /\ response \in [Call -> {"none", "answer", "lost"}]
  /\ activity \in Nat
  /\ late \in Nat

Init ==
  /\ now = 0
  /\ state = [s \in Server |-> "off"]
  /\ beat = [s \in Server |-> 0]
  /\ at = [c \in Call |-> "idle"]
  /\ begun = [c \in Call |-> 0]
  /\ slice = [c \in Call |-> 0]
  /\ holder = [c \in Call |-> NoServer]
  /\ inflight = {}
  /\ response = [c \in Call |-> "none"]
  /\ activity = 0
  /\ late = 0

\* Seeded bug: the script is given the period for the TTL.
PrunedByPeriod(s) == state[s] # "off" /\ beat[s] <= now - Period

\* A server's heartbeat prunes the entries of Ttl ago; a client, and whoever
\* only looks, still counts them in.
Pruned(s) == state[s] # "off" /\ beat[s] <= now - Ttl
Listed(s) == state[s] # "off" /\ beat[s] >= now - Ttl

\* The client fails back, and whoever waits has it in its queue.
FailBack(orphans) ==
  /\ inflight' = inflight \ orphans
  /\ response' = [c \in Call |->
       IF c \in orphans /\ response[c] = "none" THEN "lost" ELSE response[c]]

-----------------------------------------------------------------------------
\* Seeded bug: nobody reads the members the script returns.
BeatsOnly(s) ==
  /\ beat' = [beat EXCEPT ![s] = now]
  /\ UNCHANGED <<now, calls, redis, activity, late>>

\* start(), and every tick after it.
Beats(s) ==
  /\ beat' = [beat EXCEPT ![s] = now]
  /\ FailBack({c \in inflight : holder[c] # s /\ Pruned(holder[c])})
  /\ UNCHANGED <<now, calls, holder, activity, late>>

Start(s) ==
  /\ state[s] = "off"
  /\ state' = [state EXCEPT ![s] = "up"]
  /\ Beats(s)

Tick(s) ==
  /\ state[s] = "up"
  /\ now = beat[s] + Period
  /\ UNCHANGED state
  /\ Beats(s)

\* kill -9, or stop(): no heartbeat comes after.
Leave(s) ==
  /\ state[s] \in {"up", "stopping"}
  /\ state' = [state EXCEPT ![s] = "dead"]
  /\ UNCHANGED <<now, beat, calls, redis, activity, late>>

Stop(s) ==
  /\ state[s] = "up"
  /\ state' = [state EXCEPT ![s] = "stopping"]
  /\ UNCHANGED <<now, beat, calls, redis, activity, late>>

\* Seeded bug: the entry is written without the owner.
TakeUnowned(s, c) ==
  /\ state[s] = "up"
  /\ at[c] # "idle"
  /\ holder[c] = NoServer
  /\ inflight' = inflight \cup {c}
  /\ UNCHANGED <<now, servers, calls, holder, response, activity, late>>

Take(s, c) ==
  /\ state[s] = "up"
  /\ at[c] # "idle"
  /\ holder[c] = NoServer
  /\ holder' = [holder EXCEPT ![c] = s]
  /\ inflight' = inflight \cup {c}
  /\ UNCHANGED <<now, servers, calls, response, activity, late>>

Answer(c) ==
  /\ c \in inflight
  /\ state[holder[c]] \in {"up", "stopping"}
  /\ inflight' = inflight \ {c}
  /\ response' = [response EXCEPT ![c] = "answer"]
  /\ late' = IF Listed(holder[c]) THEN late ELSE now
  /\ UNCHANGED <<now, servers, calls, holder, activity>>

-----------------------------------------------------------------------------
\* A call finds a server alive, or is refused.
Publish(c) ==
  /\ at[c] = "idle"
  /\ IF \E s \in Server : Listed(s)
       THEN /\ at' = [at EXCEPT ![c] = "waiting"]
            /\ begun' = [begun EXCEPT ![c] = now]
            /\ slice' = [slice EXCEPT ![c] = now]
            /\ activity' = now
       ELSE /\ at' = [at EXCEPT ![c] = "done"]
            /\ UNCHANGED <<begun, slice, activity>>
  /\ UNCHANGED <<now, servers, redis, late>>

Returns(c) ==
  /\ at' = [at EXCEPT ![c] = "done"]
  /\ begun' = [begun EXCEPT ![c] = 0]
  /\ slice' = [slice EXCEPT ![c] = 0]

Receive(c) ==
  /\ at[c] = "waiting"
  /\ response[c] # "none"
  /\ Returns(c)
  /\ activity' = now
  /\ UNCHANGED <<now, servers, redis, late>>

Deadline(c) == begun[c] + Timeout[c]
Expired(c)  == Timeout[c] > 0 /\ now >= Deadline(c)

\* Seeded bug: a slice does not end with the timeout.
WholeSlice(c) == slice[c] + Slice

\* The end of the slice: of its length, or with the timeout.
SliceEnd(c) ==
  IF Timeout[c] > 0 /\ Deadline(c) < slice[c] + Slice
    THEN Deadline(c) ELSE slice[c] + Slice

\* Seeded bug: a slice that ends empty counts as activity.
ReapsAfterSlice ==
  IF now - activity < Quiet
    THEN activity' = now /\ UNCHANGED <<inflight, response>>
    ELSE activity' = now /\ FailBack({r \in inflight : ~Listed(holder[r])})

\* _reap_if_quiet: the timer starts anew when the reaping is over.
ReapsIfQuiet ==
  IF now - activity < Quiet
    THEN UNCHANGED <<inflight, response, activity>>
    ELSE activity' = now /\ FailBack({r \in inflight : ~Listed(holder[r])})

\* The slice ends empty.  The timeout comes after the reaping, and wins over
\* an error the reaping wrote for the call itself.
SliceEnds(c) ==
  /\ at[c] = "waiting"
  /\ response[c] = "none"
  /\ now = SliceEnd(c)
  /\ ReapsIfQuiet
  /\ IF Expired(c)
       THEN Returns(c)
       ELSE slice' = [slice EXCEPT ![c] = now] /\ UNCHANGED <<at, begun>>
  /\ UNCHANGED <<now, servers, holder, late>>

\* Time passes when no heartbeat is due and no wait is over.
TimePasses ==
  /\ now < MaxTime
  /\ \A s \in Server : state[s] = "up" => now < beat[s] + Period
  /\ \A c \in Call : at[c] = "waiting" => response[c] = "none" /\ now < SliceEnd(c)
  /\ now' = now + 1
  /\ UNCHANGED <<servers, calls, redis, activity, late>>

Next ==
  \/ \E s \in Server :
       \/ Start(s) \/ Tick(s) \/ Leave(s) \/ Stop(s)
       \/ \E c \in Call : Take(s, c)
  \/ \E c \in Call : Answer(c) \/ Publish(c) \/ Receive(c) \/ SliceEnds(c)
  \/ TimePasses

Spec == Init /\ [][Next]_vars

-----------------------------------------------------------------------------
\* With a server alive, the next heartbeat after the Ttl reaps, so within a
\* Period of it: estimate_reaping of the visualizer, and "8-10s after".
ReapedByServer ==
  \A c \in Call, s \in Server :
    c \in inflight /\ state[s] = "up" /\ holder[c] # s
      => now < beat[holder[c]] + Ttl + Period

\* The latest moment that estimate_reaping names, counted from a heartbeat.
Latest(s) == beat[s] + Ttl + Quiet + Slice

\* Without one, the waiting client does: before a Quiet and a Slice have gone
\* by since the last sign of life, which is the Ttl after the last heartbeat
\* of any server or -- what the estimate overlooks -- the answer of a stopping
\* server out of the live set.
ReapedByClient ==
  \A c \in Call :
    c \in inflight /\ at[c] = "waiting" /\ Timeout[c] = 0
      => \/ \E s \in Server : state[s] # "off" /\ now < Latest(s)
         \/ now < late + Quiet + Slice

\* Heartbeats that come in time keep a server from being taken for dead, to
\* the last instant before the next one: neither servers nor clients fail
\* back a request of one.
LivingIsNeverLost ==
  [][\A c \in Call :
       response[c] = "none" /\ response'[c] = "lost" => state[holder[c]] # "up"]_vars

\* A call with a timeout never waits past it, whatever slices it waits in.
EndsInTime ==
  \A c \in Call : at[c] = "waiting" /\ Timeout[c] > 0 => now <= Deadline(c)
=============================================================================
