------------------------------ MODULE Exchange ------------------------------
(***************************************************************************)
(* What a call carries: the type it is decoded as, the limit on its queue, *)
(* the envelope of a request and the address of a response.  One client,   *)
(* whose threads call one method and register its response type; a server; *)
(* and requests of other producers, in shapes the two parsers of a request *)
(* do not agree on: the Lua script that takes it (camelCase only) and the  *)
(* server that runs it (camelCase or snake_case, no unknown field).        *)
(*                                                                         *)
(* AnyCall has heartbeats, crashes and failing Redis calls; of those only  *)
(* the outcome is here: an alive count of zero, an error by a reaper.      *)
(***************************************************************************)
EXTENDS Naturals, Sequences, FiniteSets

CONSTANTS
  Thread,      \* the client's threads
  MaxUses,     \* bound on its calls and registrations
  Limit,       \* values of max_queue_depth; unbounded is a large one
  MaxDepth,    \* no limit is larger
  Type, NoType,
  Returned,    \* the type the method returns
  Foreign,     \* requests of other producers
  Unknown      \* the id "unknown", of requests whose own cannot be read

Own == 1..MaxUses
Id  == Own \cup Foreign

ASSUME ExchangeAssumption ==
  /\ IsFiniteSet(Thread)
  /\ IsFiniteSet(Foreign)
  /\ MaxUses \in Nat
  /\ MaxDepth \in Nat \ {0}
  /\ Limit \subseteq 0..MaxDepth
  /\ NoType \notin Type
  /\ Returned \in Type
  /\ Own \cap Foreign = {}
  /\ Unknown \notin Id

VARIABLES
  \* the client
  registered,  \* the registry's type for the method
  promised,    \* the types whose registration has returned (history)
  overlaps,    \* types registered at the same time (history)
  default,     \* default_max_queue_depth
  at,          \* where each thread is in its call or registration
  used,        \* calls and registrations so far
  number,      \* the id of its request
  type,        \* the type to register, or to decode the response as
  limit,       \* the limit on the depth its call goes by
  outcome,     \* what its call is about to give it
  \* Redis
  queue,       \* the request queue, the oldest first
  inflight,    \* the ids in the in-flight hash
  responses,   \* each response queue
  \* requests
  shape,       \* how a foreign request is written
  stage        \* how far the server is with a request

registry == <<registered, promised, overlaps>>
thread   == <<at, number, type, limit, outcome>>
caller   == <<default, used, thread>>
vars     == <<registry, caller, queue, inflight, responses, shape, stage>>

\* "extra" has a field the server does not know, "snake" spells request_id,
\* "garbage" is no request.
Shape == {"extra", "snake", "garbage"}
Kind  == {"value", "error", "lost"}
Stage == {"unsent", "queued", "taken", "done", "exited"}
Outcome == {"none", "value", "mismatch", "remote", "lost", "timeout"}

TypeOK ==
  /\ registered \in Type \cup {NoType}
  /\ promised \subseteq Type
  /\ overlaps \subseteq SUBSET Type
  /\ default \in Limit
  /\ at \in [Thread -> {"idle", "looked", "begun", "cleared", "waiting", "closing"}]
  /\ used \in 0..MaxUses
  /\ number \in [Thread -> 0..MaxUses]
  /\ type \in [Thread -> Type \cup {NoType}]
  /\ \A t \in Thread : at[t] # "idle" => type[t] \in Type
  /\ limit \in [Thread -> 0..MaxDepth]
  /\ outcome \in [Thread -> Outcome]
  /\ queue \in Seq(Id)
  /\ inflight \subseteq Id
  /\ responses \in [Id \cup {Unknown} -> Seq(Kind)]
  /\ shape \in [Foreign -> Shape]
  /\ stage \in [Id -> Stage]

Init ==
  /\ registered = NoType
  /\ promised = {}
  /\ overlaps = {}
  /\ default \in Limit
  /\ at = [t \in Thread |-> "idle"]
  /\ used = 0
  /\ number = [t \in Thread |-> 0]
  /\ type = [t \in Thread |-> NoType]
  /\ limit = [t \in Thread |-> 0]
  /\ outcome = [t \in Thread |-> "none"]
  /\ queue = <<>>
  /\ inflight = {}
  /\ responses = [r \in Id \cup {Unknown} |-> <<>>]
  /\ shape \in [Foreign -> Shape]
  /\ stage = [r \in Id |-> "unsent"]

Sends(r) ==
  /\ stage[r] = "unsent"
  /\ queue' = Append(queue, r)
  /\ stage' = [stage EXCEPT ![r] = "queued"]

-----------------------------------------------------------------------------
(* The client's threads.                                                   *)

SetDefault(depth) ==
  /\ default' = depth
  /\ UNCHANGED <<registry, used, thread, queue, inflight, responses, shape, stage>>

\* An action of thread t: where it was, where it is next.
Moves(t, from, to) ==
  /\ at[t] = from
  /\ at' = [at EXCEPT ![t] = to]
  /\ UNCHANGED <<default, shape>>

\* What it was doing returns or raises, and the locals are gone.
Returns(t, from) ==
  /\ Moves(t, from, "idle")
  /\ number' = [number EXCEPT ![t] = 0]
  /\ type' = [type EXCEPT ![t] = NoType]
  /\ limit' = [limit EXCEPT ![t] = 0]
  /\ outcome' = [outcome EXCEPT ![t] = "none"]

Uses(t) ==
  /\ used < MaxUses
  /\ used' = used + 1

-----------------------------------------------------------------------------
(* register_type(): the look and the store are two steps.                  *)

Registering == {t \in Thread : at[t] = "looked"}

\* Seeded bug: what is registered already is not looked at.
LookAway(t, new) ==
  /\ Uses(t)
  /\ Moves(t, "idle", "looked")
  /\ type' = [type EXCEPT ![t] = new]
  /\ overlaps' = overlaps \cup {{new, type[u]} : u \in Registering}
  /\ UNCHANGED <<registered, promised, number, limit, outcome, queue, inflight, responses,
                 stage>>

\* Another type is registered already: the registration raises, and does
\* nothing else.
Look(t, new) ==
  /\ Uses(t)
  /\ IF registered = NoType
       THEN /\ Moves(t, "idle", "looked")
            /\ type' = [type EXCEPT ![t] = new]
            /\ overlaps' = overlaps \cup {{new, type[u]} : u \in Registering}
            /\ UNCHANGED promised
       ELSE /\ Moves(t, "idle", "idle")
            /\ registered = new
            /\ promised' = promised \cup {new}
            /\ UNCHANGED <<type, overlaps>>
  /\ UNCHANGED <<registered, number, limit, outcome, queue, inflight, responses, stage>>

Store(t) ==
  /\ registered' = type[t]
  /\ promised' = promised \cup {type[t]}
  /\ Returns(t, "looked")
  /\ UNCHANGED <<overlaps, used, queue, inflight, responses, stage>>

-----------------------------------------------------------------------------
(* A call.                                                                 *)

\* Seeded bug: a type that is not registered is not noticed.
DecodesUnchecked == {Returned, registered}

\* What a call decodes the response as: the type it is given, or the
\* registered one (if there is none it raises, and does nothing else).  The
\* dict of raw_call() fits every value, like the type the method returns.
Decodes == {Returned, registered} \ {NoType}

\* The limit is the caller's, or the default of this moment.  If the request
\* cannot be written as JSON or no server is alive, the call raises.
Begin(t) ==
  /\ Uses(t)
  /\ \/ Returns(t, "idle")
     \/ /\ Moves(t, "idle", "begun")
        /\ number' = [number EXCEPT ![t] = used']
        /\ \E as \in Decodes : type' = [type EXCEPT ![t] = as]
        /\ \E depth \in Limit \cup {default} : limit' = [limit EXCEPT ![t] = depth]
        /\ UNCHANGED outcome
  /\ UNCHANGED <<registry, queue, inflight, responses, stage>>

\* Seeded bug: ">" for ">=".
CheckDepthLate(t) ==
  /\ IF Len(queue) > limit[t]
       THEN Returns(t, "begun")
       ELSE Moves(t, "begun", "cleared") /\ UNCHANGED <<number, type, limit, outcome>>
  /\ UNCHANGED <<registry, used, queue, inflight, responses, stage>>

CheckDepth(t) ==
  /\ IF Len(queue) >= limit[t]
       THEN Returns(t, "begun")
       ELSE Moves(t, "begun", "cleared") /\ UNCHANGED <<number, type, limit, outcome>>
  /\ UNCHANGED <<registry, used, queue, inflight, responses, stage>>

Publish(t) ==
  /\ Moves(t, "cleared", "waiting")
  /\ Sends(number[t])
  /\ UNCHANGED <<registry, used, number, type, limit, outcome, inflight, responses>>

\* The order of the tests: a lost server, an error, a value.  A value that
\* does not fit the type makes dacite raise.
Decoded(t, kind) ==
  CASE kind = "lost"  -> "lost"
    [] kind = "error" -> "remote"
    [] kind = "value" -> IF type[t] = Returned THEN "value" ELSE "mismatch"

Receive(t) ==
  /\ Moves(t, "waiting", "closing")
  /\ responses[number[t]] # <<>>
  /\ outcome' = [outcome EXCEPT ![t] = Decoded(t, Head(responses[number[t]]))]
  /\ responses' = [responses EXCEPT ![number[t]] = Tail(@)]
  /\ UNCHANGED <<registry, used, number, type, limit, queue, inflight, stage>>

TimeOut(t) ==
  /\ Moves(t, "waiting", "closing")
  /\ outcome' = [outcome EXCEPT ![t] = "timeout"]
  /\ UNCHANGED <<registry, used, number, type, limit, queue, inflight, responses, stage>>

Close(t) ==
  /\ Returns(t, "closing")
  /\ responses' = [responses EXCEPT ![number[t]] = <<>>]
  /\ UNCHANGED <<registry, used, queue, inflight, stage>>

-----------------------------------------------------------------------------
(* Other producers, the server and reapers.                                *)

SendForeign(f) ==
  /\ Sends(f)
  /\ UNCHANGED <<registry, caller, inflight, responses, shape>>

Is(r, shapes) == r \in Foreign /\ shape[r] \in shapes
\* The acquire script finds the id; the server makes a request of the text.
ScriptReads(r) == ~Is(r, {"snake", "garbage"})
ServerReads(r) == ~Is(r, {"extra", "garbage"})

AtStage(r, from, to) ==
  /\ stage[r] = from
  /\ stage' = [stage EXCEPT ![r] = to]
  /\ UNCHANGED <<registry, caller, shape>>

Take(r) ==
  /\ queue # <<>>
  /\ r = Head(queue)
  /\ queue' = Tail(queue)
  /\ AtStage(r, "queued", "taken")
  /\ inflight' = IF ScriptReads(r) THEN inflight \cup {r} ELSE inflight
  /\ UNCHANGED responses

\* The method returns, or raises; so does an argument or a result of the
\* wrong type, and a request that cannot be deserialized.
Replies(r) == IF ServerReads(r) THEN {"value", "error"} ELSE {"error"}

\* Seeded bug: an error is built before the id is known.
AddressOfValue(r, kind) == IF ServerReads(r) /\ kind = "value" THEN r ELSE Unknown

Address(r, kind) == IF ServerReads(r) THEN r ELSE Unknown

\* Seeded bug: the entry is dropped under the id of the response.
RespondByAddress(r) ==
  /\ AtStage(r, "taken", "done")
  /\ \E kind \in Replies(r) :
       /\ responses' = [responses EXCEPT ![Address(r, kind)] = Append(@, kind)]
       /\ inflight' = inflight \ {Address(r, kind)}
  /\ UNCHANGED queue

\* The request is run and responded to; its entry is dropped under the id the
\* script found.
Respond(r) ==
  /\ AtStage(r, "taken", "done")
  /\ \E kind \in Replies(r) :
       responses' = [responses EXCEPT ![Address(r, kind)] = Append(@, kind)]
  /\ inflight' = inflight \ {r}
  /\ UNCHANGED queue

\* A BaseException of the method, of sys.exit() for one, passes both handlers
\* of the worker: nothing is sent.
RunExits(r) ==
  /\ ServerReads(r)
  /\ AtStage(r, "taken", "exited")
  /\ UNCHANGED <<queue, inflight, responses>>

\* The server is out of the live set: some reaper fails the request back.
Reap(r) ==
  /\ r \in inflight
  /\ inflight' = inflight \ {r}
  /\ responses' = [responses EXCEPT ![r] = Append(@, "lost")]
  /\ UNCHANGED <<registry, caller, queue, shape, stage>>

-----------------------------------------------------------------------------
CallStep(t) ==
  \/ Store(t) \/ Begin(t) \/ CheckDepth(t) \/ Publish(t)
  \/ Receive(t) \/ TimeOut(t) \/ Close(t)

ServerStep(r) == Take(r) \/ Respond(r) \/ RunExits(r) \/ Reap(r)

Next ==
  \/ \E depth \in Limit : SetDefault(depth)
  \/ \E t \in Thread : CallStep(t) \/ \E new \in Type : Look(t, new)
  \/ \E f \in Foreign : SendForeign(f)
  \/ \E r \in Id : ServerStep(r)

Spec == Init /\ [][Next]_vars

-----------------------------------------------------------------------------
Cleared == {t \in Thread : at[t] = "cleared"}
Sent    == {f \in Foreign : stage[f] # "unsent"}

\* The limit is advisory: the depth is read, then the request is pushed.  By
\* how much can the queue pass it?  By less than the number of threads that
\* call at a time, however many calls were abandoned before; requests that
\* go by no limit come on top.
DepthBounded ==
  Len(queue) + Cardinality(Cleared)
    <= MaxDepth - 1 + Cardinality(Thread) + Cardinality(Sent)

\* A registration that returned holds, whatever is registered later; only
\* one that overlapped it can have replaced its type.
TypesAgree ==
  \A T \in promised : registered # T => {T, registered} \in overlaps

\* An in-flight entry is one of a request in the hands of the server, although
\* the script that writes it and the server that drops it find the id with
\* parsers of their own -- or of one whose method exited.
NothingLeftInflight ==
  \A r \in inflight : stage[r] \in {"taken", "exited"}

\* Whoever waits for a request the server is done with has a response to
\* read in its own queue -- but a request with a field the server does not
\* know is answered to nobody.
CallerIsTold ==
  \A r \in Id :
    /\ stage[r] = "done"
    /\ ServerReads(r)
    /\ r \in Own => \E t \in Thread : at[t] = "waiting" /\ number[t] = r
    => responses[r] # <<>>
=============================================================================
