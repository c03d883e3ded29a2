---------------------------- MODULE CallContract ----------------------------
(***************************************************************************)
(* What AnyCall promises its callers, without queues, heartbeats or Redis. *)
(*                                                                         *)
(* A call that is refused was never asked and never runs.  A request asked *)
(* is taken by one server, once.  A call has one verdict: the answer of    *)
(* the server that took it, or the word that this server was lost, which   *)
(* is given only if the server really was out of sight.  A call that       *)
(* returns a response returns the verdict; without one it ends only by its *)
(* own timeout or by a Redis error of its own.                             *)
(***************************************************************************)
CONSTANTS
  Server, Request, NoServer,
  Patient   \* the requests whose call has no timeout

VARIABLES
  asked,    \* the requests that have been published
  taker,    \* the server that took a request
  lapsed,   \* servers that were at some time out of sight while they served
  verdict,  \* the first response to a request, "none" so far
  result    \* what the call gave its caller, "none" so far

promise == <<asked, taker, lapsed, verdict, result>>

Init ==
  /\ asked = {}
  /\ taker = [r \in Request |-> NoServer]
  /\ lapsed = {}
  /\ verdict = [r \in Request |-> "none"]
  /\ result = [r \in Request |-> "none"]

Returns(r, value) == result' = [result EXCEPT ![r] = value]

Ask(r) ==
  /\ r \notin asked
  /\ result[r] = "none"
  /\ asked' = asked \cup {r}
  /\ UNCHANGED <<taker, lapsed, verdict, result>>

Take(s, r) ==
  /\ r \in asked
  /\ taker[r] = NoServer
  /\ taker' = [taker EXCEPT ![r] = s]
  /\ UNCHANGED <<asked, lapsed, verdict, result>>

Lapse(s) ==
  /\ lapsed' = lapsed \cup {s}
  /\ UNCHANGED <<asked, taker, verdict, result>>

Decide(r, response) ==
  /\ verdict[r] = "none"
  /\ taker[r] # NoServer
  /\ response = "lost" => taker[r] \in lapsed
  /\ verdict' = [verdict EXCEPT ![r] = response]
  /\ UNCHANGED <<asked, taker, lapsed, result>>

Refuse(r) ==
  /\ r \notin asked
  /\ result[r] = "none"
  /\ Returns(r, "refused")
  /\ UNCHANGED <<asked, taker, lapsed, verdict>>

Respond(r) ==
  /\ result[r] = "none"
  /\ verdict[r] # "none"
  /\ Returns(r, verdict[r])
  /\ UNCHANGED <<asked, taker, lapsed, verdict>>

TimeOut(r) ==
  /\ r \in asked
  /\ r \notin Patient
  /\ result[r] = "none"
  /\ Returns(r, "timeout")
  /\ UNCHANGED <<asked, taker, lapsed, verdict>>

\* A Redis error reaches the caller, instead of a result it already had too
\* (the deletion of the response queue comes last); whether the request was
\* published is not known.
Break(r) ==
  /\ result[r] # "refused"
  /\ Returns(r, "error")
  /\ asked' \in {asked, asked \cup {r}}
  /\ UNCHANGED <<taker, lapsed, verdict>>

Next ==
  \/ \E s \in Server : Lapse(s)
  \/ \E s \in Server, r \in Request : Take(s, r)
  \/ \E r \in Request :
       \/ Ask(r) \/ Refuse(r) \/ Respond(r) \/ TimeOut(r) \/ Break(r)
       \/ \E response \in {"answer", "lost"} : Decide(r, response)

Spec == Init /\ [][Next]_promise

-----------------------------------------------------------------------------
\* What it comes to: what was refused is not asked, now or later, what is taken
\* was asked, and a response is of the server that took the request.
Types ==
  /\ asked \subseteq Request
  /\ taker \in [Request -> Server \cup {NoServer}]
  /\ verdict \in [Request -> {"none", "answer", "lost"}]
  /\ result \in [Request -> {"none", "answer", "lost", "refused", "timeout", "error"}]

Meaning ==
  \A r \in Request :
    /\ taker[r] # NoServer => r \in asked
    /\ verdict[r] # "none" => taker[r] # NoServer
    /\ verdict[r] = "lost" => taker[r] \in lapsed
    /\ result[r] \in {"answer", "lost"} => verdict[r] = result[r]
    /\ result[r] = "refused" => r \notin asked
=============================================================================
