---------------------------- MODULE AnyCallInv -----------------------------
(***************************************************************************)
(* The inductive invariant behind the safety properties of AnyCall, in     *)
(* named parts, which AnyCallProofs proves for every deployment, and what  *)
(* the theorems of ContractProofs and PromiseProofs need besides.          *)
(***************************************************************************)
EXTENDS AnyCall

\* The read loop of s has begun, so s may own requests.
Serving(s) == loop[s] # "off"

\* A request is in no queue but its method's, there at most once, and once
\* taken in none.  A call that has not published has no trace anywhere.
QueueInv ==
  /\ \A m \in Method :
       /\ \A i \in DOMAIN queue[m] :
            /\ MethodOf[queue[m][i]] = m
            /\ holder[queue[m][i]] = NoServer
            /\ call[queue[m][i]] \notin {"idle", "checked"}
       /\ \A i, j \in DOMAIN queue[m] : queue[m][i] = queue[m][j] => i = j
  /\ \A r \in Request : call[r] \in {"idle", "checked"} => holder[r] = NoServer

\* A server that serves has a live entry, or has once been without one.
LiveInv == \A s \in Server : Serving(s) => s \in alive \/ s \in absent

\* The in-flight hash names the server that took the request.
OwnerInv ==
  \A r \in Request :
    inflight[r] # NoServer => inflight[r] = holder[r] /\ Serving(holder[r])

\* What a reaper has read names it too; what it is left with after it has
\* read the live set are owners that were absent, itself never among them.
SnapshotInv ==
  \A p \in Process, r \in Request :
    owners[p][r] # NoServer =>
      /\ owners[p][r] = holder[r]
      /\ Serving(holder[r])
      /\ reapStep[p] \in {"reap", "push", "expire"} =>
           holder[r] \in absent /\ holder[r] # p

\* A claim is on a request of an absent server, out of the in-flight hash,
\* not yet responded to by a reaper, and held by one reaper, which is another
\* process than that server and runs or was killed.
ClaimInv ==
  /\ \A p \in Process :
       reapStep[p] = "push" =>
         /\ holder[claim[p]] \in absent \ {p}
         /\ inflight[claim[p]] = NoServer
         /\ ~Has(claim[p], "lost")
         /\ Executing(p) \/ status[p] = "crashed"
  /\ \A p, q \in Process :
       reapStep[p] = "push" /\ reapStep[q] = "push" /\ claim[p] = claim[q] => p = q

\* The error is written for a request whose owner was absent and whose entry
\* is gone.
LostInv ==
  \A r \in Request :
    Has(r, "lost") => holder[r] \in absent /\ inflight[r] = NoServer

\* A worker is at a request some server holds; past its push, a response is
\* written.
WorkInv ==
  \A r \in Request :
    /\ work[r] # "none" => holder[r] # NoServer
    /\ work[r] \in {"expire", "release"} => written[r] # <<>>

\* Until the call takes one, no response of it is lost, and what it takes is
\* the first one written.
ResponseInv ==
  \A r \in Request :
    /\ /\ call[r] \in {"idle", "checked", "waiting", "quiet", "reaping"}
       /\ status[ClientOf[r]] # "crashed"
       => responses[r] = written[r]
    /\ outcome[r] \in Response => written[r] # <<>> /\ outcome[r] = written[r][1]

IInv ==
  /\ TypeOK
  /\ QueueInv
  /\ LiveInv
  /\ OwnerInv
  /\ SnapshotInv
  /\ ClaimInv
  /\ LostInv
  /\ AtMostOneLost
  /\ WorkInv
  /\ ResponseInv
  /\ NoneVanishes

-----------------------------------------------------------------------------
(* What other theorems need besides.                                       *)

\* A call has no outcome before it is over, and one that was refused closes
\* at once.
OutcomeInv ==
  \A r \in Request :
    /\ call[r] \in {"idle", "checked"} \/ Awaited(r) => outcome[r] = "none"
    /\ call[r] = "closing" => outcome[r] # "refused"

\* A call that waits has been published, and its request stays in its queue
\* until a server takes it.
AskedInv == \A r \in Request : Awaited(r) => Queued(r) \/ holder[r] # NoServer

\* While no Redis call has failed, a server that is neither stopped nor late
\* is in the live set from its first tick until it is killed.
Steady(s) == faults = 0 /\ s \notin Stoppable \cup Stallable
SteadyInv ==
  \A s \in Server : Steady(s) =>
    /\ status[s] \in {"new", "starting", "up", "crashed"}
    /\ reapStep[s] # "done"
    /\ /\ status[s] \in {"new", "starting"}
       /\ reapStep[s] \in {"reap", "push", "expire"}
       => s \in alive
    /\ s \in absent => status[s] = "crashed"

-----------------------------------------------------------------------------
(* The contract of a call, and what of the protocol stands for it.         *)

Asked   == {r \in Request : Queued(r) \/ holder[r] # NoServer}
Verdict == [r \in Request |-> IF written[r] = <<>> THEN "none" ELSE written[r][1]]

Contract == INSTANCE CallContract WITH
  Patient <- {r \in Request : ClientOf[r] \notin Impatient},
  asked <- Asked, taker <- holder, lapsed <- absent,
  verdict <- Verdict, result <- outcome

\* The protocol keeps the contract: a refused call never runs, a request is
\* taken once, the first response written is the one the caller gets, and it
\* speaks of a lost server only if there was one -- whatever queues, snapshots,
\* claims, kills, stops and lost Redis calls come between.
KeepsContract == Contract!Spec
=============================================================================
