---------------------------- MODULE VisualizerInv ----------------------------
(***************************************************************************)
(* The inductive invariant behind the properties of Visualizer, in named   *)
(* parts, beside that of the processes it watches.  VisualizerProofs       *)
(* proves it for every deployment.                                         *)
(***************************************************************************)
EXTENDS Visualizer, AnyCallInv

\* What the window shows was so when it was read: the owner of a request is
\* the server that took it, and a server that is not read again was absent.
\* An owner that is shown had taken its request before this poll began, and so
\* was in the live set before the servers were read.
ShownInv ==
  /\ \A r \in Request :
       InFlight(shown, r) => shown.owner[r] = holder[r] /\ Serving(holder[r])
  /\ shown.servers \subseteq alive \cup absent
  /\ read \subseteq alive \cup absent
  /\ poll = "inflight" =>
       /\ shown.servers \ read \subseteq absent
       /\ \A r \in Request : InFlight(shown, r) => holder[r] \in read \cup absent

\* The entry is gone and nobody is left to make it again.
Gone(s) == s \notin alive /\ Unrefreshed(s)

\* Unless its heartbeats may be late, a server that was seen and is not in the
\* live set any more has gone for good.
GoneInv ==
  \A s \in Server \ Stallable :
    /\ s \in shown.servers \cup read => s \in alive \/ Gone(s)
    /\ poll = "inflight" /\ s \in shown.servers \ read => Gone(s)

\* The ways the log tells of a request that is in flight, and of one that is
\* not any more.  A request is told of from when it is first seen on this
\* connection, its owner is told to be gone when it is gone for good, and what
\* ended is never in flight again.
Open == {<<"taken">>, <<"taken", "orphaned">>}
Over == {<<"taken", "answered">>, <<"taken", "failed">>,
         <<"taken", "orphaned", "failed">>}

StoryInv ==
  \A r \in Request : holder[r] \notin Stallable =>
    /\ ~connected => story[r] = <<>>
    /\ connected /\ InFlight(shown, r) =>
         /\ story[r] \in Open
         /\ story[r] = <<"taken", "orphaned">> =>
              Gone(holder[r]) /\ holder[r] \notin shown.servers \cup read
    /\ connected /\ ~InFlight(shown, r) /\ story[r] # <<>> =>
         story[r] \in Over /\ holder[r] # NoServer /\ inflight[r] = NoServer

VisInv ==
  /\ IInv
  /\ VisTypeOK
  /\ GoneIsTrue
  /\ ShownInv
  /\ GoneInv
  /\ StoryInv
=============================================================================
