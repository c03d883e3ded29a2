----------------------------- MODULE Visualizer -----------------------------
(***************************************************************************)
(* The visualizer, watching the processes of AnyCall: a thread polls Redis *)
(* with one command after the other, a log says what changed between two   *)
(* polls, and a window shows the last poll that succeeded.  It changes     *)
(* nothing it watches, and what it watches changes while it looks.  Of a   *)
(* poll the two reads that depend on each other are modelled, the live set *)
(* and the in-flight hash; the lengths of the queues are left out.         *)
(***************************************************************************)
EXTENDS AnyCall

CONSTANT RowOrder   \* the servers, as the table sorts them

ASSUME RowAssumption == RowOrder \in [Server -> Nat]

VARIABLES
  poll,      \* the step of the poll: what is read next
  read,      \* the live servers this poll has read
  connected, \* whether the last poll succeeded
  shown,     \* the last poll that did, which the tables show
  story,     \* what the log has told of a request on this connection
  goneLog,   \* the servers it called gone at the last poll
  selected,  \* the rows selected in the table of servers
  current    \* the current row of that table, NoServer for none

screen  == <<connected, shown, story, goneLog>>
rows    == <<selected, current>>
watcher == <<poll, read, screen, rows>>
visVars == <<vars, watcher>>

Event == {"taken", "orphaned", "answered", "failed"}

\* A snapshot: the servers alive, and the owner of each request in flight.
Snapshot == [servers : SUBSET Server, owner : [Request -> Server \cup {NoServer}]]
Empty == [servers |-> {}, owner |-> Nobody]

VisTypeOK ==
  /\ poll \in {"servers", "inflight"}
  /\ read \subseteq Server
  /\ connected \in BOOLEAN
  /\ shown \in Snapshot
  /\ story \in [Request -> Seq(Event)]
  /\ goneLog \subseteq Server
  /\ selected \subseteq shown.servers
  /\ current \in shown.servers \cup {NoServer}

VisInit ==
  /\ Init
  /\ poll = "servers"
  /\ read = {}
  /\ connected = FALSE
  /\ shown = Empty
  /\ story = [r \in Request |-> <<>>]
  /\ goneLog = {}
  /\ selected = {}
  /\ current = NoServer

-----------------------------------------------------------------------------
(* ActivityTracker.diff: what is new since the last snapshot.  A failed    *)
(* poll leaves nothing to compare with, so that all is new after it.       *)

Before == IF connected THEN shown ELSE Empty

OwnerAlive(snap, r) == snap.owner[r] \in snap.servers
InFlight(snap, r)   == snap.owner[r] # NoServer

\* Seeded bug: an orphan is news when it is first seen.
NewsOfOwnerAtSight(snap, r) ==
  CASE InFlight(snap, r) /\ ~InFlight(Before, r) ->
         IF OwnerAlive(snap, r) THEN <<"taken">> ELSE <<"taken", "orphaned">>
    [] InFlight(snap, r) /\ InFlight(Before, r) ->
         IF OwnerAlive(Before, r) /\ ~OwnerAlive(snap, r) THEN <<"orphaned">> ELSE <<>>
    [] ~InFlight(snap, r) /\ InFlight(Before, r) ->
         IF OwnerAlive(Before, r) THEN <<"answered">> ELSE <<"failed">>
    [] OTHER -> <<>>

NewsOfOwner(snap, r) ==
  CASE InFlight(snap, r) /\ ~InFlight(Before, r) -> <<"taken">>
    [] InFlight(snap, r) /\ InFlight(Before, r) ->
         IF OwnerAlive(Before, r) /\ ~OwnerAlive(snap, r) THEN <<"orphaned">> ELSE <<>>
    [] ~InFlight(snap, r) /\ InFlight(Before, r) ->
         IF OwnerAlive(Before, r) THEN <<"answered">> ELSE <<"failed">>
    [] OTHER -> <<>>

-----------------------------------------------------------------------------
(* The window.                                                             *)

\* Seeded bug: rows are remembered by their place in the table.
RestoreByPlace(servers) ==
  LET Place(s, all) == Cardinality({t \in all : RowOrder[t] < RowOrder[s]})
  IN  /\ selected' = {s \in servers : \E t \in selected :
                        Place(t, shown.servers) = Place(s, servers)}
      /\ current' = NoServer

\* Seeded bug: the rows are not looked up in the new table.
RestoreUnseen(servers) == UNCHANGED rows

\* The tree is cleared, filled, and its rows restored from the top; making a
\* row the current one selects it and nothing else, so rows above it that
\* were selected with it are not any more.
RestoreRows(servers) ==
  /\ selected' =
       IF current \in servers
         THEN {current} \cup
              {s \in selected \cap servers : RowOrder[s] > RowOrder[current]}
         ELSE selected \cap servers
  /\ current' = IF current \in servers THEN current ELSE NoServer

\* A click on a row selects it alone; with Ctrl it is added or taken away.
Click(s) ==
  /\ s \in shown.servers
  /\ current' = s
  /\ \/ selected' = {s}
     \/ selected' = IF s \in selected THEN selected \ {s} ELSE selected \cup {s}
  /\ UNCHANGED <<vars, poll, read, screen>>

-----------------------------------------------------------------------------
(* The poller.                                                             *)

\* Seeded bug: the servers are read when none is known.
ReadServersOnce ==
  /\ poll = "servers"
  /\ poll' = "inflight"
  /\ read' = IF Before.servers = {} THEN alive ELSE Before.servers
  /\ UNCHANGED <<vars, screen, rows>>

ReadServers ==
  /\ poll = "servers"
  /\ poll' = "inflight"
  /\ read' = alive
  /\ UNCHANGED <<vars, screen, rows>>

\* Seeded bug: the tracker does not keep the snapshot it has compared.
Remembers(snap) == UNCHANGED shown

Shows(snap) == shown' = snap

\* The in-flight hash is read last; the snapshot is compared and shown.
ReadInflight ==
  LET snap == [servers |-> read, owner |-> inflight] IN
    /\ poll = "inflight"
    /\ poll' = "servers"
    /\ read' = {}
    /\ connected' = TRUE
    /\ Shows(snap)
    /\ story' = [r \in Request |-> story[r] \o NewsOfOwner(snap, r)]
    /\ goneLog' = Before.servers \ snap.servers
    /\ RestoreRows(snap.servers)
    /\ UNCHANGED vars

\* Any of the commands raises: the window says so and keeps its tables.
PollFails ==
  /\ poll' = "servers"
  /\ read' = {}
  /\ connected' = FALSE
  /\ story' = [r \in Request |-> <<>>]
  /\ goneLog' = {}
  /\ UNCHANGED <<vars, shown, rows>>

Watch ==
  \/ ReadServers \/ ReadInflight \/ PollFails
  \/ \E s \in Server : Click(s)

VisNext == Watch \/ (Next /\ UNCHANGED watcher)

VisSpec == VisInit /\ [][VisNext]_visVars

-----------------------------------------------------------------------------
\* The log calls a server gone, or a request orphaned, only if the server was
\* without a live entry at some time, although the two reads of a poll are not
\* one.  (Its "answered" and "failed back" are guesses from the last poll.)
GoneIsTrue ==
  /\ goneLog \subseteq absent
  /\ \A r \in Request : "orphaned" \in Range(story[r]) => holder[r] \in absent

\* A poll succeeds, and its snapshot is shown.
Refreshed == poll = "inflight" /\ poll' = "servers" /\ connected'

\* The tables may call an owner gone that never was: one that started, and
\* took the request, after the poll had read the servers.  The next poll that
\* succeeds puts it right.
ShownGone(r) == InFlight(shown, r) /\ ~OwnerAlive(shown, r)
FalselyGone(r) == ShownGone(r) /\ holder[r] \notin absent
FalseGoneIsBrief ==
  [][\A r \in Request : FalselyGone(r) /\ Refreshed => ~FalselyGone(r)']_visVars

\* On one connection the log tells each thing of a request once, and in the
\* order it happens, whatever happens between two polls or during one -- if
\* the heartbeats of its server are never late by the TTL: a server that comes
\* back is told to be gone once more when it goes again.
Rank == [taken |-> 1, orphaned |-> 2, answered |-> 3, failed |-> 3]
ToldOnceInOrder ==
  \A r \in Request : holder[r] \notin Stallable =>
    \A i, j \in DOMAIN story[r] :
      i < j => /\ Rank[story[r][i]] <= Rank[story[r][j]]
               /\ story[r][i] # story[r][j]

\* A refresh of the table moves no selection to another server, whatever came
\* and went above it: while the current row is one of the selected, or has
\* gone, Ctrl-C copies nothing but rows the user has chosen.
SelectionStays ==
  [][Refreshed /\ (current \in selected \/ current \notin shown'.servers)
       => selected' \subseteq selected]_visVars
=============================================================================
