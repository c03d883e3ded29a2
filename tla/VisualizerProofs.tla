-------------------------- MODULE VisualizerProofs --------------------------
(***************************************************************************)
(* Proofs of the properties of Visualizer, for any deployment it watches:  *)
(* each step is one of the watcher, which changes nothing it watches, or   *)
(* one of the processes, which changes nothing the watcher keeps.          *)
(***************************************************************************)
EXTENDS VisualizerInv, AnyCallProofs

LEMMA Watched ==
  ASSUME [VisNext]_visVars
  PROVE  /\ [Next]_vars
         /\ Watch \/ ([Next]_vars /\ UNCHANGED watcher)
  BY DEF VisNext, visVars, Watch, ReadServers, ReadInflight, PollFails, Click

LEMMA VisTypeInit == VisInit => VisTypeOK
  <1> SUFFICES ASSUME VisInit PROVE VisTypeOK
    OBVIOUS
  <1>1. shown \in Snapshot /\ shown.servers = {}
    BY DEF VisInit, Snapshot, Empty, Nobody
  <1>2. story \in [Request -> Seq(Event)]
    BY DEF VisInit
  <1> QED
    BY <1>1, <1>2 DEF VisInit, VisTypeOK

LEMMA NewsType ==
  ASSUME NEW snap, NEW r
  PROVE  NewsOfOwner(snap, r) \in Seq(Event)
  <1>1. NewsOfOwner(snap, r) \in
          {<<>>, <<"taken">>, <<"orphaned">>, <<"answered">>, <<"failed">>}
    BY DEF NewsOfOwner
  <1>2. /\ <<>> \in Seq(Event) /\ <<"taken">> \in Seq(Event)
        /\ <<"orphaned">> \in Seq(Event) /\ <<"answered">> \in Seq(Event)
        /\ <<"failed">> \in Seq(Event)
    BY DEF Event
  <1> QED
    BY <1>1, <1>2

LEMMA VisTypeNext ==
  ASSUME TypeOK, VisTypeOK, [VisNext]_visVars
  PROVE  VisTypeOK'
  <1> USE DEF VisTypeOK
  <1>1. CASE ReadServers
    BY <1>1 DEF ReadServers, screen, rows, TypeOK
  <1>2. CASE ReadInflight
    <2> DEFINE snap == [servers |-> read, owner |-> inflight]
    <2>1. snap \in Snapshot /\ shown' = snap
      BY <1>2 DEF ReadInflight, Shows, Snapshot, TypeOK
    <2>2. selected' \subseteq shown'.servers /\ current' \in shown'.servers \cup {NoServer}
      BY <1>2, <2>1 DEF ReadInflight, RestoreRows
    <2>3. \A r \in Request : NewsOfOwner(snap, r) \in Seq(Event)
      BY NewsType
    <2>4. story' \in [Request -> Seq(Event)]
      BY <1>2, <2>3 DEF ReadInflight
    <2>5. goneLog' \subseteq Server
      BY <1>2 DEF ReadInflight, Before, Empty, Snapshot
    <2> QED
      BY <1>2, <2>1, <2>2, <2>4, <2>5 DEF ReadInflight
  <1>3. CASE PollFails
    <2>1. story' \in [Request -> Seq(Event)]
      BY <1>3 DEF PollFails
    <2>2. UNCHANGED <<shown, selected, current>>
      BY <1>3 DEF PollFails, rows
    <2> QED
      BY <1>3, <2>1, <2>2 DEF PollFails
  <1>4. ASSUME NEW s \in Server, Click(s) PROVE VisTypeOK'
    BY <1>4 DEF Click, screen
  <1>5. CASE UNCHANGED watcher
    BY <1>5 DEF watcher, screen, rows
  <1> QED
    BY <1>1, <1>2, <1>3, <1>4, <1>5, Watched DEF Watch

-----------------------------------------------------------------------------
(* A server that has gone does not come back.                              *)

LEMMA UnrefreshedStays ==
  ASSUME TypeOK, [Next]_vars, NEW s \in Server, Unrefreshed(s)
  PROVE  Unrefreshed(s)'
  <1>0. s \in Process /\ s \notin Client
    BY ProcessAssumption DEF Process
  <1>1. CASE status[s] \in {"down", "crashed"}
    <2> USE DEF TypeOK
    <2>1. ASSUME NEW t \in Server,
                 Start(t) \/ TickEnds(t) \/ Stop(t) \/ Shutdown(t) \/ Exit(t)
          PROVE  status'[s] = status[s]
      <3>1. t # s
        BY <1>1, <2>1 DEF Start, TickEnds, Stop, Shutdown, Exit, Executing
      <3> QED
        BY <1>0, <2>1, <3>1 DEF Start, TickEnds, Stop, Shutdown, Exit
    <2>2. ASSUME NEW p \in Process, Crash(p)
          PROVE  status'[s] \in {"crashed", status[s]}
      BY <1>0, <2>2 DEF Crash
    <2>3. status'[s] \in {"down", "crashed"}
      BY <1>1, <2>1, <2>2, StatusWriters
    <2> QED
      BY <2>3 DEF Unrefreshed
  <1>2. CASE reapStep[s] = "done"
    <2> DEFINE Same == reapStep'[s] = "done"
    <2> SUFFICES Same
      BY DEF Unrefreshed
    <2> USE DEF TypeOK
    <2>1. CASE UNCHANGED <<reapStep, owners, claim>>
      BY <1>2, <2>1
    <2>2. ASSUME NEW t \in Server,
                 ReadOwners(t) \/ Heartbeat(t) \/ HeartbeatFails(t) \/ TickEnds(t)
          PROVE  Same
      BY <1>0, <1>2, <2>2 DEF ReadOwners, Heartbeat, HeartbeatFails, TickEnds
    <2>3. ASSUME NEW p \in Process,
                 FailBackPush(p) \/ FailBackExpire(p) \/ FailBackFails(p)
          PROVE  Same
      BY <1>0, <1>2, <2>3 DEF FailBackPush, FailBackExpire, FailBackFails
    <2>4. ASSUME NEW p \in Process, NEW r \in Request, Claim(p, r) \/ ClaimFails(p, r)
          PROVE  Same
      BY <1>0, <1>2, <2>4 DEF Claim, ClaimFails
    <2>5. ASSUME NEW r \in Request, WaiterReads(r) \/ WaiterReturns(r)
          PROVE  Same
      <3>1. ClientOf[r] # s
        BY <1>0, DeploymentAssumption
      <3> QED
        BY <1>0, <1>2, <2>5, <3>1 DEF WaiterReads, WaiterReturns
    <2>6. ASSUME NEW c \in Client, ReadAlive(c) \/ ReadAliveFails(c)
          PROVE  Same
      <3>1. c # s
        BY <1>0
      <3> QED
        BY <1>0, <1>2, <2>6, <3>1 DEF ReadAlive, ReadAliveFails
    <2> QED
      BY <2>1, <2>2, <2>3, <2>4, <2>5, <2>6, ReaperWriters
  <1> QED
    BY <1>1, <1>2 DEF Unrefreshed

LEMMA GoneStays ==
  ASSUME TypeOK, [Next]_vars, NEW s \in Server, Gone(s)
  PROVE  Gone(s)'
  <1>1. Unrefreshed(s)'
    BY UnrefreshedStays DEF Gone
  <1>2. ASSUME NEW t \in Server, Heartbeat(t) \/ HeartbeatFails(t), s \in alive'
        PROVE  FALSE
    BY <1>2 DEF Heartbeat, HeartbeatFails, Gone, Unrefreshed, Executing
  <1>3. ASSUME NEW t \in Server, TickEnds(t) \/ EntryExpires(t)
        PROVE  s \notin alive'
    BY <1>3 DEF TickEnds, EntryExpires, Gone, redis
  <1> QED
    BY <1>1, <1>2, <1>3, AliveWriters DEF Gone

\* An entry that is not refreshed late expires only when it is not refreshed
\* at all.
LEMMA AliveOrGone ==
  ASSUME TypeOK, [Next]_vars, NEW s \in Server \ Stallable, s \in alive
  PROVE  s \in alive' \/ Gone(s)'
  <1>1. ASSUME NEW t \in Server, EntryExpires(t), t = s
        PROVE  Gone(s)'
    <2>1. Unrefreshed(s)
      BY <1>1 DEF EntryExpires, Unrefreshed
    <2> QED
      BY <1>1, <2>1, UnrefreshedStays DEF EntryExpires, Gone
  <1>2. ASSUME NEW t \in Server, EntryExpires(t), t # s
        PROVE  s \in alive'
    BY <1>2 DEF EntryExpires
  <1>3. ASSUME NEW t \in Server, Heartbeat(t) \/ HeartbeatFails(t) \/ TickEnds(t)
        PROVE  s \in alive'
    BY <1>3 DEF Heartbeat, HeartbeatFails, TickEnds, redis
  <1> QED
    BY <1>1, <1>2, <1>3, AliveWriters

-----------------------------------------------------------------------------
(* Steps of the processes.                                                 *)

LEMMA AbsentStays ==
  ASSUME TypeOK, [Next]_vars
  PROVE  alive \cup absent \subseteq alive' \cup absent'
  BY AliveWriters
  DEF Heartbeat, HeartbeatFails, TickEnds, EntryExpires, redis, history

LEMMA ProcessesKeepLog ==
  ASSUME IInv, GoneIsTrue, [Next]_vars, UNCHANGED watcher
  PROVE  GoneIsTrue'
  <1>1. TypeOK /\ QueueInv /\ absent \subseteq absent' /\ goneLog' = goneLog /\ story' = story
    BY Kept DEF IInv, watcher, screen
  <1>2. ASSUME NEW r \in Request, "orphaned" \in Range(story[r])
        PROVE  holder'[r] \in absent'
    <2>1. holder[r] \in absent
      BY <1>2 DEF GoneIsTrue
    <2>2. holder[r] # NoServer
      BY <1>1, <2>1, ProcessAssumption DEF TypeOK
    <2> QED
      BY <1>1, <2>1, <2>2, HolderKept
  <1> QED
    BY <1>1, <1>2 DEF GoneIsTrue

LEMMA ProcessesKeepShown ==
  ASSUME IInv, VisTypeOK, ShownInv, [Next]_vars, UNCHANGED watcher
  PROVE  ShownInv'
  <1>1. TypeOK /\ QueueInv /\ absent \subseteq absent'
    BY Kept DEF IInv
  <1>2. shown' = shown /\ read' = read /\ poll' = poll
    BY DEF watcher, screen
  <1>3. ASSUME NEW r \in Request, InFlight(shown, r)
        PROVE  holder'[r] = holder[r] /\ holder[r] \in Server /\ Serving(holder[r])'
    <2>1. holder[r] # NoServer /\ Serving(holder[r])
      BY <1>3 DEF ShownInv, InFlight
    <2>2. holder'[r] = holder[r] /\ holder[r] \in Server
      BY <1>1, <2>1, HolderKept DEF TypeOK
    <2> QED
      BY <1>1, <2>1, <2>2, Kept DEF Serving
  <1>4. alive \cup absent \subseteq alive' \cup absent'
    BY <1>1, AbsentStays
  <1> QED
    BY <1>1, <1>2, <1>3, <1>4 DEF ShownInv, InFlight, Serving

LEMMA ProcessesKeepGone ==
  ASSUME IInv, GoneInv, [Next]_vars, UNCHANGED watcher
  PROVE  GoneInv'
  <1>1. TypeOK /\ shown' = shown /\ read' = read /\ poll' = poll
    BY DEF IInv, watcher, screen
  <1> SUFFICES ASSUME NEW s \in Server \ Stallable
               PROVE  /\ s \in shown.servers \cup read => s \in alive' \/ Gone(s)'
                      /\ poll = "inflight" /\ s \in shown.servers \ read => Gone(s)'
    BY <1>1 DEF GoneInv, Gone, Unrefreshed
  <1> QED
    BY <1>1, GoneStays, AliveOrGone DEF GoneInv

LEMMA ProcessesKeepStory ==
  ASSUME IInv, ShownInv, StoryInv, [Next]_vars, UNCHANGED watcher
  PROVE  StoryInv'
  <1>1. TypeOK /\ QueueInv
    BY DEF IInv
  <1>2. UNCHANGED <<shown, read, connected, story>>
    BY DEF watcher, screen
  <1>3. SUFFICES ASSUME NEW r \in Request, holder'[r] \notin Stallable
                 PROVE  /\ ~connected => story[r] = <<>>
                        /\ connected /\ InFlight(shown, r) =>
                             /\ story[r] \in Open
                             /\ story[r] = <<"taken", "orphaned">> =>
                                  /\ Gone(holder[r])'
                                  /\ holder'[r] \notin shown.servers \cup read
                        /\ connected /\ ~InFlight(shown, r) /\ story[r] # <<>> =>
                             /\ story[r] \in Over
                             /\ holder'[r] # NoServer
                             /\ inflight'[r] = NoServer
    BY <1>2 DEF StoryInv, InFlight, Open, Over
  <1>4. holder[r] \notin Stallable
    BY <1>1, <1>3, HolderKept, ProcessAssumption, HazardAssumption
  <1>5. ASSUME connected, InFlight(shown, r)
        PROVE  /\ story[r] \in Open
               /\ story[r] = <<"taken", "orphaned">> =>
                    /\ Gone(holder[r])'
                    /\ holder'[r] \notin shown.servers \cup read
    <2>1. holder[r] # NoServer
      BY <1>5 DEF ShownInv, InFlight
    <2>2. holder'[r] = holder[r] /\ holder[r] \in Server
      BY <1>1, <2>1, HolderKept DEF TypeOK
    <2>3. Gone(holder[r]) => Gone(holder[r])'
      <3>1. ASSUME NEW s \in Server, s = holder[r], Gone(s)
            PROVE  Gone(holder[r])'
        <4>1. Gone(s)'
          BY <1>1, <3>1, GoneStays
        <4> QED
          BY <2>2, <3>1, <4>1 DEF Gone, Unrefreshed
      <3> QED
        BY <2>2, <3>1
    <2> QED
      BY <1>4, <1>5, <2>2, <2>3 DEF StoryInv
  <1>6. ASSUME connected, ~InFlight(shown, r), story[r] # <<>>
        PROVE  story[r] \in Over /\ holder'[r] # NoServer /\ inflight'[r] = NoServer
    <2>1. story[r] \in Over /\ holder[r] # NoServer /\ inflight[r] = NoServer
      BY <1>4, <1>6 DEF StoryInv
    <2> QED
      BY <1>1, <2>1, HolderKept, EntryStaysGone
  <1> QED
    BY <1>4, <1>5, <1>6 DEF StoryInv

-----------------------------------------------------------------------------
(* Steps of the watcher.                                                   *)

\* The owners in a snapshot are those who took the requests, and served.
LEMMA WatchKeepsShown ==
  ASSUME IInv, VisTypeOK, ShownInv, Watch
  PROVE  ShownInv'
  <1>1. UNCHANGED vars
    BY DEF Watch, ReadServers, ReadInflight, PollFails, Click
  <1>2. /\ UNCHANGED <<alive, absent, holder, loop, inflight>>
        /\ \A s : Serving(s)' = Serving(s)
    BY <1>1 DEF vars, redis, server, history, Serving
  <1> USE <1>2 DEF ShownInv, InFlight
  <1>3. CASE ReadServers
    <2>1. shown' = shown /\ read' = alive
      BY <1>3 DEF ReadServers, screen
    <2>2. ASSUME NEW r \in Request, InFlight(shown, r)
          PROVE  holder[r] \in alive \cup absent
      BY <2>2 DEF IInv, LiveInv, TypeOK
    <2> QED
      BY <2>1, <2>2
  <1>4. CASE ReadInflight
    <2>1. shown'.servers = read /\ shown'.owner = inflight /\ poll' = "servers" /\ read' = {}
      BY <1>4 DEF ReadInflight, Shows
    <2>2. \A r \in Request :
            inflight[r] # NoServer => inflight[r] = holder[r] /\ Serving(holder[r])
      BY DEF IInv, OwnerInv
    <2> QED
      BY <2>1, <2>2
  <1>5. CASE PollFails
    BY <1>5 DEF PollFails
  <1>6. ASSUME NEW s \in Server, Click(s) PROVE ShownInv'
    BY <1>6 DEF Click, screen
  <1> QED
    BY <1>3, <1>4, <1>5, <1>6 DEF Watch

LEMMA WatchKeepsGone ==
  ASSUME IInv, VisTypeOK, GoneInv, Watch
  PROVE  GoneInv'
  <1>1. UNCHANGED vars
    BY DEF Watch, ReadServers, ReadInflight, PollFails, Click
  <1>2. alive' = alive /\ \A s : Gone(s)' = Gone(s)
    BY <1>1 DEF vars, redis, reaper, Gone, Unrefreshed
  <1> USE <1>2 DEF GoneInv
  <1>3. CASE ReadServers
    BY <1>3 DEF ReadServers, screen
  <1>4. CASE ReadInflight
    <2>1. shown'.servers = read /\ poll' = "servers" /\ read' = {}
      BY <1>4 DEF ReadInflight, Shows
    <2> QED
      BY <2>1
  <1>5. CASE PollFails
    BY <1>5 DEF PollFails
  <1>6. ASSUME NEW s \in Server, Click(s) PROVE GoneInv'
    BY <1>6 DEF Click, screen
  <1> QED
    BY <1>3, <1>4, <1>5, <1>6 DEF Watch

\* What the log says of a request, one thing more told.
LEMMA ToldOneMore ==
  /\ <<"taken">> \o <<"orphaned">> = <<"taken", "orphaned">>
  /\ <<"taken">> \o <<"answered">> = <<"taken", "answered">>
  /\ <<"taken">> \o <<"failed">> = <<"taken", "failed">>
  /\ <<"taken", "orphaned">> \o <<"failed">> = <<"taken", "orphaned", "failed">>
  <1>1. ASSUME NEW s \in Seq(Event), NEW e \in Event
        PROVE  s \o <<e>> = Append(s, e)
    OBVIOUS
  <1>2. ASSUME NEW a \in Event, NEW b \in Event
        PROVE  <<a>> \o <<b>> = <<a, b>>
    <2>1. <<a>> \in Seq(Event)
      OBVIOUS
    <2>2. <<a, b>> = Append(<<a>>, b)
      OBVIOUS
    <2> QED
      BY <1>1, <2>1, <2>2
  <1>3. ASSUME NEW a \in Event, NEW b \in Event, NEW c \in Event
        PROVE  <<a, b>> \o <<c>> = <<a, b, c>>
    <2>1. <<a, b>> \in Seq(Event)
      OBVIOUS
    <2>2. <<a, b, c>> = Append(<<a, b>>, c)
      OBVIOUS
    <2> QED
      BY <1>1, <2>1, <2>2
  <1>4. {"taken", "orphaned", "answered", "failed"} \subseteq Event
    BY DEF Event
  <1> QED
    BY <1>2, <1>3, <1>4

\* What the comparison of the snapshot with the one before it adds.
LEMMA NewsFacts ==
  ASSUME IInv, VisTypeOK, ShownInv, ReadInflight, NEW r \in Request,
         NEW news, news = NewsOfOwner([servers |-> read, owner |-> inflight], r)
  PROVE  /\ story'[r] = story[r] \o news
         /\ poll = "inflight"
         /\ ~(connected /\ InFlight(shown, r)) =>
              news = IF inflight[r] = NoServer THEN <<>> ELSE <<"taken">>
         /\ connected /\ InFlight(shown, r) =>
              /\ shown.owner[r] = holder[r]
              /\ inflight[r] # NoServer =>
                   /\ inflight[r] = holder[r]
                   /\ news = IF holder[r] \in shown.servers \ read
                               THEN <<"orphaned">> ELSE <<>>
              /\ inflight[r] = NoServer =>
                   news = IF holder[r] \in shown.servers
                            THEN <<"answered">> ELSE <<"failed">>
  <1> DEFINE snap == [servers |-> read, owner |-> inflight]
  <1>1. snap.servers = read /\ snap.owner = inflight
    OBVIOUS
  <1>2. story'[r] = story[r] \o news /\ poll = "inflight"
    BY DEF ReadInflight
  <1>3. inflight[r] # NoServer => inflight[r] = holder[r]
    BY DEF IInv, OwnerInv
  <1>4. CASE ~(connected /\ InFlight(shown, r))
    <2>1. ~InFlight(Before, r)
      BY <1>4 DEF InFlight, Before, Empty, Nobody
    <2> QED
      BY <1>1, <1>2, <1>4, <2>1 DEF NewsOfOwner, InFlight
  <1>5. CASE connected /\ InFlight(shown, r)
    <2>1. Before = shown /\ shown.owner[r] = holder[r]
      BY <1>5 DEF Before, ShownInv
    <2> QED
      BY <1>1, <1>2, <1>3, <1>5, <2>1 DEF NewsOfOwner, InFlight, OwnerAlive
  <1> QED
    BY <1>4, <1>5

LEMMA WatchKeepsLog ==
  ASSUME IInv, VisTypeOK, ShownInv, GoneIsTrue, Watch
  PROVE  GoneIsTrue'
  <1>1. UNCHANGED <<absent, holder>>
    BY DEF Watch, ReadServers, ReadInflight, PollFails, Click, vars, server, history
  <1> USE <1>1 DEF GoneIsTrue
  <1>2. CASE ReadServers
    BY <1>2 DEF ReadServers, screen
  <1>3. CASE ReadInflight
    <2>1. goneLog' \subseteq absent
      BY <1>3 DEF ReadInflight, Before, Empty, ShownInv
    <2>2. ASSUME NEW r \in Request, "orphaned" \in Range(story'[r])
          PROVE  holder[r] \in absent
      <3> DEFINE news == NewsOfOwner([servers |-> read, owner |-> inflight], r)
      <3>1. "orphaned" \in Range(story[r]) \/ "orphaned" \in Range(news)
        <4>1. story[r] \in Seq(Event) /\ news \in Seq(Event)
          BY NewsType DEF VisTypeOK
        <4>2. story'[r] = story[r] \o news
          BY <1>3, NewsFacts
        <4> QED
          BY <2>2, <4>1, <4>2 DEF Range
      <3>2. CASE "orphaned" \in Range(story[r])
        BY <3>2
      <3>3. CASE "orphaned" \in Range(news)
        <4>1. news = <<"orphaned">>
          BY <3>3 DEF NewsOfOwner, Range
        <4>2. holder[r] \in shown.servers \ read
          BY <1>3, <4>1, NewsFacts
        <4> QED
          BY <1>3, <4>2 DEF ReadInflight, ShownInv
      <3> QED
        BY <3>1, <3>2, <3>3
    <2> QED
      BY <2>1, <2>2
  <1>4. CASE PollFails
    BY <1>4 DEF PollFails, Range
  <1>5. ASSUME NEW s \in Server, Click(s) PROVE GoneIsTrue'
    BY <1>5 DEF Click, screen
  <1> QED
    BY <1>2, <1>3, <1>4, <1>5 DEF Watch

LEMMA WatchKeepsStory ==
  ASSUME IInv, VisTypeOK, ShownInv, GoneInv, StoryInv, Watch
  PROVE  StoryInv'
  <1>1. UNCHANGED vars
    BY DEF Watch, ReadServers, ReadInflight, PollFails, Click
  <1>2. UNCHANGED <<holder, inflight, alive>> /\ \A s : Gone(s)' = Gone(s)
    BY <1>1 DEF vars, redis, server, reaper, Gone, Unrefreshed
  <1> DEFINE Tells(r) ==
        /\ ~connected' => story'[r] = <<>>
        /\ connected' /\ InFlight(shown', r) =>
             /\ story'[r] \in Open
             /\ story'[r] = <<"taken", "orphaned">> =>
                  Gone(holder[r]) /\ holder[r] \notin shown'.servers \cup read'
        /\ connected' /\ ~InFlight(shown', r) /\ story'[r] # <<>> =>
             story'[r] \in Over /\ holder[r] # NoServer /\ inflight[r] = NoServer
  <1> SUFFICES ASSUME NEW r \in Request, holder[r] \notin Stallable
               PROVE  Tells(r)
    BY <1>2 DEF StoryInv, InFlight, Open, Over
  <1>3. CASE ReadServers
    <2>1. UNCHANGED <<shown, story, connected>> /\ read' = alive
      BY <1>3 DEF ReadServers, screen
    <2> QED
      BY <2>1 DEF StoryInv, InFlight, Gone
  <1>4. CASE ReadInflight
    <2> DEFINE news == NewsOfOwner([servers |-> read, owner |-> inflight], r)
    <2>1. /\ connected' /\ read' = {}
          /\ shown'.servers = read /\ shown'.owner = inflight
      BY <1>4 DEF ReadInflight, Shows
    <2>2. InFlight(shown', r) <=> inflight[r] # NoServer
      BY <2>1 DEF InFlight
    <2>3. story'[r] = story[r] \o news /\ poll = "inflight"
      BY <1>4, NewsFacts
    <2>4. CASE connected /\ InFlight(shown, r)
      <3>1. /\ story[r] \in Open
            /\ story[r] = <<"taken", "orphaned">> =>
                 Gone(holder[r]) /\ holder[r] \notin shown.servers \cup read
        BY <2>4 DEF StoryInv
      <3>2. shown.owner[r] = holder[r] /\ holder[r] \in Server \ Stallable
        BY <2>4 DEF ShownInv, InFlight, IInv, TypeOK
      <3>3. CASE inflight[r] # NoServer /\ holder[r] \in shown.servers \ read
        <4>1. news = <<"orphaned">> /\ story[r] = <<"taken">>
          BY <1>4, <2>4, <3>1, <3>3, NewsFacts DEF Open
        <4>2. story'[r] = <<"taken", "orphaned">>
          BY <2>3, <4>1, ToldOneMore
        <4>3. Gone(holder[r])
          BY <2>3, <3>2, <3>3 DEF GoneInv
        <4> QED
          BY <2>1, <2>2, <3>3, <4>2, <4>3 DEF Open
      <3>4. CASE inflight[r] # NoServer /\ holder[r] \notin shown.servers \ read
        <4>1. news = <<>>
          BY <1>4, <2>4, <3>4, NewsFacts
        <4>2. story'[r] = story[r]
          BY <2>3, <3>1, <4>1 DEF Open
        <4> QED
          BY <2>1, <2>2, <3>1, <3>4, <4>2
      <3>5. CASE inflight[r] = NoServer
        <4>1. news = IF holder[r] \in shown.servers THEN <<"answered">> ELSE <<"failed">>
          BY <1>4, <2>4, <3>5, NewsFacts
        <4>2. story'[r] \in Over
          <5>1. CASE holder[r] \in shown.servers
            <6>1. story[r] = <<"taken">> /\ news = <<"answered">>
              BY <3>1, <4>1, <5>1 DEF Open
            <6> QED
              BY <2>3, <6>1, ToldOneMore DEF Over
          <5>2. CASE holder[r] \notin shown.servers
            <6>1. news = <<"failed">>
              BY <4>1, <5>2
            <6>2. CASE story[r] = <<"taken">>
              BY <2>3, <6>1, <6>2, ToldOneMore DEF Over
            <6>3. CASE story[r] = <<"taken", "orphaned">>
              BY <2>3, <6>1, <6>3, ToldOneMore DEF Over
            <6> QED
              BY <3>1, <6>2, <6>3 DEF Open
          <5> QED
            BY <5>1, <5>2
        <4> QED
          BY <2>1, <2>2, <3>2, <3>5, <4>2, ProcessAssumption
      <3> QED
        BY <3>3, <3>4, <3>5
    <2>5. CASE ~(connected /\ InFlight(shown, r))
      <3>1. news = IF inflight[r] = NoServer THEN <<>> ELSE <<"taken">>
        BY <1>4, <2>5, NewsFacts
      <3>2. story[r] # <<>> =>
              story[r] \in Over /\ holder[r] # NoServer /\ inflight[r] = NoServer
        BY <2>5 DEF StoryInv
      <3>3. CASE inflight[r] = NoServer
        <4>1. story'[r] = story[r]
          BY <2>3, <3>1, <3>3 DEF VisTypeOK
        <4> QED
          BY <2>1, <2>2, <3>2, <3>3, <4>1
      <3>4. CASE inflight[r] # NoServer
        <4>1. story[r] = <<>> /\ news = <<"taken">>
          BY <3>1, <3>2, <3>4
        <4>2. story'[r] = <<"taken">>
          BY <2>3, <4>1
        <4> QED
          BY <2>1, <2>2, <3>4, <4>2 DEF Open
      <3> QED
        BY <3>3, <3>4
    <2> QED
      BY <2>4, <2>5
  <1>5. CASE PollFails
    BY <1>5 DEF PollFails
  <1>6. ASSUME NEW s \in Server, Click(s) PROVE Tells(r)
    BY <1>6 DEF Click, screen, StoryInv
  <1> QED
    BY <1>3, <1>4, <1>5, <1>6 DEF Watch

-----------------------------------------------------------------------------
(* The theorems.                                                           *)

LEMMA VisInvInit == VisInit => VisInv
  <1> SUFFICES ASSUME VisInit PROVE VisInv
    OBVIOUS
  <1>1. IInv
    BY InvInit DEF VisInit
  <1>2. GoneIsTrue /\ ShownInv /\ GoneInv /\ StoryInv
    BY DEF VisInit, GoneIsTrue, ShownInv, GoneInv, StoryInv, InFlight, Empty, Nobody,
           Range
  <1> QED
    BY <1>1, <1>2, VisTypeInit DEF VisInv

LEMMA VisInvNext == VisInv /\ [VisNext]_visVars => VisInv'
  <1> SUFFICES ASSUME VisInv, [VisNext]_visVars PROVE VisInv'
    OBVIOUS
  <1>1. IInv' /\ VisTypeOK'
    BY Watched, InvNext, VisTypeNext DEF VisInv, IInv
  <1>2. CASE Watch
    BY <1>1, <1>2, WatchKeepsLog, WatchKeepsShown, WatchKeepsGone, WatchKeepsStory
    DEF VisInv
  <1>3. CASE [Next]_vars /\ UNCHANGED watcher
    BY <1>1, <1>3, ProcessesKeepLog, ProcessesKeepShown, ProcessesKeepGone,
       ProcessesKeepStory
    DEF VisInv
  <1> QED
    BY <1>2, <1>3, Watched

\* The visualizer changes nothing it watches: whatever is true of AnyCall is
\* true of it while it is watched.
THEOREM WatchingIsHarmless == VisSpec => Spec
  <1>1. [VisNext]_visVars => [Next]_vars
    BY Watched
  <1>2. VisInit => Init
    BY DEF VisInit
  <1> QED
    BY <1>1, <1>2, PTL DEF VisSpec, Spec

\* The invariant of the watcher and of what it watches holds for every
\* deployment.
THEOREM VisInvariance == VisSpec => []VisInv
  BY VisInvInit, VisInvNext, PTL DEF VisSpec

\* The variables of the window keep their types: what is selected is shown.
THEOREM VisTypeCorrect == VisSpec => []VisTypeOK
  BY VisInvariance, PTL DEF VisInv

\* What the log says of a server that is gone is true, though the poll reads
\* the servers before the requests.
THEOREM GoneIsTrueHolds == VisSpec => []GoneIsTrue
  BY VisInvariance, PTL DEF VisInv

\* The log tells each thing of a request once and in order, unless the
\* heartbeats of its server may be late.
THEOREM ToldOnceInOrderHolds == VisSpec => []ToldOnceInOrder
  <1>1. ASSUME VisInv, NEW r \in Request, holder[r] \notin Stallable
        PROVE  \A i, j \in DOMAIN story[r] :
                 i < j => /\ Rank[story[r][i]] <= Rank[story[r][j]]
                          /\ story[r][i] # story[r][j]
    <2>1. story[r] \in {<<>>} \cup Open \cup Over
      BY <1>1 DEF VisInv, VisTypeOK, StoryInv
    <2>2. CASE story[r] = <<>>
      BY <2>2
    <2>3. CASE story[r] \in Open
      BY <2>3 DEF Open, Rank
    <2>4. CASE story[r] \in Over
      BY <2>4 DEF Over, Rank
    <2> QED
      BY <2>1, <2>2, <2>3, <2>4
  <1>2. VisInv => ToldOnceInOrder
    BY <1>1 DEF ToldOnceInOrder
  <1> QED
    BY <1>2, VisInvariance, PTL

\* A table that calls an owner gone that never was is right after the next
\* poll that succeeds.
THEOREM FalseGoneIsBriefHolds == VisSpec => FalseGoneIsBrief
  <1>1. ASSUME VisInv, [VisNext]_visVars, NEW r \in Request, FalselyGone(r), Refreshed
        PROVE  ~FalselyGone(r)'
    <2>1. ReadInflight
      BY <1>1, Watched
      DEF Refreshed, Watch, ReadServers, PollFails, Click, watcher
    <2>2. /\ shown'.servers = read /\ shown'.owner = inflight
          /\ poll = "inflight" /\ UNCHANGED <<holder, absent>>
      BY <2>1 DEF ReadInflight, Shows, vars, server, history
    <2>3. holder[r] \in read
      BY <1>1, <2>2 DEF FalselyGone, ShownGone, VisInv, ShownInv
    <2>4. inflight[r] # NoServer => inflight[r] = holder[r]
      BY <1>1 DEF VisInv, IInv, OwnerInv
    <2> QED
      BY <2>2, <2>3, <2>4 DEF FalselyGone, ShownGone, InFlight, OwnerAlive
  <1>2. VisInv /\ [VisNext]_visVars =>
          [\A r \in Request : FalselyGone(r) /\ Refreshed => ~FalselyGone(r)']_visVars
    BY <1>1
  <1> QED
    BY <1>2, VisInvariance, PTL DEF VisSpec, FalseGoneIsBrief

\* Refreshing the table of servers selects no row the user has not chosen,
\* unless the current row is one the user has taken out of the selection.
THEOREM SelectionStaysHolds == VisSpec => SelectionStays
  <1>1. ASSUME VisTypeOK, [VisNext]_visVars, Refreshed,
               current \in selected \/ current \notin shown'.servers
        PROVE  selected' \subseteq selected
    <2>1. ReadInflight
      BY <1>1, Watched
      DEF Refreshed, Watch, ReadServers, PollFails, Click, watcher
    <2>2. shown'.servers = read
      BY <2>1 DEF ReadInflight, Shows
    <2> QED
      BY <1>1, <2>1, <2>2 DEF ReadInflight, RestoreRows
  <1>2. VisTypeOK /\ [VisNext]_visVars =>
          [Refreshed /\ (current \in selected \/ current \notin shown'.servers)
             => selected' \subseteq selected]_visVars
    BY <1>1
  <1> QED
    BY <1>2, VisTypeCorrect, PTL DEF VisSpec, SelectionStays
=============================================================================
