-------------------------- MODULE ReapWindowProofs --------------------------
(***************************************************************************)
(* Proofs of the properties of ReapWindow, for any number of servers and   *)
(* calls, any lengths of the periods and any timeouts.                     *)
(***************************************************************************)
EXTENDS ReapWindow, TLAPS

\* At time t some server had a live entry, or answered without one.
Sign(t) == (\E s \in Server : state[s] # "off" /\ t <= beat[s] + Ttl) \/ t <= late

\* Heartbeats are on time, and no later than now.
BeatInv ==
  /\ \A s \in Server : beat[s] <= now
  /\ \A s \in Server : state[s] = "up" => now <= beat[s] + Period

\* The owner of an entry has started.
OwnerInv == \A c \in inflight : state[holder[c]] # "off"

\* A wait is within its slice.
SliceInv ==
  \A c \in Call : at[c] = "waiting" => slice[c] <= now /\ now <= SliceEnd(c)

\* The timer of the client is set by signs of life only, while there is
\* something it could reap.
ActivityInv ==
  /\ activity <= now
  /\ late <= now
  /\ inflight # {} => Sign(activity)
  /\ inflight # {} /\ (\E c \in Call : at[c] = "waiting" /\ response[c] # "none") => Sign(now)

\* A call in flight began its slice within a Quiet of a sign of life.
PatientInv ==
  \A c \in inflight :
    at[c] = "waiting" /\ Timeout[c] = 0 => \E t \in Nat : Sign(t) /\ slice[c] < t + Quiet

\* A server that beats leaves no entry that was out of the live set then.
ServerInv ==
  \A c \in inflight, s \in Server :
    state[s] = "up" /\ holder[c] # s => beat[s] < beat[holder[c]] + Ttl

IInv ==
  /\ TypeOK
  /\ BeatInv
  /\ OwnerInv
  /\ SliceInv
  /\ ActivityInv
  /\ PatientInv
  /\ ServerInv

-----------------------------------------------------------------------------
LEMMA FailBackTyped ==
  ASSUME TypeOK, NEW orphans, FailBack(orphans)
  PROVE  /\ inflight' = inflight \ orphans
         /\ response' \in [Call -> {"none", "answer", "lost"}]
  BY DEF FailBack, TypeOK

LEMMA TypeNext == TypeOK /\ [Next]_vars => TypeOK'
  <1> SUFFICES ASSUME TypeOK, [Next]_vars PROVE TypeOK'
    OBVIOUS
  <1> USE TimeAssumption DEF TypeOK, servers, calls, redis, State
  <1>1. ASSUME NEW s \in Server, Start(s) PROVE TypeOK'
    BY <1>1, FailBackTyped DEF Start, Beats
  <1>2. ASSUME NEW s \in Server, Tick(s) PROVE TypeOK'
    BY <1>2, FailBackTyped DEF Tick, Beats
  <1>3. ASSUME NEW s \in Server, Leave(s) \/ Stop(s) PROVE TypeOK'
    BY <1>3 DEF Leave, Stop
  <1>4. ASSUME NEW s \in Server, NEW c \in Call, Take(s, c) PROVE TypeOK'
    BY <1>4 DEF Take
  <1>5. ASSUME NEW c \in Call, Answer(c) PROVE TypeOK'
    BY <1>5 DEF Answer
  <1>6. ASSUME NEW c \in Call, Publish(c) PROVE TypeOK'
    BY <1>6 DEF Publish
  <1>7. ASSUME NEW c \in Call, Receive(c) PROVE TypeOK'
    BY <1>7 DEF Receive, Returns
  <1>8. ASSUME NEW c \in Call, SliceEnds(c) PROVE TypeOK'
    <2>1. /\ inflight' \subseteq inflight
          /\ response' \in [Call -> {"none", "answer", "lost"}]
          /\ activity' \in Nat
      BY <1>8, FailBackTyped DEF SliceEnds, ReapsIfQuiet
    <2>2. /\ at' \in [Call -> {"idle", "waiting", "done"}]
          /\ begun' \in [Call -> Nat]
          /\ slice' \in [Call -> Nat]
      BY <1>8 DEF SliceEnds, Returns
    <2> QED
      BY <1>8, <2>1, <2>2 DEF SliceEnds
  <1>9. CASE TimePasses
    BY <1>9 DEF TimePasses
  <1>10. CASE UNCHANGED vars
    BY <1>10 DEF vars
  <1> QED
    BY <1>1, <1>2, <1>3, <1>4, <1>5, <1>6, <1>7, <1>8, <1>9, <1>10 DEF Next

LEMMA BeatNext == TypeOK /\ BeatInv /\ [Next]_vars => BeatInv'
  <1> SUFFICES ASSUME TypeOK, BeatInv, [Next]_vars PROVE BeatInv'
    OBVIOUS
  <1> USE TimeAssumption DEF TypeOK, BeatInv, servers, calls, redis
  <1>1. ASSUME NEW s \in Server, Start(s) PROVE BeatInv'
    BY <1>1 DEF Start, Beats
  <1>2. ASSUME NEW s \in Server, Tick(s) PROVE BeatInv'
    BY <1>2 DEF Tick, Beats
  <1>3. ASSUME NEW s \in Server, Leave(s) \/ Stop(s) PROVE BeatInv'
    BY <1>3 DEF Leave, Stop
  <1>4. CASE TimePasses
    BY <1>4 DEF TimePasses
  <1>5. ASSUME UNCHANGED <<now, servers>> PROVE BeatInv'
    BY <1>5
  <1>6. ASSUME NEW s \in Server, NEW c \in Call, Take(s, c) PROVE BeatInv'
    BY <1>5, <1>6 DEF Take
  <1>7. ASSUME NEW c \in Call, Answer(c) \/ Publish(c) \/ Receive(c) \/ SliceEnds(c)
        PROVE  BeatInv'
    BY <1>5, <1>7 DEF Answer, Publish, Receive, SliceEnds
  <1> QED
    BY <1>1, <1>2, <1>3, <1>4, <1>5, <1>6, <1>7 DEF Next, vars

LEMMA OwnerNext == TypeOK /\ OwnerInv /\ [Next]_vars => OwnerInv'
  <1> SUFFICES ASSUME TypeOK, OwnerInv, [Next]_vars PROVE OwnerInv'
    OBVIOUS
  <1> USE DEF TypeOK, OwnerInv, servers, calls, redis
  <1>k. ASSUME inflight' \subseteq inflight, UNCHANGED <<state, holder>> PROVE OwnerInv'
    BY <1>k
  <1>1. ASSUME NEW s \in Server, Start(s) PROVE OwnerInv'
    BY <1>1 DEF Start, Beats, FailBack
  <1>2. ASSUME NEW s \in Server, Tick(s) PROVE OwnerInv'
    BY <1>2, <1>k DEF Tick, Beats, FailBack
  <1>3. ASSUME NEW s \in Server, Leave(s) \/ Stop(s) PROVE OwnerInv'
    BY <1>3 DEF Leave, Stop
  <1>4. ASSUME NEW s \in Server, NEW c \in Call, Take(s, c) PROVE OwnerInv'
    BY <1>4 DEF Take
  <1>5. ASSUME NEW c \in Call, Answer(c) PROVE OwnerInv'
    BY <1>5, <1>k DEF Answer
  <1>6. ASSUME NEW c \in Call, Publish(c) \/ Receive(c) PROVE OwnerInv'
    BY <1>6, <1>k DEF Publish, Receive
  <1>7. ASSUME NEW c \in Call, SliceEnds(c) PROVE OwnerInv'
    BY <1>7, <1>k DEF SliceEnds, ReapsIfQuiet, FailBack
  <1>8. CASE TimePasses
    BY <1>8, <1>k DEF TimePasses
  <1>9. CASE UNCHANGED vars
    BY <1>9, <1>k DEF vars
  <1> QED
    BY <1>1, <1>2, <1>3, <1>4, <1>5, <1>6, <1>7, <1>8, <1>9 DEF Next

LEMMA SliceNext == TypeOK /\ SliceInv /\ [Next]_vars => SliceInv'
  <1> SUFFICES ASSUME TypeOK, SliceInv, [Next]_vars PROVE SliceInv'
    OBVIOUS
  <1> USE TimeAssumption DEF TypeOK, SliceInv, SliceEnd, Deadline, servers, calls, redis
  <1>k. ASSUME UNCHANGED <<now, calls>> PROVE SliceInv'
    BY <1>k
  <1>r. ASSUME NEW c \in Call, Returns(c), now' = now PROVE SliceInv'
    BY <1>r DEF Returns
  <1>1. ASSUME NEW s \in Server, Start(s) \/ Tick(s) \/ Leave(s) \/ Stop(s) PROVE SliceInv'
    BY <1>1, <1>k DEF Start, Tick, Beats, Leave, Stop
  <1>2. ASSUME NEW s \in Server, NEW c \in Call, Take(s, c) PROVE SliceInv'
    BY <1>2, <1>k DEF Take
  <1>3. ASSUME NEW c \in Call, Answer(c) PROVE SliceInv'
    BY <1>3, <1>k DEF Answer
  <1>4. ASSUME NEW c \in Call, Publish(c) PROVE SliceInv'
    <2>1. CASE \E s \in Server : Listed(s)
      BY <1>4, <2>1 DEF Publish
    <2>2. CASE ~(\E s \in Server : Listed(s))
      BY <1>4, <2>2 DEF Publish
    <2> QED
      BY <2>1, <2>2
  <1>5. ASSUME NEW c \in Call, Receive(c) PROVE SliceInv'
    BY <1>5, <1>r DEF Receive
  <1>6. ASSUME NEW c \in Call, SliceEnds(c) PROVE SliceInv'
    <2>1. CASE Expired(c)
      BY <1>6, <1>r, <2>1 DEF SliceEnds
    <2>2. CASE ~Expired(c)
      BY <1>6, <2>2 DEF SliceEnds, Expired
    <2> QED
      BY <2>1, <2>2
  <1>7. CASE TimePasses
    BY <1>7 DEF TimePasses
  <1>8. CASE UNCHANGED vars
    BY <1>8, <1>k DEF vars
  <1> QED
    BY <1>1, <1>2, <1>3, <1>4, <1>5, <1>6, <1>7, <1>8 DEF Next

-----------------------------------------------------------------------------
\* What was a sign of life stays one.
SignsKept ==
  /\ \A s \in Server : state[s] # "off" => state'[s] # "off" /\ beat[s] <= beat'[s]
  /\ late <= late'

LEMMA SignsKeptNext ==
  ASSUME TypeOK, BeatInv, late <= now, [Next]_vars
  PROVE  SignsKept
  <1> USE DEF TypeOK, BeatInv, SignsKept, servers, calls, redis
  <1>k. ASSUME UNCHANGED <<servers, late>> PROVE SignsKept
    BY <1>k
  <1>1. ASSUME NEW s \in Server, Start(s) PROVE SignsKept
    BY <1>1 DEF Start, Beats
  <1>2. ASSUME NEW s \in Server, Tick(s) PROVE SignsKept
    BY <1>2 DEF Tick, Beats
  <1>3. ASSUME NEW s \in Server, Leave(s) \/ Stop(s) PROVE SignsKept
    BY <1>3 DEF Leave, Stop
  <1>4. ASSUME NEW s \in Server, NEW c \in Call, Take(s, c) PROVE SignsKept
    BY <1>4, <1>k DEF Take
  <1>5. ASSUME NEW c \in Call, Answer(c) PROVE SignsKept
    BY <1>5 DEF Answer
  <1>6. ASSUME NEW c \in Call, Publish(c) \/ Receive(c) \/ SliceEnds(c) PROVE SignsKept
    BY <1>6, <1>k DEF Publish, Receive, SliceEnds
  <1>7. CASE TimePasses
    BY <1>7, <1>k DEF TimePasses
  <1>8. CASE UNCHANGED vars
    BY <1>8, <1>k DEF vars
  <1> QED
    BY <1>1, <1>2, <1>3, <1>4, <1>5, <1>6, <1>7, <1>8 DEF Next

\* A server that runs is a sign of life at this moment.
LEMMA UpIsSign ==
  ASSUME TypeOK, BeatInv, NEW s \in Server, state[s] = "up"
  PROVE  now < beat[s] + Ttl
  BY TimeAssumption DEF TypeOK, BeatInv

LEMMA ListedIsSign ==
  ASSUME TypeOK, NEW s \in Server, Listed(s)
  PROVE  Sign(now)
  BY TimeAssumption DEF TypeOK, Listed, Sign

\* What a client leaves in flight has an owner in the live set.
LEMMA LeftIsListed ==
  ASSUME TypeOK, FailBack({r \in inflight : ~Listed(holder[r])}), NEW c \in inflight'
  PROVE  holder[c] \in Server /\ Listed(holder[c])
  BY DEF FailBack, TypeOK

LEMMA ActivityNext ==
  TypeOK /\ BeatInv /\ OwnerInv /\ ActivityInv /\ [Next]_vars => ActivityInv'
  <1> SUFFICES ASSUME TypeOK, BeatInv, OwnerInv, ActivityInv, [Next]_vars
               PROVE  ActivityInv'
    OBVIOUS
  <1>s. SignsKept
    BY SignsKeptNext DEF ActivityInv
  <1> USE TimeAssumption
  <1>g. /\ Sign(now) /\ now' = now => Sign(now)'
        /\ Sign(activity) /\ activity' = activity => Sign(activity)'
        /\ Sign(now) /\ activity' = now => Sign(activity)'
    <2>1. /\ \A s \in Server : beat[s] \in Int /\ beat'[s] \in Int
          /\ now \in Int /\ activity \in Int /\ late \in Int /\ late' \in Int /\ Ttl \in Int
      BY TypeNext DEF TypeOK
    <2> QED
      BY <1>s, <2>1 DEF Sign, SignsKept
  \* The timer stands, and nobody gets a response that was not there.
  <1>k. ASSUME UNCHANGED <<now, activity, late>>, inflight' \subseteq inflight,
               \A c \in Call : at'[c] = "waiting" /\ response'[c] # "none"
                                 => at[c] = "waiting" /\ response[c] # "none"
        PROVE  ActivityInv'
    <2>1. Sign(now) => Sign(now)'
      BY <1>g, <1>k
    <2>2. Sign(activity) => Sign(activity)'
      BY <1>g, <1>k
    <2> QED
      BY <1>k, <2>1, <2>2 DEF ActivityInv
  \* There is a sign of life at this moment, and the timer stands, or starts.
  <1>n. ASSUME Sign(now), now' = now, late' \in {late, now}, activity' \in {activity, now}
        PROVE  ActivityInv'
    <2>1. Sign(now)'
      BY <1>g, <1>n
    <2>2. Sign(activity)'
      <3>1. CASE activity' = now
        BY <1>g, <1>n, <3>1
      <3>2. CASE activity' = activity
        <4>1. activity <= now /\ now \in Nat /\ activity \in Nat
          BY DEF ActivityInv, TypeOK
        <4>2. Sign(activity)
          BY <1>n, <4>1 DEF Sign, TypeOK
        <4> QED
          BY <1>g, <3>2, <4>2
      <3> QED
        BY <1>n, <3>1, <3>2
    <2>3. activity' <= now' /\ late' <= now'
      BY <1>n DEF ActivityInv, TypeOK
    <2> QED
      BY <2>1, <2>2, <2>3 DEF ActivityInv
  <1>a. activity <= now
    BY DEF ActivityInv
  <1>1. ASSUME NEW s \in Server, Start(s) \/ Tick(s) PROVE ActivityInv'
    <2>1. state'[s] # "off" /\ beat'[s] = now /\ now' = now
          /\ UNCHANGED <<activity, late>>
      BY <1>1 DEF Start, Tick, Beats, TypeOK
    <2>2. Sign(now)' /\ Sign(activity)'
      BY <1>a, <2>1 DEF Sign, TypeOK
    <2> QED
      BY <2>1, <2>2 DEF ActivityInv
  <1>2. ASSUME NEW s \in Server, Leave(s) \/ Stop(s) PROVE ActivityInv'
    BY <1>2, <1>k DEF Leave, Stop, calls, redis
  <1>3. ASSUME NEW s \in Server, NEW c \in Call, Take(s, c) PROVE ActivityInv'
    <2>1. Sign(now)
      BY <1>3, UpIsSign DEF Take, Sign, TypeOK
    <2> QED
      BY <1>3, <1>a, <1>n, <2>1 DEF Take
  <1>4. ASSUME NEW c \in Call, Answer(c) PROVE ActivityInv'
    <2>1. CASE Listed(holder[c])
      <3>1. holder[c] \in Server
        BY <1>4 DEF Answer, TypeOK
      <3>2. Sign(now)
        BY <2>1, <3>1, ListedIsSign
      <3> QED
        BY <1>4, <1>a, <1>n, <3>2 DEF Answer
    <2>2. CASE ~Listed(holder[c])
      <3>1. late' = now /\ now' = now /\ activity' = activity
        BY <1>4, <2>2 DEF Answer
      <3> QED
        BY <1>a, <3>1 DEF ActivityInv, Sign, TypeOK
    <2> QED
      BY <2>1, <2>2
  <1>5. ASSUME NEW c \in Call, Publish(c) PROVE ActivityInv'
    <2>1. CASE \E s \in Server : Listed(s)
      <3>1. Sign(now)
        BY <2>1, ListedIsSign
      <3> QED
        BY <1>5, <1>a, <1>n, <2>1, <3>1 DEF Publish
    <2>2. CASE ~(\E s \in Server : Listed(s))
      BY <1>5, <1>k, <2>2 DEF Publish, redis, TypeOK
    <2> QED
      BY <2>1, <2>2
  <1>6. ASSUME NEW c \in Call, Receive(c) PROVE ActivityInv'
    <2>1. inflight' = inflight /\ now' = now /\ late' = late /\ activity' = now
          /\ at[c] = "waiting" /\ response[c] # "none"
      BY <1>6 DEF Receive, redis
    <2>2. CASE inflight = {}
      BY <2>1, <2>2 DEF ActivityInv, TypeOK
    <2>3. CASE inflight # {}
      BY <1>n, <2>1, <2>3 DEF ActivityInv
    <2> QED
      BY <2>2, <2>3
  <1>7. ASSUME NEW c \in Call, SliceEnds(c) PROVE ActivityInv'
    <2>1. CASE now - activity < Quiet
      BY <1>7, <1>k, <2>1 DEF SliceEnds, ReapsIfQuiet, Returns, TypeOK
    <2>2. CASE ~(now - activity < Quiet)
      <3>1. activity' = now /\ now' = now /\ late' = late
            /\ FailBack({r \in inflight : ~Listed(holder[r])})
        BY <1>7, <2>2 DEF SliceEnds, ReapsIfQuiet
      <3>2. CASE inflight' = {}
        BY <3>1, <3>2 DEF ActivityInv, TypeOK
      <3>3. CASE inflight' # {}
        <4>1. Sign(now)
          BY <3>1, <3>3, LeftIsListed, ListedIsSign
        <4> QED
          BY <1>a, <1>n, <3>1, <4>1
      <3> QED
        BY <3>2, <3>3
    <2> QED
      BY <2>1, <2>2
  <1>8. CASE TimePasses
    <2>1. /\ now' = now + 1
          /\ UNCHANGED <<state, beat, at, inflight, response, activity, late>>
          /\ \A c \in Call : at[c] = "waiting" => response[c] = "none"
      BY <1>8 DEF TimePasses, servers, calls, redis
    <2> QED
      BY <2>1 DEF ActivityInv, Sign, TypeOK
  <1>9. CASE UNCHANGED vars
    BY <1>9, <1>k DEF vars, calls, redis
  <1> QED
    BY <1>1, <1>2, <1>3, <1>4, <1>5, <1>6, <1>7, <1>8, <1>9 DEF Next

-----------------------------------------------------------------------------
\* What PatientInv says of one call.
Patient(c) ==
  at[c] = "waiting" /\ Timeout[c] = 0 => \E t \in Nat : Sign(t) /\ slice[c] < t + Quiet

LEMMA PatientNext ==
  TypeOK /\ BeatInv /\ SliceInv /\ ActivityInv /\ PatientInv /\ [Next]_vars => PatientInv'
  <1> SUFFICES ASSUME TypeOK, BeatInv, SliceInv, ActivityInv, PatientInv, [Next]_vars
               PROVE  PatientInv'
    OBVIOUS
  <1>s. SignsKept
    BY SignsKeptNext DEF ActivityInv
  <1>t. TypeOK'
    BY TypeNext
  <1>g. ASSUME NEW t \in Nat, Sign(t) PROVE Sign(t)'
    <2>1. /\ \A s \in Server : beat[s] \in Int /\ beat'[s] \in Int
          /\ late \in Int /\ late' \in Int /\ Ttl \in Int
      BY <1>t, TimeAssumption DEF TypeOK
    <2> QED
      BY <1>g, <1>s, <2>1 DEF Sign, SignsKept
  <1>p. PatientInv' = \A c \in inflight' : Patient(c)'
    BY DEF PatientInv, Patient
  \* A call in flight whose slice goes on stays patient.
  <1>k. ASSUME NEW c \in inflight, slice'[c] = slice[c],
               at'[c] = "waiting" => at[c] = "waiting"
        PROVE  Patient(c)'
    <2> SUFFICES ASSUME at'[c] = "waiting", Timeout[c] = 0
                 PROVE  \E t \in Nat : Sign(t)' /\ slice'[c] < t + Quiet
      BY DEF Patient
    <2>1. PICK t \in Nat : Sign(t) /\ slice[c] < t + Quiet
      BY <1>k DEF PatientInv
    <2> QED
      BY <1>g, <1>k, <2>1
  \* So does one whose slice begins at a moment with a sign of life.
  <1>n. ASSUME NEW c \in Call, NEW t \in Nat, Sign(t), slice'[c] < t + Quiet
        PROVE  Patient(c)'
    <2>1. Sign(t)'
      BY <1>g, <1>n
    <2> QED
      BY <1>n, <2>1 DEF Patient
  <1>u. ASSUME inflight' \subseteq inflight, UNCHANGED calls PROVE PatientInv'
    BY <1>k, <1>p, <1>u DEF calls
  <1>w. now \in Nat /\ activity \in Nat /\ \A u \in Nat : u < u + Quiet
    BY TimeAssumption DEF TypeOK
  <1>1. ASSUME NEW s \in Server, Start(s) \/ Tick(s) PROVE PatientInv'
    BY <1>1, <1>u DEF Start, Tick, Beats, FailBack
  <1>2. ASSUME NEW s \in Server, Leave(s) \/ Stop(s) PROVE PatientInv'
    BY <1>2, <1>u DEF Leave, Stop, redis
  <1>3. ASSUME NEW s \in Server, NEW c \in Call, Take(s, c) PROVE PatientInv'
    <2>1. Sign(now)
      BY <1>3, UpIsSign, TimeAssumption DEF Take, Sign, TypeOK
    <2>2. Patient(c)'
      <3>1. CASE at[c] = "waiting"
        <4>1. slice'[c] <= now /\ slice'[c] \in Nat
          BY <1>3, <3>1 DEF Take, calls, SliceInv, TypeOK
        <4>2. slice'[c] < now + Quiet
          BY <1>w, <4>1, TimeAssumption
        <4> QED
          BY <1>n, <1>w, <2>1, <4>2
      <3>2. CASE at[c] # "waiting"
        BY <1>3, <3>2 DEF Take, calls, Patient
      <3> QED
        BY <3>1, <3>2
    <2>3. \A d \in inflight' : d = c \/ d \in inflight
      BY <1>3 DEF Take
    <2> QED
      BY <1>3, <1>k, <1>p, <2>2, <2>3 DEF Take, calls
  <1>4. ASSUME NEW c \in Call, Answer(c) PROVE PatientInv'
    BY <1>4, <1>u DEF Answer
  <1>5. ASSUME NEW c \in Call, Publish(c) PROVE PatientInv'
    <2>1. inflight' = inflight
      BY <1>5 DEF Publish, redis
    <2>2. \A d \in inflight : d # c => slice'[d] = slice[d] /\ at'[d] = at[d]
      BY <1>5 DEF Publish, TypeOK
    <2>3. Patient(c)'
      <3>1. CASE \E s \in Server : Listed(s)
        <4>1. Sign(now)
          BY <3>1, ListedIsSign
        <4>2. slice'[c] = now
          BY <1>5, <3>1 DEF Publish, TypeOK
        <4> QED
          BY <1>n, <1>w, <4>1, <4>2
      <3>2. CASE ~(\E s \in Server : Listed(s))
        BY <1>5, <3>2 DEF Publish, Patient, TypeOK
      <3> QED
        BY <3>1, <3>2
    <2> QED
      BY <1>k, <1>p, <2>1, <2>2, <2>3
  <1>r. ASSUME NEW c \in Call, Returns(c)
        PROVE  /\ Patient(c)'
               /\ \A d \in Call : d # c => slice'[d] = slice[d] /\ at'[d] = at[d]
    BY <1>r DEF Returns, Patient, TypeOK
  <1>6. ASSUME NEW c \in Call, Receive(c) PROVE PatientInv'
    <2>1. inflight' = inflight /\ inflight \subseteq Call
      BY <1>6 DEF Receive, redis, TypeOK
    <2> QED
      BY <1>6, <1>k, <1>p, <1>r, <2>1 DEF Receive
  <1>7. ASSUME NEW c \in Call, SliceEnds(c) PROVE PatientInv'
    <2>1. inflight' \subseteq inflight /\ inflight \subseteq Call
      BY <1>7 DEF SliceEnds, ReapsIfQuiet, FailBack, TypeOK
    <2>2. \A d \in Call : d # c => slice'[d] = slice[d] /\ at'[d] = at[d]
      BY <1>7, <1>r DEF SliceEnds, TypeOK
    <2>3. ASSUME c \in inflight' PROVE Patient(c)'
      <3>1. CASE Expired(c)
        BY <1>7, <1>r, <3>1 DEF SliceEnds
      <3>2. CASE ~Expired(c)
        <4>1. slice'[c] = now
          BY <1>7, <3>2 DEF SliceEnds, TypeOK
        <4>2. CASE now - activity < Quiet
          <5>1. Sign(activity)
            BY <2>1, <2>3 DEF ActivityInv
          <5>2. slice'[c] < activity + Quiet
            BY <1>w, <4>1, <4>2, TimeAssumption
          <5> QED
            BY <1>n, <1>w, <5>1, <5>2
        <4>3. CASE ~(now - activity < Quiet)
          <5>1. FailBack({r \in inflight : ~Listed(holder[r])})
            BY <1>7, <4>3 DEF SliceEnds, ReapsIfQuiet
          <5>2. Sign(now)
            BY <2>3, <5>1, LeftIsListed, ListedIsSign
          <5> QED
            BY <1>n, <1>w, <4>1, <5>2
        <4> QED
          BY <4>2, <4>3
      <3> QED
        BY <3>1, <3>2
    <2> QED
      BY <1>k, <1>p, <2>1, <2>2, <2>3
  <1>8. CASE TimePasses
    BY <1>8, <1>u DEF TimePasses, redis
  <1>9. CASE UNCHANGED vars
    BY <1>9, <1>u DEF vars, redis
  <1> QED
    BY <1>1, <1>2, <1>3, <1>4, <1>5, <1>6, <1>7, <1>8, <1>9 DEF Next

-----------------------------------------------------------------------------
LEMMA ServerNext ==
  TypeOK /\ BeatInv /\ OwnerInv /\ ServerInv /\ [Next]_vars => ServerInv'
  <1> SUFFICES ASSUME TypeOK, BeatInv, OwnerInv, ServerInv, [Next]_vars PROVE ServerInv'
    OBVIOUS
  <1> USE TimeAssumption DEF TypeOK, State
  <1>o. \A c \in inflight : holder[c] \in Server
    OBVIOUS
  <1>k. ASSUME inflight' \subseteq inflight, UNCHANGED <<beat, holder>>,
               \A s \in Server : state'[s] = "up" => state[s] = "up"
        PROVE  ServerInv'
    BY <1>k DEF ServerInv
  <1>1. ASSUME NEW s \in Server, Start(s) \/ Tick(s) PROVE ServerInv'
    <2>1. /\ beat' = [beat EXCEPT ![s] = now]
          /\ holder' = holder
          /\ inflight' = inflight \ {c \in inflight : holder[c] # s /\ Pruned(holder[c])}
          /\ \A u \in Server : u # s /\ state'[u] = "up" => state[u] = "up"
      BY <1>1 DEF Start, Tick, Beats, FailBack
    <2>2. ASSUME NEW c \in inflight', NEW u \in Server, state'[u] = "up", holder'[c] # u
          PROVE  beat'[u] < beat'[holder'[c]] + Ttl
      <3>1. c \in inflight /\ holder'[c] = holder[c] /\ holder[c] \in Server
        BY <1>o, <2>1, <2>2
      <3>2. CASE u = s
        <4>1. beat'[u] = now /\ beat'[holder[c]] = beat[holder[c]]
          BY <2>1, <2>2, <3>1, <3>2
        <4>2. state[holder[c]] # "off" /\ ~Pruned(holder[c])
          BY <2>1, <2>2, <3>1, <3>2 DEF OwnerInv
        <4> QED
          BY <3>1, <4>1, <4>2 DEF Pruned
      <3>3. CASE u # s
        <4>1. state[u] = "up" /\ beat'[u] = beat[u]
          BY <2>1, <2>2, <3>3
        <4>2. beat[u] < beat[holder[c]] + Ttl
          BY <2>2, <3>1, <4>1 DEF ServerInv
        <4>3. beat'[holder[c]] >= beat[holder[c]]
          BY <2>1, <3>1 DEF BeatInv
        <4>4. beat'[holder[c]] \in Nat
          BY <2>1, <3>1
        <4> QED
          BY <3>1, <4>1, <4>2, <4>3, <4>4
      <3> QED
        BY <3>2, <3>3
    <2> QED
      BY <2>2 DEF ServerInv
  <1>2. ASSUME NEW s \in Server, Leave(s) \/ Stop(s) PROVE ServerInv'
    BY <1>2, <1>k DEF Leave, Stop, redis
  <1>3. ASSUME NEW s \in Server, NEW c \in Call, Take(s, c) PROVE ServerInv'
    <2>1. /\ state[s] = "up"
          /\ holder' = [holder EXCEPT ![c] = s]
          /\ inflight' = inflight \cup {c}
          /\ UNCHANGED <<state, beat>>
      BY <1>3 DEF Take, servers
    <2>2. \A u \in Server : beat[u] < beat[s] + Ttl
      BY <2>1, UpIsSign DEF BeatInv
    <2> QED
      BY <2>1, <2>2 DEF ServerInv
  <1>4. ASSUME NEW c \in Call, Answer(c) PROVE ServerInv'
    BY <1>4, <1>k DEF Answer, servers
  <1>5. ASSUME NEW c \in Call, Publish(c) \/ Receive(c) PROVE ServerInv'
    BY <1>5, <1>k DEF Publish, Receive, servers, redis
  <1>6. ASSUME NEW c \in Call, SliceEnds(c) PROVE ServerInv'
    BY <1>6, <1>k DEF SliceEnds, ReapsIfQuiet, FailBack, servers
  <1>7. CASE TimePasses
    BY <1>7, <1>k DEF TimePasses, servers, redis
  <1>8. CASE UNCHANGED vars
    BY <1>8, <1>k DEF vars, servers, redis
  <1> QED
    BY <1>1, <1>2, <1>3, <1>4, <1>5, <1>6, <1>7, <1>8 DEF Next

-----------------------------------------------------------------------------
LEMMA InvInit == Init => IInv
  BY TimeAssumption
  DEF Init, IInv, TypeOK, State, BeatInv, OwnerInv, SliceInv, ActivityInv, PatientInv,
      ServerInv

\* The invariant holds for every number of servers and calls.
THEOREM Invariance == Spec => []IInv
  <1>1. IInv /\ [Next]_vars => IInv'
    BY TypeNext, BeatNext, OwnerNext, SliceNext, ActivityNext, PatientNext, ServerNext
    DEF IInv
  <1> QED
    BY <1>1, InvInit, PTL DEF Spec

\* Every variable keeps its type.
THEOREM TypeCorrect == Spec => []TypeOK
  BY Invariance, PTL DEF IInv

\* While a server runs, an entry of another outlives its last heartbeat by
\* less than the TTL and a period.
THEOREM ReapedByServerHolds == Spec => []ReapedByServer
  <1>1. IInv => ReapedByServer
    <2> SUFFICES ASSUME IInv, NEW c \in inflight, NEW s \in Server,
                        state[s] = "up", holder[c] # s
                 PROVE  now < beat[holder[c]] + Ttl + Period
      BY DEF ReapedByServer
    <2>1. beat[s] < beat[holder[c]] + Ttl /\ now <= beat[s] + Period
      BY DEF IInv, ServerInv, BeatInv
    <2>2. holder[c] \in Server /\ beat[holder[c]] \in Nat /\ beat[s] \in Nat /\ now \in Nat
      BY DEF IInv, TypeOK
    <2> QED
      BY <2>1, <2>2, TimeAssumption
  <1> QED
    BY <1>1, Invariance, PTL

\* A call without a timeout sees its orphaned entry reaped within a quiet
\* period and a slice of the last sign of a live server.
THEOREM ReapedByClientHolds == Spec => []ReapedByClient
  <1>1. IInv => ReapedByClient
    <2> SUFFICES ASSUME IInv, NEW c \in Call, c \in inflight,
                        at[c] = "waiting", Timeout[c] = 0
                 PROVE  \/ \E s \in Server : state[s] # "off" /\ now < Latest(s)
                        \/ now < late + Quiet + Slice
      BY DEF ReapedByClient
    <2>1. PICK t \in Nat : Sign(t) /\ slice[c] < t + Quiet
      BY DEF IInv, PatientInv
    <2>2. now <= slice[c] + Slice
      BY DEF IInv, SliceInv, SliceEnd
    <2>3. slice[c] \in Nat /\ now \in Nat /\ late \in Nat /\ \A s \in Server : beat[s] \in Nat
      BY DEF IInv, TypeOK
    <2>4. now < t + Quiet + Slice
      BY <2>1, <2>2, <2>3, TimeAssumption
    <2> QED
      BY <2>1, <2>3, <2>4, TimeAssumption DEF Sign, Latest
  <1> QED
    BY <1>1, Invariance, PTL

\* No wait outlasts the timeout of its call.
THEOREM EndsInTimeHolds == Spec => []EndsInTime
  <1>1. IInv => EndsInTime
    BY TimeAssumption DEF IInv, SliceInv, SliceEnd, EndsInTime, TypeOK, Deadline
  <1> QED
    BY <1>1, Invariance, PTL

\* A server whose heartbeats come in time has none of its requests failed back.
THEOREM LivingIsNeverLostHolds == Spec => LivingIsNeverLost
  <1>1. ASSUME IInv, [Next]_vars, NEW c \in Call, response[c] = "none",
               response'[c] = "lost"
        PROVE  state[holder[c]] # "up"
    <2> USE DEF IInv
    <2>o. c \in inflight => holder[c] \in Server /\ state[holder[c]] # "off"
      BY <1>1 DEF TypeOK, OwnerInv
    <2>b. \A s \in Server : beat[s] \in Nat /\ now \in Nat
      BY <1>1 DEF TypeOK
    <2>1. ASSUME NEW s \in Server, Start(s) \/ Tick(s) PROVE state[holder[c]] # "up"
      <3>1. c \in inflight /\ Pruned(holder[c])
        BY <1>1, <2>1 DEF Start, Tick, Beats, FailBack
      <3> QED
        BY <1>1, <2>o, <2>b, <3>1, TimeAssumption DEF Pruned, BeatInv
    <2>2. ASSUME NEW d \in Call, SliceEnds(d) PROVE state[holder[c]] # "up"
      <3>1. c \in inflight /\ ~Listed(holder[c])
        BY <1>1, <2>2 DEF SliceEnds, ReapsIfQuiet, FailBack
      <3> QED
        BY <1>1, <2>o, <2>b, <3>1, TimeAssumption DEF Listed, BeatInv
    <2>3. ASSUME NEW d \in Call, Answer(d) PROVE FALSE
      BY <1>1, <2>3 DEF Answer
    <2>4. ASSUME response' = response PROVE FALSE
      BY <1>1, <2>4
    <2> QED
      BY <1>1, <2>1, <2>2, <2>3, <2>4
      DEF Next, Leave, Stop, Take, Publish, Receive, TimePasses, vars, redis
  <1>2. IInv /\ [Next]_vars =>
          [\A c \in Call :
             response[c] = "none" /\ response'[c] = "lost" => state[holder[c]] # "up"]_vars
    BY <1>1
  <1> QED
    BY <1>2, Invariance, PTL DEF Spec, LivingIsNeverLost
=============================================================================
