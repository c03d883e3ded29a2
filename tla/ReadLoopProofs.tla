--------------------------- MODULE ReadLoopProofs ---------------------------
(***************************************************************************)
(* Proofs of the safety properties of ReadLoop, for any number of requests *)
(* and methods, any caps, and any number of registrations and starts.      *)
(***************************************************************************)
EXTENDS ReadLoop, FiniteSetTheorems, SequenceTheorems, TLAPS

Holders(l)    == {r \in Request : mine[r] = l /\ HoldsSlot(r)}
GlobalHolders == {r \in Request : HoldsGlobal(r)}
Sharers(m, l) == {r \in Request : MethodOf[r] = m /\ mine[r] = l /\ HoldsSlot(r)}

\* No limiter is held by more requests than its cap, whichever of the
\* registrations of a method they came under.
LimiterCaps ==
  /\ \A m \in Method, l \in Limiter : Cardinality(Sharers(m, l)) <= Cap[m]
  /\ Cardinality(GlobalHolders) <= GlobalCap

\* A registration under way has a limiter left to make.
RoomInv == \A m \in Method : change = <<"add", m>> => made < MaxLimiters

\* The loop waits on a request it had room for only if something will ring,
\* its PUBLISH is to come or fell before Redis had processed the SUBSCRIBE.
WakeInv ==
  loop = "wait" /\ ~(Waiting(avail \cap subscribed) \subseteq owed \cup missed) =>
    rung \/ message \/ ear = "ring"

\* A method that still has the limiter it began with has never been without:
\* whoever holds a slot of it, or is about to, holds one of that limiter.
FirstInv ==
  /\ made >= Cardinality(Early)
  /\ \A r \in Request :
       HasFirstLimiter(MethodOf[r]) /\ (at[r] = "slot" \/ HoldsSlot(r))
         => mine[r] = limiter[MethodOf[r]]

IInv ==
  /\ TypeOK
  /\ RoomInv
  /\ SlotsAccounted
  /\ LimiterCaps
  /\ FirstInv
  /\ WakeInv

-----------------------------------------------------------------------------
\* The sets that the counters count are finite.
LEMMA HoldersFinite ==
  /\ \A l : IsFiniteSet(Holders(l)) /\ Cardinality(Holders(l)) \in Nat
  /\ IsFiniteSet(GlobalHolders) /\ Cardinality(GlobalHolders) \in Nat
  /\ \A m, l : IsFiniteSet(Sharers(m, l)) /\ Cardinality(Sharers(m, l)) \in Nat
  <1>1. ASSUME NEW S \in SUBSET Request PROVE IsFiniteSet(S) /\ Cardinality(S) \in Nat
    BY LoopAssumption, FS_Subset, FS_CardinalityType
  <1>2. /\ \A l : Holders(l) \in SUBSET Request
        /\ GlobalHolders \in SUBSET Request
        /\ \A m, l : Sharers(m, l) \in SUBSET Request
    BY DEF Holders, GlobalHolders, Sharers
  <1> QED
    BY <1>1, <1>2

\* Whoever holds a slot is counted.
LEMMA HolderCounts ==
  ASSUME TypeOK, SlotsAccounted, NEW r \in Request
  PROVE  /\ HoldsGlobal(r) => globalInUse > 0
         /\ \A l \in Limiter : mine[r] = l /\ HoldsSlot(r) => inUse[l] > 0
  <1>1. ASSUME HoldsGlobal(r) PROVE globalInUse > 0
    <2>1. globalInUse = Cardinality(GlobalHolders) /\ r \in GlobalHolders
      BY <1>1 DEF SlotsAccounted, GlobalHolders
    <2> QED
      BY <2>1, HoldersFinite, FS_EmptySet
  <1>2. ASSUME NEW l \in Limiter, mine[r] = l, HoldsSlot(r) PROVE inUse[l] > 0
    <2>1. inUse[l] = Cardinality(Holders(l)) /\ r \in Holders(l)
      BY <1>2 DEF SlotsAccounted, Holders
    <2> QED
      BY <2>1, HoldersFinite, FS_EmptySet
  <1> QED
    BY <1>1, <1>2

-----------------------------------------------------------------------------
(* Types.                                                                  *)

LEMMA OneCommand ==
  /\ \A S : <<>> \in Seq(S)
  /\ \A S : \A x \in S : <<x>> \in Seq(S)
  OBVIOUS

LEMMA CommandsType ==
  ASSUME TypeOK PROVE Commands \in Seq(SUBSET Method)
  <1> DEFINE One == IF handlers \subseteq subscribed THEN <<>>
                    ELSE <<subscribed \cup handlers>>
             Two == IF subscribed \subseteq handlers THEN <<>> ELSE <<handlers>>
  <1>1. subscribed \cup handlers \in SUBSET Method /\ handlers \in SUBSET Method
    BY DEF TypeOK
  <1>2. One \in Seq(SUBSET Method) /\ Two \in Seq(SUBSET Method)
    BY <1>1, OneCommand
  <1>3. Commands = One \o Two
    BY DEF Commands
  <1> HIDE DEF One, Two
  <1> QED
    BY <1>2, <1>3, ConcatProperties

LEMMA TypeNext ==
  TypeOK /\ RoomInv /\ SlotsAccounted /\ [Next]_vars => TypeOK' /\ RoomInv'
  <1> SUFFICES ASSUME TypeOK, RoomInv, SlotsAccounted, [Next]_vars
               PROVE  TypeOK' /\ RoomInv'
    OBVIOUS
  <1> USE LoopAssumption DEF TypeOK, RoomInv, Limiter, NoChange, Stage, InHand,
          requests, methods, slots, reader, wakes, listener, lifecycle, MovesTo
  <1>1. ASSUME NEW r \in Request, Push(r) \/ Wake(r) PROVE TypeOK' /\ RoomInv'
    <2>1. CASE Push(r)
      BY <2>1 DEF Push
    <2>2. CASE Wake(r)
      <3>1. message' \in BOOLEAN
        BY <2>2 DEF Wake
      <3> QED
        BY <2>2, <3>1 DEF Wake
    <2> QED
      BY <1>1, <2>1, <2>2
  <1>2. ASSUME NEW r \in Request, Begin(r) \/ Finish(r) \/ RingWhenFreed(r)
        PROVE  TypeOK' /\ RoomInv'
    <2>1. CASE Begin(r)
      <3>1. pool' \in Seq(Request)
        BY <2>1 DEF Begin
      <3> QED
        BY <2>1, <3>1 DEF Begin
    <2>2. CASE Finish(r)
      BY <2>2 DEF Finish
    <2>3. CASE RingWhenFreed(r)
      BY <2>3 DEF RingWhenFreed
    <2> QED
      BY <1>2, <2>1, <2>2, <2>3
  <1>3. ASSUME NEW r \in Request, FreeSlots(r) PROVE TypeOK' /\ RoomInv'
    <2>1. /\ at[r] = "finished"
          /\ at' = [at EXCEPT ![r] = "ringing"]
          /\ mine' = [mine EXCEPT ![r] = 0]
          /\ globalInUse' = globalInUse - 1
          /\ inUse' = IF mine[r] = 0 THEN inUse ELSE [inUse EXCEPT ![mine[r]] = @ - 1]
          /\ UNCHANGED <<methods, rung, reader, listener, lifecycle, pool>>
      BY <1>3 DEF FreeSlots
    <2>2. HoldsSlot(r) /\ HoldsGlobal(r)
      BY <2>1 DEF HoldsSlot, HoldsGlobal
    <2>3. globalInUse > 0 /\ (mine[r] # 0 => inUse[mine[r]] > 0)
      BY <2>2, HolderCounts
    <2>4. globalInUse' \in 0..GlobalCap
      BY <2>1, <2>3
    <2>5. inUse' \in [Limiter -> Nat]
      BY <2>1, <2>3
    <2> QED
      BY <2>1, <2>4, <2>5
  <1>4. ASSUME NEW m \in Method, Register(m) \/ Unregister(m)
        PROVE  TypeOK' /\ RoomInv'
    <2>1. CASE Register(m)
      <3>1. change' = <<"add", m>> /\ made < MaxLimiters /\ made' = made
        BY <2>1 DEF Register
      <3>2. handlers' \subseteq Method /\ change' \in {"add", "drop"} \X Method
        BY <2>1 DEF Register
      <3>3. TypeOK'
        BY <2>1, <3>2 DEF Register
      <3> QED
        BY <3>1, <3>3
    <2>2. CASE Unregister(m)
      <3>1. change' = <<"drop", m>>
        BY <2>2 DEF Unregister
      <3>2. handlers' \subseteq Method /\ change' \in {"add", "drop"} \X Method
        BY <2>2 DEF Unregister
      <3>3. TypeOK'
        BY <2>2, <3>2 DEF Unregister
      <3> QED
        BY <3>1, <3>3
    <2> QED
      BY <1>4, <2>1, <2>2
  <1>5. ASSUME NEW m \in Method, LimiterMade(m) PROVE TypeOK' /\ RoomInv'
    <2>1. made < MaxLimiters /\ made' = made + 1
      BY <1>5 DEF LimiterMade
    <2>2. made' \in Limiter
      BY <2>1
    <2>3. limiter' \in [Method -> {0} \cup Limiter]
      BY <1>5, <2>2 DEF LimiterMade
    <2>4. change' = NoChange /\ rung' = TRUE
      BY <1>5 DEF LimiterMade
    <2>5. UNCHANGED <<requests, handlers, slots, reader, listener, lifecycle, pool>>
      BY <1>5 DEF LimiterMade
    <2>6. TypeOK'
      BY <2>2, <2>3, <2>4, <2>5
    <2> QED
      BY <2>4, <2>6
  <1>6. ASSUME NEW m \in Method, LimiterDropped(m) PROVE TypeOK' /\ RoomInv'
    BY <1>6 DEF LimiterDropped
  <1>7. CASE Look
    <2>1. MethodsWithCapacity \subseteq Method
      BY DEF MethodsWithCapacity
    <2> QED
      BY <1>7, <2>1 DEF Look
  <1>8. CASE LoopExits \/ Clear \/ TakeNothing \/ WaitEnds
    BY <1>8 DEF LoopExits, Clear, TakeNothing, WaitEnds
  <1>9. ASSUME NEW r \in Request, TakeOne(r) \/ FindLimiter(r)
        PROVE  TypeOK' /\ RoomInv'
    <2>1. CASE TakeOne(r)
      BY <2>1 DEF TakeOne
    <2>2. CASE FindLimiter(r)
      <3>1. mine' \in [Request -> {0} \cup Limiter]
        BY <2>2 DEF FindLimiter
      <3>2. at' \in [Request -> Stage]
        BY <2>2 DEF FindLimiter
      <3> QED
        BY <2>2, <3>1, <3>2 DEF FindLimiter
    <2> QED
      BY <1>9, <2>1, <2>2
  <1>10. ASSUME NEW r \in Request, TakeSlot(r) PROVE TypeOK' /\ RoomInv'
    <2>1. at' \in [Request -> Stage]
      BY <1>10 DEF TakeSlot
    <2>2. inUse' \in [Limiter -> Nat]
      <3>1. CASE mine[r] = 0
        BY <1>10, <3>1 DEF TakeSlot
      <3>2. CASE mine[r] # 0
        <4>1. inUse' = [inUse EXCEPT ![mine[r]] = @ + 1]
          BY <1>10, <3>2 DEF TakeSlot
        <4>2. mine[r] \in Limiter /\ inUse[mine[r]] \in Nat
          BY <3>2
        <4>3. inUse[mine[r]] + 1 \in Nat
          BY <4>2
        <4> QED
          BY <4>1, <4>3
      <3> QED
        BY <3>1, <3>2
    <2> QED
      BY <1>10, <2>1, <2>2 DEF TakeSlot
  <1>11. ASSUME NEW r \in Request, TakeGlobalSlot(r) PROVE TypeOK' /\ RoomInv'
    BY <1>11 DEF TakeGlobalSlot
  <1>12. ASSUME NEW r \in Request, Submit(r) PROVE TypeOK' /\ RoomInv'
    <2>1. pool' \in Seq(Request)
      <3>1. pool' = pool \/ pool' = Append(pool, r)
        BY <1>12 DEF Submit
      <3>2. pool \in Seq(Request) /\ Append(pool, r) \in Seq(Request)
        OBVIOUS
      <3> QED
        BY <3>1, <3>2
    <2>2. at' \in [Request -> Stage]
      BY <1>12 DEF Submit
    <2> QED
      BY <1>12, <2>1, <2>2 DEF Submit
  <1>13. CASE EarStep \/ EarFails
    <2>1. CASE Subscribe
      <3>1. Commands \in Seq(SUBSET Method)
        BY CommandsType
      <3>2. sent' \in Seq(SUBSET Method)
        BY <2>1, <3>1, ConcatProperties DEF Subscribe
      <3>3. ear' \in {"off", "tick", "ring"} /\ subscribed' \subseteq Method
        BY <2>1 DEF Subscribe
      <3>4. UNCHANGED <<requests, methods, slots, rung, reader, wakes, lifecycle, pool>>
        BY <2>1 DEF Subscribe
      <3>5. /\ UNCHANGED <<at, mine, handlers, limiter, made, change, inUse, globalInUse>>
            /\ UNCHANGED <<rung, loop, avail, listening, message, owed, missed>>
            /\ UNCHANGED <<life, starts, sizedFor, pool>>
        BY <3>4
      <3> QED
        BY <3>2, <3>3, <3>5
    <2>2. CASE RingForNew \/ Hear
      BY <2>2 DEF RingForNew, Hear
    <2>3. CASE EarFails \/ EarExits
      <3>1. sent' \in Seq(SUBSET Method)
        BY <2>3, OneCommand DEF EarFails, EarExits, Disconnect
      <3> QED
        BY <2>3, <3>1 DEF EarFails, EarExits, Disconnect
    <2> QED
      BY <1>13, <2>1, <2>2, <2>3 DEF EarStep
  <1>14. CASE RedisSubscribes
    <2>1. Head(sent) \in SUBSET Method /\ Tail(sent) \in Seq(SUBSET Method)
      BY <1>14 DEF RedisSubscribes
    <2> QED
      BY <1>14, <2>1 DEF RedisSubscribes
  <1>15. CASE Start \/ StopBegins \/ StopStep
    <2>1. CASE Start
      BY <2>1 DEF Start
    <2>2. CASE StopBegins
      BY <2>2 DEF StopBegins
    <2>3. CASE StopStep
      BY <2>3 DEF StopStep, Shutdown, StopDone
    <2> QED
      BY <1>15, <2>1, <2>2, <2>3
  <1>16. CASE UNCHANGED vars
    BY <1>16 DEF vars
  <1> QED
    BY <1>1, <1>2, <1>3, <1>4, <1>5, <1>6, <1>7, <1>8, <1>9, <1>10, <1>11, <1>12,
       <1>13, <1>14, <1>15, <1>16
    DEF Next, WorkerStep, Registration, Registered, LoopStep

-----------------------------------------------------------------------------
(* Slots and caps.                                                         *)

\* A step that changes neither the counters nor who holds what.
LEMMA SlotsKept ==
  ASSUME SlotsAccounted, LimiterCaps, UNCHANGED slots,
         \A r \in Request :
           /\ HoldsSlot(r)' <=> HoldsSlot(r)
           /\ HoldsGlobal(r)' <=> HoldsGlobal(r)
           /\ HoldsSlot(r) => mine'[r] = mine[r]
  PROVE  SlotsAccounted' /\ LimiterCaps'
  <1>1. \A l \in Limiter : Holders(l)' = Holders(l)
    BY DEF Holders
  <1>2. GlobalHolders' = GlobalHolders
    BY DEF GlobalHolders
  <1>3. \A m \in Method, l \in Limiter : Sharers(m, l)' = Sharers(m, l)
    BY DEF Sharers
  <1> QED
    BY <1>1, <1>2, <1>3
    DEF SlotsAccounted, LimiterCaps, Holders, GlobalHolders, slots

\* A request moves between stages that hold the same slots.
LEMMA StageKept ==
  ASSUME TypeOK, NEW q \in Request, NEW from, NEW to, MovesTo(q, from, to),
         \/ {from, to} \subseteq {"new", "queued", "taken", "slot", "ringing", "done"}
         \/ {from, to} \subseteq {"submit", "pending", "running", "finished", "dropped"}
  PROVE  \A r \in Request :
           /\ HoldsSlot(r)' <=> HoldsSlot(r)
           /\ HoldsGlobal(r)' <=> HoldsGlobal(r)
  BY DEF TypeOK, MovesTo, HoldsSlot, HoldsGlobal

LEMMA TakeSlotNext ==
  ASSUME TypeOK, SlotsAccounted, LimiterCaps, NEW r \in Request, TakeSlot(r)
  PROVE  SlotsAccounted' /\ LimiterCaps'
  <1>1. /\ at[r] = "slot" /\ at' = [at EXCEPT ![r] = "global"]
        /\ mine' = mine
        /\ globalInUse' = globalInUse
    BY DEF TakeSlot, MovesTo
  <1>2. ~HoldsSlot(r) /\ ~HoldsGlobal(r) /\ HoldsSlot(r)' /\ ~HoldsGlobal(r)'
    BY <1>1 DEF HoldsSlot, HoldsGlobal, TypeOK
  <1>3. \A q \in Request : q # r =>
          (HoldsSlot(q)' <=> HoldsSlot(q)) /\ (HoldsGlobal(q)' <=> HoldsGlobal(q))
    BY <1>1 DEF HoldsSlot, HoldsGlobal, TypeOK
  <1>4. GlobalHolders' = GlobalHolders
    BY <1>2, <1>3 DEF GlobalHolders
  <1>5. ASSUME NEW l \in Limiter, l # mine[r]
        PROVE  inUse'[l] = inUse[l] /\ Holders(l)' = Holders(l)
               /\ \A m \in Method : Sharers(m, l)' = Sharers(m, l)
    BY <1>1, <1>2, <1>3, <1>5 DEF Holders, Sharers, TakeSlot, TypeOK
  <1>6. ASSUME NEW l \in Limiter, l = mine[r]
        PROVE  /\ inUse'[l] = Cardinality(Holders(l)')
               /\ \A m \in Method : Cardinality(Sharers(m, l)') <= Cap[m]
    <2>0. l # 0 /\ l \in Nat
      BY DEF Limiter
    <2>1. inUse[l] < Cap[MethodOf[r]] /\ inUse'[l] = inUse[l] + 1
      BY <1>6, <2>0 DEF TakeSlot, TypeOK
    <2>2. Holders(l)' = Holders(l) \cup {r} /\ r \notin Holders(l)
      BY <1>1, <1>2, <1>3, <1>6 DEF Holders
    <2>3. inUse[l] = Cardinality(Holders(l))
      BY DEF SlotsAccounted, Holders
    <2>4. Cardinality(Holders(l) \cup {r}) = Cardinality(Holders(l)) + 1
      BY <2>2, HoldersFinite, FS_AddElement
    <2>5. ASSUME NEW m \in Method, m # MethodOf[r]
          PROVE  Cardinality(Sharers(m, l)') <= Cap[m]
      <3>1. Sharers(m, l)' = Sharers(m, l)
        BY <1>1, <1>3, <2>5 DEF Sharers
      <3> QED
        BY <3>1 DEF LimiterCaps, Sharers
    <2>6. ASSUME NEW m \in Method, m = MethodOf[r]
          PROVE  Cardinality(Sharers(m, l)') <= Cap[m]
      <3>1. Sharers(m, l)' \in SUBSET (Holders(l) \cup {r})
        BY <2>2 DEF Sharers, Holders
      <3>2. IsFiniteSet(Holders(l) \cup {r})
        BY HoldersFinite, FS_AddElement
      <3>3. Cardinality(Sharers(m, l)') <= Cardinality(Holders(l) \cup {r})
        BY <3>1, <3>2, FS_Subset
      <3>4. Cardinality(Sharers(m, l)') \in Nat
        BY <3>1, <3>2, FS_Subset, FS_CardinalityType
      <3>5. Cap[m] \in Nat /\ Cardinality(Holders(l)) \in Nat
        BY LoopAssumption, HoldersFinite
      <3> QED
        BY <2>1, <2>3, <2>4, <2>6, <3>3, <3>4, <3>5
    <2> QED
      BY <2>1, <2>2, <2>3, <2>4, <2>5, <2>6
  <1>7. SlotsAccounted'
    <2>1. \A l \in Limiter : inUse'[l] = Cardinality(Holders(l)')
      BY <1>5, <1>6 DEF SlotsAccounted, Holders
    <2>2. globalInUse' = Cardinality(GlobalHolders')
      BY <1>1, <1>4 DEF SlotsAccounted, GlobalHolders
    <2> QED
      BY <2>1, <2>2 DEF SlotsAccounted, Holders, GlobalHolders
  <1>8. LimiterCaps'
    <2>1. \A m \in Method, l \in Limiter : Cardinality(Sharers(m, l)') <= Cap[m]
      BY <1>5, <1>6 DEF LimiterCaps, Sharers
    <2>2. Cardinality(GlobalHolders') <= GlobalCap
      BY <1>4 DEF LimiterCaps, GlobalHolders
    <2> QED
      BY <2>1, <2>2 DEF LimiterCaps, Sharers, GlobalHolders
  <1> QED
    BY <1>7, <1>8

LEMMA TakeGlobalSlotNext ==
  ASSUME TypeOK, SlotsAccounted, LimiterCaps, NEW r \in Request, TakeGlobalSlot(r)
  PROVE  SlotsAccounted' /\ LimiterCaps'
  <1>1. /\ at[r] = "global" /\ at' = [at EXCEPT ![r] = "submit"]
        /\ mine' = mine
        /\ inUse' = inUse
        /\ globalInUse < GlobalCap
        /\ globalInUse' = globalInUse + 1
    BY DEF TakeGlobalSlot, MovesTo
  <1>2. ~HoldsGlobal(r) /\ HoldsGlobal(r)'
    BY <1>1 DEF HoldsSlot, HoldsGlobal, TypeOK
  <1>3. \A q \in Request : HoldsSlot(q)' <=> HoldsSlot(q)
    BY <1>1 DEF HoldsSlot, TypeOK
  <1>4. \A q \in Request : q # r => (HoldsGlobal(q)' <=> HoldsGlobal(q))
    BY <1>1 DEF HoldsSlot, HoldsGlobal, TypeOK
  <1>5. GlobalHolders' = GlobalHolders \cup {r} /\ r \notin GlobalHolders
    BY <1>2, <1>4 DEF GlobalHolders
  <1>6. globalInUse = Cardinality(GlobalHolders)
    BY DEF SlotsAccounted, GlobalHolders
  <1>7. Cardinality(GlobalHolders \cup {r}) = Cardinality(GlobalHolders) + 1
    BY <1>5, HoldersFinite, FS_AddElement
  <1>8. Cardinality(GlobalHolders') = globalInUse' /\ globalInUse' <= GlobalCap
    BY <1>1, <1>5, <1>6, <1>7, LoopAssumption DEF TypeOK
  <1>9. /\ \A l \in Limiter : Holders(l)' = Holders(l)
        /\ \A m \in Method, l \in Limiter : Sharers(m, l)' = Sharers(m, l)
    BY <1>1, <1>3 DEF Holders, Sharers
  <1>10. SlotsAccounted'
    BY <1>1, <1>8, <1>9 DEF SlotsAccounted, Holders, GlobalHolders
  <1>11. LimiterCaps'
    BY <1>8, <1>9 DEF LimiterCaps, Sharers, GlobalHolders
  <1> QED
    BY <1>10, <1>11

LEMMA FreeSlotsNext ==
  ASSUME TypeOK, SlotsAccounted, LimiterCaps, NEW r \in Request, FreeSlots(r)
  PROVE  SlotsAccounted' /\ LimiterCaps'
  <1>1. /\ at[r] = "finished" /\ at' = [at EXCEPT ![r] = "ringing"]
        /\ mine' = [mine EXCEPT ![r] = 0]
        /\ globalInUse' = globalInUse - 1
        /\ inUse' = IF mine[r] = 0 THEN inUse ELSE [inUse EXCEPT ![mine[r]] = @ - 1]
    BY DEF FreeSlots, MovesTo
  <1>2. HoldsSlot(r) /\ HoldsGlobal(r) /\ ~HoldsSlot(r)' /\ ~HoldsGlobal(r)'
    BY <1>1 DEF HoldsSlot, HoldsGlobal, TypeOK
  <1>3. \A q \in Request : q # r =>
          /\ HoldsSlot(q)' <=> HoldsSlot(q)
          /\ HoldsGlobal(q)' <=> HoldsGlobal(q)
          /\ mine'[q] = mine[q]
    BY <1>1 DEF HoldsSlot, HoldsGlobal, TypeOK
  <1>4. \A l : Holders(l)' = Holders(l) \ {r}
    BY <1>2, <1>3 DEF Holders
  <1>5. GlobalHolders' = GlobalHolders \ {r} /\ r \in GlobalHolders
    BY <1>2, <1>3 DEF GlobalHolders
  <1>6. globalInUse' = Cardinality(GlobalHolders')
    <2>1. Cardinality(GlobalHolders \ {r}) = Cardinality(GlobalHolders) - 1
      BY <1>5, HoldersFinite, FS_RemoveElement
    <2> QED
      BY <1>1, <1>5, <2>1 DEF SlotsAccounted, GlobalHolders
  <1>7. ASSUME NEW l \in Limiter PROVE inUse'[l] = Cardinality(Holders(l)')
    <2>0. l # 0 /\ inUse[l] = Cardinality(Holders(l))
      BY DEF SlotsAccounted, Holders, Limiter
    <2>1. CASE mine[r] = l
      <3>1. r \in Holders(l) /\ inUse'[l] = inUse[l] - 1
        BY <1>1, <1>2, <2>0, <2>1 DEF Holders, TypeOK
      <3>2. Cardinality(Holders(l) \ {r}) = Cardinality(Holders(l)) - 1
        BY <3>1, HoldersFinite, FS_RemoveElement
      <3> QED
        BY <1>4, <2>0, <3>1, <3>2
    <2>2. CASE mine[r] # l
      <3>1. Holders(l)' = Holders(l)
        BY <1>4, <2>2 DEF Holders
      <3>2. inUse'[l] = inUse[l]
        BY <1>1, <2>2 DEF TypeOK
      <3> QED
        BY <2>0, <3>1, <3>2
    <2> QED
      BY <2>1, <2>2
  <1>8. ASSUME NEW m \in Method, NEW l \in Limiter
        PROVE  Cardinality(Sharers(m, l)') <= Cap[m]
    <2>1. Sharers(m, l)' \in SUBSET Sharers(m, l)
      BY <1>2, <1>3 DEF Sharers
    <2>2. Cardinality(Sharers(m, l)') <= Cardinality(Sharers(m, l))
          /\ Cardinality(Sharers(m, l)') \in Nat
      BY <2>1, HoldersFinite, FS_Subset, FS_CardinalityType
    <2>3. Cardinality(Sharers(m, l)) <= Cap[m]
      BY DEF LimiterCaps, Sharers
    <2> QED
      BY <2>2, <2>3, HoldersFinite, LoopAssumption
  <1>9. Cardinality(GlobalHolders') <= GlobalCap
    BY <1>1, <1>6, LoopAssumption DEF TypeOK
  <1>10. SlotsAccounted'
    BY <1>6, <1>7 DEF SlotsAccounted, Holders, GlobalHolders
  <1>11. LimiterCaps'
    BY <1>8, <1>9 DEF LimiterCaps, Sharers, GlobalHolders
  <1> QED
    BY <1>10, <1>11

LEMMA SlotsNext ==
  TypeOK /\ SlotsAccounted /\ LimiterCaps /\ [Next]_vars => SlotsAccounted' /\ LimiterCaps'
  <1> SUFFICES ASSUME TypeOK, SlotsAccounted, LimiterCaps, [Next]_vars
               PROVE  SlotsAccounted' /\ LimiterCaps'
    OBVIOUS
  <1>1. ASSUME NEW r \in Request, NEW from, NEW to, MovesTo(r, from, to),
               UNCHANGED <<mine, slots>>,
               \/ {from, to} \subseteq {"new", "queued", "taken", "slot", "ringing", "done"}
               \/ {from, to} \subseteq {"submit", "pending", "running", "finished", "dropped"}
        PROVE  SlotsAccounted' /\ LimiterCaps'
    BY <1>1, StageKept, SlotsKept
  <1>2. ASSUME UNCHANGED <<requests, slots>> PROVE SlotsAccounted' /\ LimiterCaps'
    BY <1>2, SlotsKept DEF requests, HoldsSlot, HoldsGlobal
  <1>3. ASSUME NEW r \in Request, Push(r) PROVE SlotsAccounted' /\ LimiterCaps'
    BY <1>1, <1>3 DEF Push
  <1>4. ASSUME NEW r \in Request, Begin(r) PROVE SlotsAccounted' /\ LimiterCaps'
    BY <1>1, <1>4 DEF Begin
  <1>5. ASSUME NEW r \in Request, Finish(r) PROVE SlotsAccounted' /\ LimiterCaps'
    BY <1>1, <1>5 DEF Finish
  <1>6. ASSUME NEW r \in Request, RingWhenFreed(r) PROVE SlotsAccounted' /\ LimiterCaps'
    BY <1>1, <1>6 DEF RingWhenFreed
  <1>7. ASSUME NEW r \in Request, TakeOne(r) PROVE SlotsAccounted' /\ LimiterCaps'
    BY <1>1, <1>7 DEF TakeOne
  <1>8. ASSUME NEW r \in Request, Submit(r) PROVE SlotsAccounted' /\ LimiterCaps'
    BY <1>1, <1>8 DEF Submit
  <1>9. ASSUME NEW r \in Request, FindLimiter(r) PROVE SlotsAccounted' /\ LimiterCaps'
    <2>1. \A q \in Request :
            /\ HoldsSlot(q)' <=> HoldsSlot(q)
            /\ HoldsGlobal(q)' <=> HoldsGlobal(q)
      BY <1>9, StageKept DEF FindLimiter
    <2>2. \A q \in Request : HoldsSlot(q) => mine'[q] = mine[q]
      BY <1>9 DEF FindLimiter, MovesTo, HoldsSlot, TypeOK
    <2> QED
      BY <1>9, <2>1, <2>2, SlotsKept DEF FindLimiter
  <1>10. CASE Registration \/ Registered
    BY <1>2, <1>10
    DEF Registration, Registered, Register, Unregister, LimiterMade, LimiterDropped
  <1>11. CASE Look \/ LoopExits \/ Clear \/ TakeNothing \/ WaitEnds
    BY <1>2, <1>11 DEF Look, LoopExits, Clear, TakeNothing, WaitEnds
  <1>12. CASE EarStep \/ EarFails \/ RedisSubscribes
    BY <1>2, <1>12
    DEF EarStep, EarFails, Subscribe, RingForNew, Hear, EarExits, RedisSubscribes
  <1>13. CASE Start \/ StopBegins \/ StopStep
    BY <1>2, <1>13 DEF Start, StopBegins, StopStep, Shutdown, StopDone
  <1>14. ASSUME NEW r \in Request, Wake(r) PROVE SlotsAccounted' /\ LimiterCaps'
    BY <1>2, <1>14 DEF Wake
  <1>15. CASE UNCHANGED vars
    BY <1>2, <1>15 DEF vars
  <1> QED
    BY <1>3, <1>4, <1>5, <1>6, <1>7, <1>8, <1>9, <1>10, <1>11, <1>12, <1>13, <1>14,
       <1>15, TakeSlotNext, TakeGlobalSlotNext, FreeSlotsNext
    DEF Next, WorkerStep, LoopStep

-----------------------------------------------------------------------------
(* Methods that have the limiter they began with.                          *)

\* A step that leaves the limiters alone, and moves requests on without a
\* change of theirs.
LEMMA FirstKept ==
  ASSUME FirstInv, made' = made, limiter' = limiter,
         \A r \in Request : at'[r] = "slot" \/ HoldsSlot(r)' =>
           (at[r] = "slot" \/ HoldsSlot(r)) /\ mine'[r] = mine[r]
  PROVE  FirstInv'
  BY DEF FirstInv, HasFirstLimiter

LEMMA FirstNext == TypeOK /\ FirstInv /\ [Next]_vars => FirstInv'
  <1> SUFFICES ASSUME TypeOK, FirstInv, [Next]_vars PROVE FirstInv'
    OBVIOUS
  <1> USE DEF requests, methods, slots, reader, wakes, listener, lifecycle
  <1>1. ASSUME NEW r \in Request, Push(r) \/ Wake(r) \/ TakeOne(r) PROVE FirstInv'
    BY <1>1, FirstKept DEF Push, Wake, TakeOne, MovesTo, HoldsSlot, TypeOK
  <1>2. ASSUME NEW r \in Request, WorkerStep(r) PROVE FirstInv'
    BY <1>2, FirstKept
    DEF WorkerStep, Begin, Finish, FreeSlots, RingWhenFreed, MovesTo, HoldsSlot, TypeOK
  <1>3. ASSUME NEW m \in Method, Register(m) \/ Unregister(m) PROVE FirstInv'
    BY <1>3, FirstKept DEF Register, Unregister, HoldsSlot
  <1>4. ASSUME NEW m \in Method, LimiterMade(m) \/ LimiterDropped(m) PROVE FirstInv'
    <2>1. Cardinality(Early) \in Nat /\ made \in Nat
      BY LoopAssumption, FS_Subset, FS_CardinalityType DEF TypeOK, Limiter
    <2>2. made' >= Cardinality(Early)
      BY <1>4, <2>1 DEF LimiterMade, LimiterDropped, FirstInv
    <2>3. limiter' = [limiter EXCEPT ![m] = 0]
          \/ limiter' = [limiter EXCEPT ![m] = made + 1]
      BY <1>4 DEF LimiterMade, LimiterDropped
    <2>4. ~HasFirstLimiter(m)'
      BY <2>1, <2>3 DEF FirstInv, TypeOK, HasFirstLimiter
    <2>5. \A n \in Method \ {m} : limiter'[n] = limiter[n]
      BY <2>3 DEF TypeOK
    <2>6. UNCHANGED <<at, mine>>
      BY <1>4 DEF LimiterMade, LimiterDropped
    <2>7. \A r \in Request : HasFirstLimiter(MethodOf[r])' => MethodOf[r] \in Method \ {m}
      BY <2>4, LoopAssumption
    <2> QED
      BY <2>2, <2>5, <2>6, <2>7 DEF FirstInv, HoldsSlot, HasFirstLimiter
  <1>5. ASSUME NEW r \in Request, FindLimiter(r) PROVE FirstInv'
    <2>1. /\ at' = [at EXCEPT ![r] = "slot"]
          /\ mine' = [mine EXCEPT ![r] = limiter[MethodOf[r]]]
          /\ UNCHANGED <<made, limiter>>
      BY <1>5 DEF FindLimiter, MovesTo
    <2> QED
      BY <2>1 DEF FirstInv, HasFirstLimiter, HoldsSlot, TypeOK
  <1>6. ASSUME NEW r \in Request, TakeSlot(r) \/ TakeGlobalSlot(r) \/ Submit(r)
        PROVE  FirstInv'
    BY <1>6, FirstKept DEF TakeSlot, TakeGlobalSlot, Submit, MovesTo, HoldsSlot, TypeOK
  <1>7. CASE Look \/ LoopExits \/ Clear \/ TakeNothing \/ WaitEnds
    BY <1>7, FirstKept DEF Look, LoopExits, Clear, TakeNothing, WaitEnds, HoldsSlot
  <1>8. CASE EarStep \/ EarFails \/ RedisSubscribes
    BY <1>8, FirstKept
    DEF EarStep, EarFails, Subscribe, RingForNew, Hear, EarExits, RedisSubscribes,
        HoldsSlot
  <1>9. CASE Start \/ StopBegins \/ StopStep
    BY <1>9, FirstKept DEF Start, StopBegins, StopStep, Shutdown, StopDone, HoldsSlot
  <1>10. CASE UNCHANGED vars
    BY <1>10, FirstKept DEF vars, HoldsSlot
  <1> QED
    BY <1>1, <1>2, <1>3, <1>4, <1>5, <1>6, <1>7, <1>8, <1>9, <1>10, LoopAssumption
    DEF Next, Registration, Registered, LoopStep

\* Who runs holds a slot of the one limiter of its method.
LEMMA FirstCaps ==
  TypeOK /\ LimiterCaps /\ FirstInv => CapUntilRegisteredAnew
  <1> SUFFICES ASSUME TypeOK, LimiterCaps, FirstInv, NEW m \in Method, HasFirstLimiter(m)
               PROVE  Cardinality(Processed(m)) <= Cap[m]
    BY DEF CapUntilRegisteredAnew
  <1> DEFINE l == limiter[m]
  <1>1. l \in Limiter
    <2>1. Cardinality(Early) \in Nat
      BY LoopAssumption, FS_Subset, FS_CardinalityType
    <2> QED
      BY <2>1 DEF HasFirstLimiter, TypeOK
  <1>2. Processed(m) \in SUBSET Sharers(m, l)
    BY DEF Processed, Sharers, FirstInv, HoldsSlot
  <1>3. /\ Cardinality(Processed(m)) <= Cardinality(Sharers(m, l))
        /\ Cardinality(Processed(m)) \in Nat
    BY <1>2, HoldersFinite, FS_Subset, FS_CardinalityType
  <1>4. Cardinality(Sharers(m, l)) <= Cap[m]
    BY <1>1 DEF LimiterCaps
  <1>5. Cardinality(Sharers(m, l)) \in Nat /\ Cap[m] \in Nat
    BY HoldersFinite, LoopAssumption
  <1> HIDE DEF l
  <1> QED
    BY <1>3, <1>4, <1>5

-----------------------------------------------------------------------------
(* Wakes.                                                                  *)

\* A step that leaves the loop's wait alone, and after which something rings
\* if it did before, and no request more waits without its PUBLISH excused.
LEMMA WakeKept ==
  ASSUME WakeInv,
         loop' = "wait" => loop = "wait" /\ avail' = avail,
         \A r \in Request : at'[r] = "queued" => at[r] = "queued",
         subscribed' \subseteq subscribed,
         UNCHANGED <<owed, missed>>,
         rung \/ message \/ ear = "ring" => rung' \/ message' \/ ear' = "ring"
  PROVE  WakeInv'
  BY DEF WakeInv, Waiting

LEMMA WakeNext == TypeOK /\ WakeInv /\ [Next]_vars => WakeInv'
  <1> SUFFICES ASSUME TypeOK, WakeInv, [Next]_vars PROVE WakeInv'
    OBVIOUS
  <1> USE DEF requests, methods, slots, reader, wakes, listener, lifecycle, MovesTo
  \* A request comes: its PUBLISH is to come.
  <1>1. ASSUME NEW r \in Request, Push(r) PROVE WakeInv'
    <2>1. /\ at' = [at EXCEPT ![r] = "queued"]
          /\ owed' = owed \cup {r}
          /\ UNCHANGED <<rung, loop, avail, ear, subscribed, message, missed>>
      BY <1>1 DEF Push
    <2>2. Waiting(avail \cap subscribed)' \subseteq Waiting(avail \cap subscribed) \cup {r}
      BY <2>1 DEF Waiting, TypeOK
    <2> QED
      BY <2>1, <2>2 DEF WakeInv
  \* The PUBLISH comes: it is heard of, or it fell before the subscription.
  <1>2. ASSUME NEW r \in Request, Wake(r) PROVE WakeInv'
    <2>1. /\ owed' = owed \ {r}
          /\ message' = (message \/ MethodOf[r] \in listening)
          /\ missed' = IF MethodOf[r] \in subscribed \ listening
                        THEN missed \cup {r} ELSE missed
          /\ UNCHANGED <<at, rung, loop, avail, ear, subscribed>>
      BY <1>2 DEF Wake
    <2>2. Waiting(avail \cap subscribed)' = Waiting(avail \cap subscribed)
      BY <2>1 DEF Waiting
    <2>3. CASE MethodOf[r] \in listening
      BY <2>1, <2>3 DEF WakeInv
    <2>4. CASE MethodOf[r] \in subscribed \ listening
      <3>1. message => message'
        BY <2>1, Zenon
      <3>2. missed' = missed \cup {r}
        BY <2>1, <2>4
      <3> QED
        BY <2>1, <2>2, <3>1, <3>2 DEF WakeInv
    <2>5. CASE MethodOf[r] \notin subscribed /\ MethodOf[r] \notin listening
      <3>1. message => message'
        BY <2>1, Zenon
      <3>2. missed' = missed
        BY <2>1, <2>5
      <3>3. r \notin Waiting(avail \cap subscribed)
        BY <2>5 DEF Waiting
      <3> QED
        BY <2>1, <2>2, <3>1, <3>2, <3>3 DEF WakeInv
    <2> QED
      BY <2>3, <2>4, <2>5
  \* The loop goes to sleep: it found nothing, or had room for nothing.
  <1>3. CASE TakeNothing
    <2>1. Waiting(avail \cap subscribed)' = {}
      BY <1>3 DEF TakeNothing, Waiting
    <2> QED
      BY <2>1 DEF WakeInv
  <1>4. CASE Look
    <2>1. loop' = "wait" => avail' = {}
      BY <1>4 DEF Look
    <2>2. avail' = {} => Waiting(avail \cap subscribed)' = {}
      BY DEF Waiting
    <2> QED
      BY <2>1, <2>2 DEF WakeInv
  \* A new subscription rings, since a request may have come before it.
  <1>5. CASE Subscribe
    <2>1. CASE handlers \subseteq subscribed
      BY <1>5, <2>1, WakeKept DEF Subscribe
    <2>2. CASE ~(handlers \subseteq subscribed)
      BY <1>5, <2>2 DEF Subscribe, WakeInv
    <2> QED
      BY <2>1, <2>2
  <1>6. CASE RedisSubscribes
    BY <1>6, WakeKept DEF RedisSubscribes
  <1>7. CASE RingForNew \/ Hear
    BY <1>7 DEF RingForNew, Hear, WakeInv
  <1>8. CASE EarFails \/ EarExits
    <2>1. Waiting(avail \cap subscribed)' = {}
      BY <1>8 DEF EarFails, EarExits, Disconnect, Waiting
    <2> QED
      BY <2>1 DEF WakeInv
  <1>9. CASE LoopExits \/ Clear \/ WaitEnds
    BY <1>9 DEF LoopExits, Clear, WaitEnds, WakeInv
  <1>10. ASSUME NEW r \in Request, TakeOne(r) \/ Submit(r) PROVE WakeInv'
    BY <1>10 DEF TakeOne, Submit, WakeInv
  <1>11. ASSUME NEW r \in Request,
                FindLimiter(r) \/ TakeSlot(r) \/ TakeGlobalSlot(r) \/ WorkerStep(r)
         PROVE  WakeInv'
    BY <1>11, WakeKept
    DEF FindLimiter, TakeSlot, TakeGlobalSlot, WorkerStep, Begin, Finish, FreeSlots,
        RingWhenFreed, TypeOK
  <1>12. CASE Registration \/ Registered
    BY <1>12, WakeKept
    DEF Registration, Registered, Register, Unregister, LimiterMade, LimiterDropped
  <1>13. CASE Start \/ StopBegins \/ StopStep
    <2>1. CASE Start
      BY <2>1 DEF Start, WakeInv
    <2>2. CASE StopBegins \/ StopStep
      BY <2>2, WakeKept DEF StopBegins, StopStep, Shutdown, StopDone
    <2> QED
      BY <1>13, <2>1, <2>2
  <1>14. CASE UNCHANGED vars
    BY <1>14, WakeKept DEF vars
  <1> QED
    BY <1>1, <1>2, <1>3, <1>4, <1>5, <1>6, <1>7, <1>8, <1>9, <1>10, <1>11, <1>12,
       <1>13, <1>14
    DEF Next, LoopStep, EarStep

-----------------------------------------------------------------------------
LEMMA InvInit == Init => IInv
  <1> SUFFICES ASSUME Init PROVE IInv
    OBVIOUS
  <1>1. made \in {0} \cup Limiter
    <2>1. Cardinality(Early) \in Nat
      BY LoopAssumption, FS_Subset, FS_CardinalityType
    <2> QED
      BY <2>1, LoopAssumption DEF Init, Limiter
  <1>2. TypeOK
    <2>1. made \in Nat /\ made <= MaxLimiters
      BY <1>1, LoopAssumption DEF Limiter
    <2>2. limiter \in [Method -> {0} \cup Limiter]
      BY <2>1, LoopAssumption DEF Init, Limiter
    <2>3. /\ at \in [Request -> Stage] /\ mine \in [Request -> {0} \cup Limiter]
          /\ inUse \in [Limiter -> Nat]
      BY DEF Init, Stage, InHand
    <2>4. /\ globalInUse \in 0..GlobalCap /\ starts \in 0..MaxStarts
          /\ handlers \subseteq Method
      BY LoopAssumption DEF Init
    <2>5. pool \in Seq(Request) /\ change \in {NoChange}
      BY DEF Init
    <2>6. rung \in BOOLEAN
      <3>1. rung = (Early # {})
        BY DEF Init
      <3> QED
        BY <3>1, Zenon
    <2>7. message \in BOOLEAN
      BY DEF Init
    <2>8. /\ loop = "off" /\ ear = "off" /\ life = "down"
          /\ avail = {} /\ subscribed = {} /\ sizedFor = {}
          /\ sent = <<>> /\ listening = {} /\ owed = {} /\ missed = {}
      BY DEF Init
    <2> QED
      BY <1>1, <2>2, <2>3, <2>4, <2>5, <2>6, <2>7, <2>8 DEF TypeOK
  <1>3. RoomInv
    BY DEF Init, RoomInv, NoChange
  <1>4. \A r \in Request : ~HoldsSlot(r) /\ ~HoldsGlobal(r)
    BY DEF Init, HoldsSlot, HoldsGlobal
  <1>5. SlotsAccounted /\ LimiterCaps
    <2>1. /\ \A l : Holders(l) = {}
          /\ GlobalHolders = {}
          /\ \A m, l : Sharers(m, l) = {}
      BY <1>4 DEF Holders, GlobalHolders, Sharers
    <2>2. Cardinality({}) = 0
      BY FS_EmptySet
    <2>3. SlotsAccounted
      BY <2>1, <2>2 DEF Init, SlotsAccounted, Holders, GlobalHolders
    <2>4. LimiterCaps
      BY <2>1, <2>2, LoopAssumption DEF LimiterCaps, Sharers, GlobalHolders
    <2> QED
      BY <2>3, <2>4
  <1>6. WakeInv
    BY DEF Init, WakeInv
  <1>7. FirstInv
    <2>1. Cardinality(Early) \in Nat
      BY LoopAssumption, FS_Subset, FS_CardinalityType
    <2> QED
      BY <2>1 DEF Init, FirstInv, HoldsSlot
  <1> QED
    BY <1>2, <1>3, <1>5, <1>6, <1>7 DEF IInv

\* The invariant holds for every number of requests, methods and registrations.
THEOREM Invariance == Spec => []IInv
  <1>1. IInv /\ [Next]_vars => IInv'
    BY TypeNext, SlotsNext, FirstNext, WakeNext DEF IInv
  <1> QED
    BY <1>1, InvInit, PTL DEF Spec

\* Every variable keeps its type; no counter of slots falls below zero.
THEOREM TypeCorrect == Spec => []TypeOK
  BY Invariance, PTL DEF IInv

\* The counters count who holds a slot, through every registration and restart.
THEOREM SlotsAccountedHolds == Spec => []SlotsAccounted
  BY Invariance, PTL DEF IInv

\* No limiter is held by more requests than its cap, nor the server by more
\* than its own.
THEOREM LimiterCapsHold == Spec => []LimiterCaps
  BY Invariance, PTL DEF IInv

\* A method keeps its cap as long as it has the limiter it began with, whatever
\* is done to the others.
THEOREM CapUntilRegisteredAnewHolds == Spec => []CapUntilRegisteredAnew
  <1>1. IInv => CapUntilRegisteredAnew
    BY FirstCaps DEF IInv
  <1> QED
    BY <1>1, Invariance, PTL

\* The loop never sleeps on a request it saw room for without something about
\* to ring.
THEOREM NoMissedWakeHolds == Spec => []NoMissedWake
  <1>1. IInv => NoMissedWake
    BY DEF IInv, WakeInv, NoMissedWake, Asleep, Silent
  <1> QED
    BY <1>1, Invariance, PTL
=============================================================================
