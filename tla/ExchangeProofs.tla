--------------------------- MODULE ExchangeProofs ---------------------------
(***************************************************************************)
(* Proofs of the properties of Exchange, for any number of threads, uses,  *)
(* foreign requests, types and limits.                                     *)
(***************************************************************************)
EXTENDS Exchange, FiniteSetTheorems, TLAPS

Calling(t) == at[t] \in {"begun", "cleared", "waiting", "closing"}

\* A thread in a call has a request of its own, numbered as it began.
NumberInv ==
  \A t \in Thread : Calling(t) =>
    /\ number[t] \in 1..used
    /\ \A u \in Thread : Calling(u) /\ number[u] = number[t] => u = t

\* What a registration must know of the others to be sure that whoever it
\* replaces overlapped it.
RegistryInv ==
  /\ registered = NoType => promised = {}
  /\ registered # NoType => registered \in promised
  /\ \A t \in Registering :
       /\ \A u \in Registering : {type[t], type[u]} \in overlaps \/ type[t] = type[u]
       /\ \A T \in promised : {T, type[t]} \in overlaps \/ T = type[t]

IInv ==
  /\ TypeOK
  /\ NumberInv
  /\ RegistryInv
  /\ DepthBounded
  /\ TypesAgree
  /\ NothingLeftInflight
  /\ CallerIsTold

-----------------------------------------------------------------------------
LEMMA OwnIsId == Own \in SUBSET Nat /\ Own \subseteq Id /\ Own = 1..MaxUses
  BY ExchangeAssumption DEF Own, Id

ThreadTypeOK ==
  /\ default \in Limit
  /\ at \in [Thread -> {"idle", "looked", "begun", "cleared", "waiting", "closing"}]
  /\ number \in [Thread -> 0..MaxUses]
  /\ type \in [Thread -> Type \cup {NoType}]
  /\ \A t \in Thread : at[t] # "idle" => type[t] \in Type
  /\ limit \in [Thread -> 0..MaxDepth]
  /\ outcome \in [Thread -> Outcome]
  /\ shape \in [Foreign -> Shape]

\* Whatever a thread was doing, its locals keep their types when it returns.
LEMMA ReturnsTyped ==
  ASSUME TypeOK, NEW t \in Thread, NEW from, Returns(t, from)
  PROVE  ThreadTypeOK'
  <1>1. 0 \in 0..MaxUses /\ 0 \in 0..MaxDepth /\ "none" \in Outcome
    BY ExchangeAssumption DEF Outcome
  <1>2. /\ at' = [at EXCEPT ![t] = "idle"]
        /\ number' = [number EXCEPT ![t] = 0]
        /\ type' = [type EXCEPT ![t] = NoType]
        /\ limit' = [limit EXCEPT ![t] = 0]
        /\ outcome' = [outcome EXCEPT ![t] = "none"]
        /\ UNCHANGED <<default, shape>>
    BY DEF Returns, Moves
  <1>3. /\ at' \in [Thread -> {"idle", "looked", "begun", "cleared", "waiting", "closing"}]
        /\ type' \in [Thread -> Type \cup {NoType}]
        /\ \A u \in Thread : at'[u] # "idle" => type'[u] \in Type
    BY <1>2 DEF TypeOK
  <1>4. /\ number' \in [Thread -> 0..MaxUses]
        /\ limit' \in [Thread -> 0..MaxDepth]
        /\ outcome' \in [Thread -> Outcome]
    BY <1>1, <1>2 DEF TypeOK
  <1> QED
    BY <1>2, <1>3, <1>4 DEF ThreadTypeOK, TypeOK

\* A response queue stays a sequence of responses.
LEMMA AppendTyped ==
  ASSUME TypeOK, NEW r \in Id \cup {Unknown}, NEW kind \in Kind
  PROVE  [responses EXCEPT ![r] = Append(@, kind)] \in [Id \cup {Unknown} -> Seq(Kind)]
  <1>1. responses[r] \in Seq(Kind) /\ Append(responses[r], kind) \in Seq(Kind)
    BY DEF TypeOK
  <1> QED
    BY <1>1 DEF TypeOK

LEMMA TypeNext == TypeOK /\ NumberInv /\ [Next]_vars => TypeOK'
  <1> SUFFICES ASSUME TypeOK, NumberInv, [Next]_vars PROVE TypeOK'
    OBVIOUS
  <1> USE ExchangeAssumption, OwnIsId
  <1> USE DEF TypeOK, registry, thread, caller, Kind, Stage, Outcome, Shape, Moves,
              Returns, Sends, Uses, AtStage
  <1>n. \A t \in Thread : Calling(t) => number[t] \in Own
    BY DEF NumberInv
  <1>1. ASSUME NEW depth \in Limit, SetDefault(depth) PROVE TypeOK'
    BY <1>1 DEF SetDefault
  <1>2. ASSUME NEW t \in Thread, NEW new \in Type, Look(t, new) PROVE TypeOK'
    <2>1. used' \in 0..MaxUses
      BY <1>2 DEF Look
    <2>2. CASE registered = NoType
      <3>1. \A u \in Registering : type[u] \in Type
        BY DEF Registering
      <3>2. {{new, type[u]} : u \in Registering} \subseteq SUBSET Type
        <4> SUFFICES ASSUME NEW X \in {{new, type[u]} : u \in Registering}
                     PROVE  X \in SUBSET Type
          OBVIOUS
        <4>1. PICK u \in Registering : X = {new, type[u]}
          OBVIOUS
        <4> QED
          BY <3>1, <4>1
      <3>3. /\ at' = [at EXCEPT ![t] = "looked"]
            /\ type' = [type EXCEPT ![t] = new]
            /\ overlaps' = overlaps \cup {{new, type[u]} : u \in Registering}
            /\ UNCHANGED <<promised, registered, number, limit, outcome, queue,
                           inflight, responses, stage, default, shape>>
        BY <1>2, <2>2, Zenon DEF Look
      <3>4. /\ at' \in [Thread -> {"idle", "looked", "begun", "cleared", "waiting", "closing"}]
            /\ type' \in [Thread -> Type \cup {NoType}]
            /\ \A u \in Thread : at'[u] # "idle" => type'[u] \in Type
        BY <3>3
      <3> QED
        BY <2>1, <3>2, <3>3, <3>4
    <2>3. CASE registered # NoType
      <3>1. /\ at' = at
            /\ promised' = promised \cup {new}
            /\ UNCHANGED <<type, overlaps, registered, number, limit, outcome, queue,
                           inflight, responses, stage, default, shape>>
        BY <1>2, <2>3 DEF Look
      <3> QED
        BY <2>1, <3>1
    <2> QED
      BY <2>2, <2>3
  <1>3. ASSUME NEW t \in Thread, Store(t) PROVE TypeOK'
    BY <1>3 DEF Store
  <1>4. ASSUME NEW t \in Thread, Begin(t) PROVE TypeOK'
    <2>1. CASE Returns(t, "idle")
      BY <1>4, <2>1 DEF Begin
    <2>2. CASE ~Returns(t, "idle")
      <3>1. PICK as \in Decodes, depth \in Limit \cup {default} :
              /\ at' = [at EXCEPT ![t] = "begun"]
              /\ number' = [number EXCEPT ![t] = used']
              /\ type' = [type EXCEPT ![t] = as]
              /\ limit' = [limit EXCEPT ![t] = depth]
        BY <1>4, <2>2 DEF Begin
      <3>2. as \in Type /\ depth \in 0..MaxDepth /\ used' \in 0..MaxUses
        <4>1. as \in Type
          BY DEF Decodes
        <4>2. depth \in 0..MaxDepth
          OBVIOUS
        <4>3. used' \in 0..MaxUses
          BY <1>4 DEF Begin
        <4> QED
          BY <4>1, <4>2, <4>3
      <3>3. /\ at' \in [Thread -> {"idle", "looked", "begun", "cleared", "waiting", "closing"}]
            /\ number' \in [Thread -> 0..MaxUses]
            /\ type' \in [Thread -> Type \cup {NoType}]
            /\ limit' \in [Thread -> 0..MaxDepth]
            /\ \A u \in Thread : at'[u] # "idle" => type'[u] \in Type
        BY <3>1, <3>2
      <3> QED
        BY <1>4, <2>2, <3>2, <3>3 DEF Begin
    <2> QED
      BY <2>1, <2>2
  <1>5. ASSUME NEW t \in Thread, CheckDepth(t) PROVE TypeOK'
    <2>1. CASE Returns(t, "begun")
      BY <1>5, <2>1, ReturnsTyped DEF CheckDepth, ThreadTypeOK
    <2>2. CASE Moves(t, "begun", "cleared") /\ UNCHANGED <<number, type, limit, outcome>>
      BY <1>5, <2>2 DEF CheckDepth
    <2> QED
      BY <1>5, <2>1, <2>2, Zenon DEF CheckDepth
  <1>6. ASSUME NEW t \in Thread, Publish(t) PROVE TypeOK'
    <2>1. number[t] \in Id
      BY <1>6, <1>n DEF Publish, Calling
    <2> QED
      BY <1>6, <2>1 DEF Publish
  <1>7. ASSUME NEW t \in Thread, Receive(t) PROVE TypeOK'
    <2>1. number[t] \in Id
      BY <1>7, <1>n DEF Receive, Calling
    <2>2. /\ responses[number[t]] \in Seq(Kind)
          /\ Tail(responses[number[t]]) \in Seq(Kind)
          /\ Head(responses[number[t]]) \in Kind
      BY <1>7, <2>1 DEF Receive
    <2>3. Decoded(t, Head(responses[number[t]])) \in Outcome
      BY <2>2 DEF Decoded
    <2>4. /\ responses' \in [Id \cup {Unknown} -> Seq(Kind)]
          /\ outcome' \in [Thread -> Outcome]
      BY <1>7, <2>2, <2>3 DEF Receive
    <2> QED
      BY <1>7, <2>4 DEF Receive
  <1>8. ASSUME NEW t \in Thread, TimeOut(t) PROVE TypeOK'
    BY <1>8 DEF TimeOut
  <1>9. ASSUME NEW t \in Thread, Close(t) PROVE TypeOK'
    <2>1. responses' \in [Id \cup {Unknown} -> Seq(Kind)]
      <3>1. responses' = [responses EXCEPT ![number[t]] = <<>>]
        BY <1>9 DEF Close
      <3>2. <<>> \in Seq(Kind)
        OBVIOUS
      <3> QED
        BY <3>1, <3>2
    <2>2. ThreadTypeOK'
      BY <1>9, ReturnsTyped DEF Close
    <2> QED
      BY <1>9, <2>1, <2>2 DEF Close, ThreadTypeOK
  <1>10. ASSUME NEW f \in Foreign, SendForeign(f) PROVE TypeOK'
    BY <1>10 DEF SendForeign, Id
  <1>11. ASSUME NEW r \in Id, Take(r) PROVE TypeOK'
    <2>1. inflight' \subseteq Id
      BY <1>11 DEF Take
    <2>2. queue' \in Seq(Id)
      <3>1. queue # <<>> /\ queue' = Tail(queue)
        BY <1>11 DEF Take
      <3> QED
        BY <3>1
    <2> QED
      BY <1>11, <2>1, <2>2 DEF Take
  <1>12. ASSUME NEW r \in Id, Respond(r) PROVE TypeOK'
    <2>1. PICK kind \in Replies(r) :
            responses' = [responses EXCEPT ![Address(r, kind)] = Append(@, kind)]
      BY <1>12 DEF Respond
    <2>2. kind \in Kind
      BY DEF Replies
    <2>3. responses' \in [Id \cup {Unknown} -> Seq(Kind)]
      <3>1. Address(r, kind) \in Id \cup {Unknown}
        BY DEF Address
      <3> QED
        BY <2>1, <2>2, <3>1, AppendTyped
    <2> QED
      BY <1>12, <2>3 DEF Respond
  <1>13. ASSUME NEW r \in Id, RunExits(r) PROVE TypeOK'
    BY <1>13 DEF RunExits
  <1>14. ASSUME NEW r \in Id, Reap(r) PROVE TypeOK'
    BY <1>14 DEF Reap
  <1>15. CASE UNCHANGED vars
    BY <1>15 DEF vars
  <1> QED
    BY <1>1, <1>2, <1>3, <1>4, <1>5, <1>6, <1>7, <1>8, <1>9, <1>10, <1>11, <1>12,
       <1>13, <1>14, <1>15
    DEF Next, CallStep, ServerStep

-----------------------------------------------------------------------------
\* Nobody begins a call: those that go on keep their numbers.
LEMMA NumberKept ==
  ASSUME TypeOK, NumberInv, used' \in Nat, used <= used',
         \A t \in Thread : Calling(t)' => Calling(t) /\ number'[t] = number[t]
  PROVE  NumberInv'
  <1> QED
    BY ExchangeAssumption DEF NumberInv, TypeOK

LEMMA NumberNext == TypeOK /\ NumberInv /\ [Next]_vars => NumberInv'
  <1> SUFFICES ASSUME TypeOK, NumberInv, [Next]_vars PROVE NumberInv'
    OBVIOUS
  <1> DEFINE Kept == \A t \in Thread : Calling(t)' => Calling(t) /\ number'[t] = number[t]
  <1>u. used \in Nat
    BY ExchangeAssumption DEF TypeOK
  <1>k. ASSUME UNCHANGED <<at, number, used>> PROVE NumberInv'
    <2>1. Kept
      BY <1>k DEF Calling
    <2> QED
      BY <1>k, <1>u, <2>1, NumberKept
  <1>r. ASSUME NEW t \in Thread, NEW from, Returns(t, from) PROVE Kept
    <2>1. /\ at' = [at EXCEPT ![t] = "idle"]
          /\ number' = [number EXCEPT ![t] = 0]
      BY <1>r DEF Returns, Moves
    <2> QED
      BY <2>1 DEF Calling, TypeOK
  <1>1. ASSUME NEW depth \in Limit, SetDefault(depth) PROVE NumberInv'
    BY <1>1, <1>k DEF SetDefault, thread
  <1>2. ASSUME NEW t \in Thread, NEW new \in Type, Look(t, new) PROVE NumberInv'
    <2>1. used' = used + 1 /\ number' = number
      BY <1>2 DEF Look, Uses
    <2>2. at' \in {[at EXCEPT ![t] = "looked"], [at EXCEPT ![t] = "idle"]}
      BY <1>2 DEF Look, Moves
    <2>3. Kept
      BY <2>1, <2>2 DEF Calling, TypeOK
    <2> QED
      BY <1>u, <2>1, <2>3, NumberKept
  <1>3. ASSUME NEW t \in Thread, Store(t) PROVE NumberInv'
    <2>1. Kept
      BY <1>3, <1>r DEF Store
    <2> QED
      BY <1>3, <1>u, <2>1, NumberKept DEF Store
  <1>4. ASSUME NEW t \in Thread, Begin(t) PROVE NumberInv'
    <2>1. used' = used + 1
      BY <1>4 DEF Begin, Uses
    <2>2. CASE Returns(t, "idle")
      BY <1>r, <1>u, <2>1, <2>2, NumberKept
    <2>3. CASE ~Returns(t, "idle")
      <3>1. /\ at' = [at EXCEPT ![t] = "begun"]
            /\ number' = [number EXCEPT ![t] = used']
            /\ at[t] = "idle"
        BY <1>4, <2>3 DEF Begin, Moves
      <3>2. ASSUME NEW u \in Thread, u # t
            PROVE  Calling(u)' = Calling(u) /\ number'[u] = number[u]
        BY <3>1, <3>2 DEF Calling, TypeOK
      <3>3. number'[t] = used + 1
        BY <2>1, <3>1 DEF TypeOK
      <3>4. ASSUME NEW u \in Thread, u # t, Calling(u)
            PROVE  number[u] \in 1..used
        BY <3>4 DEF NumberInv
      <3>5. ASSUME NEW u \in Thread, Calling(u)' PROVE number'[u] \in 1..used'
        BY <1>u, <2>1, <3>2, <3>3, <3>4, <3>5
      <3>6. ASSUME NEW u \in Thread, NEW v \in Thread, Calling(u)', Calling(v)',
                   number'[u] = number'[v]
            PROVE  u = v
        BY <1>u, <3>2, <3>3, <3>4, <3>6 DEF NumberInv
      <3> QED
        BY <3>5, <3>6 DEF NumberInv
    <2> QED
      BY <2>2, <2>3
  <1>5. ASSUME NEW t \in Thread, CheckDepth(t) PROVE NumberInv'
    <2>1. CASE Returns(t, "begun")
      BY <1>5, <1>r, <1>u, <2>1, NumberKept DEF CheckDepth
    <2>2. CASE Moves(t, "begun", "cleared") /\ UNCHANGED <<number, type, limit, outcome>>
      <3>1. Kept
        BY <2>2 DEF Moves, Calling, TypeOK
      <3> QED
        BY <1>5, <1>u, <3>1, NumberKept DEF CheckDepth
    <2> QED
      BY <1>5, <2>1, <2>2, Zenon DEF CheckDepth
  <1>6. ASSUME NEW t \in Thread,
               NEW to \in {"waiting", "closing"},
               NEW from \in {"cleared", "waiting"},
               Moves(t, from, to), number' = number, used' = used
        PROVE  NumberInv'
    <2>1. Kept
      BY <1>6 DEF Moves, Calling, TypeOK
    <2> QED
      BY <1>6, <1>u, <2>1, NumberKept
  <1>7. ASSUME NEW t \in Thread, Publish(t) PROVE NumberInv'
    BY <1>6, <1>7 DEF Publish
  <1>8. ASSUME NEW t \in Thread, Receive(t) PROVE NumberInv'
    BY <1>6, <1>8 DEF Receive
  <1>9. ASSUME NEW t \in Thread, TimeOut(t) PROVE NumberInv'
    BY <1>6, <1>9 DEF TimeOut
  <1>10. ASSUME NEW t \in Thread, Close(t) PROVE NumberInv'
    <2>1. Kept
      BY <1>10, <1>r DEF Close
    <2> QED
      BY <1>10, <1>u, <2>1, NumberKept DEF Close
  <1>11. ASSUME NEW f \in Foreign, SendForeign(f) PROVE NumberInv'
    BY <1>11, <1>k DEF SendForeign, caller, thread
  <1>12. ASSUME NEW r \in Id, ServerStep(r) PROVE NumberInv'
    BY <1>12, <1>k DEF ServerStep, Take, Respond, RunExits, Reap, AtStage, caller, thread
  <1>13. CASE UNCHANGED vars
    BY <1>13, <1>k DEF vars, caller, thread
  <1> QED
    BY <1>1, <1>2, <1>3, <1>4, <1>5, <1>7, <1>8, <1>9, <1>10, <1>11, <1>12, <1>13
    DEF Next, CallStep

-----------------------------------------------------------------------------
\* A step of a call, of the server or of another producer changes neither the
\* registry nor who is registering what.
RegistrySame ==
  /\ UNCHANGED registry
  /\ Registering' = Registering
  /\ \A t \in Registering : type'[t] = type[t]

LEMMA RegistrySameNext ==
  ASSUME TypeOK, [Next]_vars,
         ~(\E t \in Thread : Store(t) \/ \E new \in Type : Look(t, new))
  PROVE  RegistrySame
  <1>k. ASSUME UNCHANGED <<registry, at, type>> PROVE RegistrySame
    BY <1>k DEF RegistrySame, Registering
  <1>r. ASSUME NEW t \in Thread, NEW from, from # "looked", Returns(t, from),
               UNCHANGED registry
        PROVE  RegistrySame
    <2>1. /\ at[t] = from
          /\ at' = [at EXCEPT ![t] = "idle"]
          /\ type' = [type EXCEPT ![t] = NoType]
      BY <1>r DEF Returns, Moves
    <2>2. \A u \in Thread : (at'[u] = "looked") = (at[u] = "looked")
      BY <1>r, <2>1 DEF TypeOK
    <2>3. \A u \in Registering : u \in Thread /\ type'[u] = type[u]
      BY <1>r, <2>1 DEF TypeOK, Registering
    <2> QED
      BY <1>r, <2>2, <2>3 DEF RegistrySame, Registering
  <1>m. ASSUME NEW t \in Thread,
               NEW from \in {"idle", "begun", "cleared", "waiting"},
               NEW to \in {"begun", "cleared", "waiting", "closing"},
               Moves(t, from, to), UNCHANGED registry,
               \A u \in Thread : u # t => type'[u] = type[u]
        PROVE  RegistrySame
    <2>1. at[t] = from /\ at' = [at EXCEPT ![t] = to]
      BY <1>m DEF Moves
    <2>2. \A u \in Thread : (at'[u] = "looked") = (at[u] = "looked")
      BY <2>1 DEF TypeOK
    <2>3. \A u \in Registering : u \in Thread /\ type'[u] = type[u]
      BY <1>m, <2>1 DEF Registering
    <2> QED
      BY <1>m, <2>2, <2>3 DEF RegistrySame, Registering
  <1>1. ASSUME NEW depth \in Limit, SetDefault(depth) PROVE RegistrySame
    BY <1>1, <1>k DEF SetDefault, thread
  <1>2. ASSUME NEW t \in Thread, Begin(t) PROVE RegistrySame
    <2>1. CASE Returns(t, "idle")
      BY <1>2, <1>r, <2>1 DEF Begin
    <2>2. CASE ~Returns(t, "idle")
      <3>1. PICK as \in Decodes :
              Moves(t, "idle", "begun") /\ type' = [type EXCEPT ![t] = as]
        BY <1>2, <2>2 DEF Begin
      <3>2. \A u \in Thread : u # t => type'[u] = type[u]
        BY <3>1 DEF TypeOK
      <3> QED
        BY <1>2, <1>m, <3>1, <3>2 DEF Begin
    <2> QED
      BY <2>1, <2>2
  <1>3. ASSUME NEW t \in Thread, CheckDepth(t) PROVE RegistrySame
    <2>1. CASE Returns(t, "begun")
      BY <1>3, <1>r, <2>1 DEF CheckDepth
    <2>2. CASE Moves(t, "begun", "cleared") /\ UNCHANGED <<number, type, limit, outcome>>
      BY <1>3, <1>m, <2>2 DEF CheckDepth
    <2> QED
      BY <1>3, <2>1, <2>2, Zenon DEF CheckDepth
  <1>4. ASSUME NEW t \in Thread, Publish(t) PROVE RegistrySame
    BY <1>4, <1>m DEF Publish
  <1>5. ASSUME NEW t \in Thread, Receive(t) PROVE RegistrySame
    BY <1>5, <1>m DEF Receive
  <1>6. ASSUME NEW t \in Thread, TimeOut(t) PROVE RegistrySame
    BY <1>6, <1>m DEF TimeOut
  <1>7. ASSUME NEW t \in Thread, Close(t) PROVE RegistrySame
    BY <1>7, <1>r DEF Close
  <1>8. ASSUME NEW f \in Foreign, SendForeign(f) PROVE RegistrySame
    BY <1>8, <1>k DEF SendForeign, caller, thread
  <1>9. ASSUME NEW r \in Id, ServerStep(r) PROVE RegistrySame
    BY <1>9, <1>k DEF ServerStep, Take, Respond, RunExits, Reap, AtStage, caller, thread
  <1>10. CASE UNCHANGED vars
    BY <1>10, <1>k DEF vars, caller, thread
  <1> QED
    BY <1>1, <1>2, <1>3, <1>4, <1>5, <1>6, <1>7, <1>8, <1>9, <1>10
    DEF Next, CallStep

LEMMA RegistryNext ==
  TypeOK /\ RegistryInv /\ TypesAgree /\ [Next]_vars => RegistryInv' /\ TypesAgree'
  <1> SUFFICES ASSUME TypeOK, RegistryInv, TypesAgree, [Next]_vars
               PROVE  RegistryInv' /\ TypesAgree'
    OBVIOUS
  <1>1. ASSUME NEW t \in Thread, NEW new \in Type, Look(t, new)
        PROVE  RegistryInv' /\ TypesAgree'
    <2>1. CASE registered = NoType
      <3>1. /\ at' = [at EXCEPT ![t] = "looked"]
            /\ type' = [type EXCEPT ![t] = new]
            /\ overlaps' = overlaps \cup {{new, type[u]} : u \in Registering}
            /\ registered' = NoType
            /\ promised' = {}
            /\ at[t] = "idle"
        BY <1>1, <2>1, Zenon DEF Look, Moves, RegistryInv
      <3>2. \A u \in Registering' : u # t => u \in Registering /\ type'[u] = type[u]
        BY <3>1 DEF Registering, TypeOK
      <3>3. type'[t] = new
        BY <3>1 DEF TypeOK
      <3>4. ASSUME NEW u \in Registering', NEW v \in Registering'
            PROVE  {type[u], type[v]}' \in overlaps' \/ type'[u] = type'[v]
        <4>1. CASE u = t /\ v # t
          BY <3>1, <3>2, <3>3, <3>4, <4>1
        <4>2. CASE u # t /\ v = t
          <5>1. {type'[u], type'[v]} = {new, type[u]}
            BY <3>2, <3>3, <3>4, <4>2
          <5> QED
            BY <3>1, <3>2, <3>4, <4>2, <5>1
        <4>3. CASE u # t /\ v # t
          BY <3>1, <3>2, <3>4, <4>3 DEF RegistryInv
        <4> QED
          BY <4>1, <4>2, <4>3
      <3> QED
        BY <3>1, <3>4 DEF RegistryInv, TypesAgree
    <2>2. CASE registered # NoType
      <3>1. /\ at' = [at EXCEPT ![t] = "idle"]
            /\ at[t] = "idle"
            /\ promised' = promised \cup {new}
            /\ registered = new
            /\ UNCHANGED <<registered, type, overlaps>>
        BY <1>1, <2>2, Zenon DEF Look, Moves
      <3>2. promised' = promised /\ at' = at
        BY <2>2, <3>1 DEF RegistryInv, TypeOK
      <3> QED
        BY <3>1, <3>2 DEF RegistryInv, TypesAgree, Registering
    <2> QED
      BY <2>1, <2>2
  <1>2. ASSUME NEW t \in Thread, Store(t) PROVE RegistryInv' /\ TypesAgree'
    <2>1. /\ at[t] = "looked"
          /\ at' = [at EXCEPT ![t] = "idle"]
          /\ type' = [type EXCEPT ![t] = NoType]
          /\ registered' = type[t]
          /\ promised' = promised \cup {type[t]}
          /\ overlaps' = overlaps
      BY <1>2 DEF Store, Returns, Moves
    <2>2. t \in Registering /\ type[t] \in Type
      BY <2>1 DEF Registering, TypeOK
    <2>3. \A u \in Registering' : u # t /\ u \in Registering /\ type'[u] = type[u]
      BY <2>1 DEF Registering, TypeOK
    <2>4. registered' # NoType /\ registered' \in promised'
      BY <2>1, <2>2, ExchangeAssumption
    <2>5. \A u \in Registering' : \A v \in Registering' :
            {type'[u], type'[v]} \in overlaps' \/ type'[u] = type'[v]
      BY <2>1, <2>3 DEF RegistryInv
    <2>6. \A u \in Registering' : \A T \in promised' :
            {T, type'[u]} \in overlaps' \/ T = type'[u]
      BY <2>1, <2>2, <2>3 DEF RegistryInv
    <2>7. TypesAgree'
      BY <2>1, <2>2 DEF RegistryInv, TypesAgree
    <2> QED
      BY <2>4, <2>5, <2>6, <2>7 DEF RegistryInv
  <1>3. CASE ~(\E t \in Thread : Store(t) \/ \E new \in Type : Look(t, new))
    <2>1. RegistrySame
      BY <1>3, RegistrySameNext
    <2> QED
      BY <2>1 DEF RegistrySame, registry, RegistryInv, TypesAgree
  <1> QED
    BY <1>1, <1>2, <1>3

-----------------------------------------------------------------------------
LEMMA ClearedFinite ==
  ASSUME TypeOK
  PROVE  /\ IsFiniteSet(Cleared) /\ Cardinality(Cleared) \in Nat
         /\ IsFiniteSet(Sent) /\ Cardinality(Sent) \in Nat
         /\ Cardinality(Thread) \in Nat
         /\ Cardinality(Cleared) <= Cardinality(Thread)
  <1>1. Cleared \subseteq Thread /\ Sent \subseteq Foreign
    BY DEF Cleared, Sent
  <1> QED
    BY <1>1, ExchangeAssumption, FS_Subset, FS_CardinalityType

LEMMA DepthNext ==
  TypeOK /\ TypeOK' /\ DepthBounded /\ [Next]_vars => DepthBounded'
  <1> SUFFICES ASSUME TypeOK, TypeOK', DepthBounded, [Next]_vars PROVE DepthBounded'
    OBVIOUS
  <1>f. /\ IsFiniteSet(Cleared) /\ Cardinality(Cleared) \in Nat
        /\ IsFiniteSet(Sent) /\ Cardinality(Sent) \in Nat
        /\ Cardinality(Thread) \in Nat
    BY ClearedFinite
  <1>g. /\ IsFiniteSet(Cleared') /\ Cardinality(Cleared') \in Nat
        /\ IsFiniteSet(Sent') /\ Cardinality(Sent') \in Nat
        /\ Cardinality(Cleared') <= Cardinality(Thread)
    <2>1. Cleared' \subseteq Thread /\ Sent' \subseteq Foreign
      BY DEF Cleared, Sent
    <2> QED
      BY <2>1, ExchangeAssumption, FS_Subset, FS_CardinalityType
  <1>l. Len(queue) \in Nat /\ Len(queue') \in Nat /\ MaxDepth \in Nat
    BY ExchangeAssumption DEF TypeOK
  \* Neither the queue grows nor the threads past the check.
  <1>k. ASSUME Len(queue') <= Len(queue), Cleared' \subseteq Cleared, Sent \subseteq Sent'
        PROVE  DepthBounded'
    <2>1. Cardinality(Cleared') <= Cardinality(Cleared)
      BY <1>k, <1>f, FS_Subset
    <2>2. Cardinality(Sent) <= Cardinality(Sent')
      BY <1>k, <1>g, FS_Subset
    <2> QED
      BY <1>f, <1>g, <1>k, <1>l, <2>1, <2>2 DEF DepthBounded
  \* A thread that was not past the check moves to where it still is not.
  <1>m. ASSUME NEW t \in Thread, NEW to \in {"idle", "looked", "begun", "closing"},
               at' = [at EXCEPT ![t] = to],
               UNCHANGED <<queue, stage>>
        PROVE  DepthBounded'
    <2>1. Cleared' \subseteq Cleared
      BY <1>m DEF Cleared, TypeOK
    <2>2. Sent \subseteq Sent' /\ Len(queue') <= Len(queue)
      BY <1>m, <1>l DEF Sent
    <2> QED
      BY <1>k, <2>1, <2>2
  <1>s. ASSUME NEW r \in Id, AtStage(r, "queued", "taken") \/ AtStage(r, "taken", "done")
                             \/ AtStage(r, "taken", "exited") \/ UNCHANGED <<caller, stage>>
        PROVE  Cleared' = Cleared /\ Sent \subseteq Sent'
    <2>1. at' = at
      BY <1>s DEF AtStage, caller, thread
    <2>2. stage' = stage \/ \E to \in {"taken", "done", "exited"} :
                              stage' = [stage EXCEPT ![r] = to]
      BY <1>s DEF AtStage
    <2>3. Sent \subseteq Sent'
      BY <2>2 DEF Sent, TypeOK, Id
    <2> QED
      BY <2>1, <2>3 DEF Cleared
  <1>1. ASSUME NEW depth \in Limit, SetDefault(depth) PROVE DepthBounded'
    BY <1>1 DEF SetDefault, thread, DepthBounded, Cleared, Sent
  <1>2. ASSUME NEW t \in Thread, NEW new \in Type, Look(t, new) PROVE DepthBounded'
    <2>1. /\ at' \in {[at EXCEPT ![t] = "looked"], [at EXCEPT ![t] = "idle"]}
          /\ UNCHANGED <<queue, stage>>
      BY <1>2 DEF Look, Moves
    <2> QED
      BY <1>m, <2>1
  <1>3. ASSUME NEW t \in Thread, Store(t) PROVE DepthBounded'
    BY <1>3, <1>m DEF Store, Returns, Moves
  <1>4. ASSUME NEW t \in Thread, Begin(t) PROVE DepthBounded'
    <2>1. /\ at' \in {[at EXCEPT ![t] = "begun"], [at EXCEPT ![t] = "idle"]}
          /\ UNCHANGED <<queue, stage>>
      BY <1>4 DEF Begin, Returns, Moves
    <2> QED
      BY <1>m, <2>1
  <1>5. ASSUME NEW t \in Thread, CheckDepth(t) PROVE DepthBounded'
    <2>1. CASE Len(queue) >= limit[t]
      BY <1>5, <1>m, <2>1 DEF CheckDepth, Returns, Moves
    <2>2. CASE ~(Len(queue) >= limit[t])
      <3>1. Len(queue) <= MaxDepth - 1
        <4>1. limit[t] \in 0..MaxDepth
          BY DEF TypeOK
        <4> QED
          BY <1>l, <2>2, <4>1
      <3>2. queue' = queue /\ Sent' = Sent
        BY <1>5 DEF CheckDepth, Sent
      <3> QED
        BY <1>f, <1>g, <1>l, <3>1, <3>2 DEF DepthBounded
    <2> QED
      BY <2>1, <2>2
  <1>6. ASSUME NEW t \in Thread, Publish(t) PROVE DepthBounded'
    <2>1. /\ at[t] = "cleared"
          /\ at' = [at EXCEPT ![t] = "waiting"]
          /\ stage' = [stage EXCEPT ![number[t]] = "queued"]
      BY <1>6 DEF Publish, Moves, Sends
    <2>2. Len(queue') = Len(queue) + 1
      BY <1>6 DEF Publish, Sends, TypeOK
    <2>3. t \in Cleared /\ Cleared' = Cleared \ {t}
      BY <2>1 DEF Cleared, TypeOK
    <2>4. Cardinality(Cleared') = Cardinality(Cleared) - 1
      BY <1>f, <2>3, FS_RemoveElement
    <2>5. Cardinality(Sent) <= Cardinality(Sent')
      <3>1. Sent \subseteq Sent'
        BY <2>1 DEF Sent, TypeOK, Id
      <3> QED
        BY <1>g, <3>1, FS_Subset
    <2> QED
      BY <1>f, <1>g, <1>l, <2>2, <2>4, <2>5 DEF DepthBounded
  <1>7. ASSUME NEW t \in Thread, Receive(t) PROVE DepthBounded'
    BY <1>7, <1>m DEF Receive, Moves
  <1>8. ASSUME NEW t \in Thread, TimeOut(t) PROVE DepthBounded'
    BY <1>8, <1>m DEF TimeOut, Moves
  <1>9. ASSUME NEW t \in Thread, Close(t) PROVE DepthBounded'
    BY <1>9, <1>m DEF Close, Returns, Moves
  <1>10. ASSUME NEW f \in Foreign, SendForeign(f) PROVE DepthBounded'
    <2>1. /\ stage[f] = "unsent"
          /\ stage' = [stage EXCEPT ![f] = "queued"]
          /\ Cleared' = Cleared
      BY <1>10 DEF SendForeign, Sends, caller, thread, Cleared
    <2>2. Len(queue') = Len(queue) + 1
      BY <1>10 DEF SendForeign, Sends, TypeOK, Id
    <2>3. f \notin Sent /\ Sent' = Sent \cup {f}
      BY <2>1 DEF Sent, TypeOK, Id
    <2>4. Cardinality(Sent') = Cardinality(Sent) + 1
      BY <1>f, <2>3, FS_AddElement
    <2> QED
      BY <1>f, <1>g, <1>l, <2>1, <2>2, <2>4 DEF DepthBounded
  <1>11. ASSUME NEW r \in Id, Take(r) PROVE DepthBounded'
    <2>1. Len(queue') <= Len(queue)
      BY <1>11 DEF Take, TypeOK
    <2> QED
      BY <1>11, <1>k, <1>s, <2>1 DEF Take
  <1>12. ASSUME NEW r \in Id, Respond(r) \/ RunExits(r) \/ Reap(r) PROVE DepthBounded'
    <2>1. queue' = queue
      BY <1>12 DEF Respond, RunExits, Reap
    <2> QED
      BY <1>12, <1>k, <1>l, <1>s, <2>1 DEF Respond, RunExits, Reap
  <1>13. CASE UNCHANGED vars
    BY <1>13 DEF vars, caller, thread, DepthBounded, Cleared, Sent
  <1> QED
    BY <1>1, <1>2, <1>3, <1>4, <1>5, <1>6, <1>7, <1>8, <1>9, <1>10, <1>11, <1>12,
       <1>13
    DEF Next, CallStep, ServerStep

-----------------------------------------------------------------------------
LEMMA InflightNext ==
  TypeOK /\ NothingLeftInflight /\ [Next]_vars => NothingLeftInflight'
  <1> SUFFICES ASSUME TypeOK, NothingLeftInflight, [Next]_vars PROVE NothingLeftInflight'
    OBVIOUS
  <1> USE DEF NothingLeftInflight
  <1>s. ASSUME NEW r, Sends(r), inflight' = inflight PROVE NothingLeftInflight'
    <2>1. stage[r] = "unsent" /\ stage' = [stage EXCEPT ![r] = "queued"]
      BY <1>s DEF Sends
    <2> QED
      BY <1>s, <2>1 DEF TypeOK
  <1>1. ASSUME NEW t \in Thread, CallStep(t) PROVE NothingLeftInflight'
    <2>1. inflight' = inflight /\ (stage' = stage \/ Sends(number[t]))
      BY <1>1 DEF CallStep, Store, Begin, CheckDepth, Publish, Receive, TimeOut, Close
    <2> QED
      BY <1>s, <2>1
  <1>2. ASSUME NEW t \in Thread, NEW new \in Type, Look(t, new) PROVE NothingLeftInflight'
    BY <1>2 DEF Look
  <1>3. ASSUME NEW depth \in Limit, SetDefault(depth) PROVE NothingLeftInflight'
    BY <1>3 DEF SetDefault
  <1>4. ASSUME NEW f \in Foreign, SendForeign(f) PROVE NothingLeftInflight'
    BY <1>4, <1>s DEF SendForeign
  <1>5. ASSUME NEW r \in Id, Take(r) PROVE NothingLeftInflight'
    <2>1. /\ stage' = [stage EXCEPT ![r] = "taken"]
          /\ inflight' \subseteq inflight \cup {r}
      BY <1>5 DEF Take, AtStage
    <2> QED
      BY <2>1 DEF TypeOK
  <1>6. ASSUME NEW r \in Id, Respond(r) PROVE NothingLeftInflight'
    <2>1. stage' = [stage EXCEPT ![r] = "done"] /\ inflight' = inflight \ {r}
      BY <1>6 DEF Respond, AtStage
    <2> QED
      BY <2>1 DEF TypeOK
  <1>7. ASSUME NEW r \in Id, RunExits(r) PROVE NothingLeftInflight'
    BY <1>7 DEF RunExits, AtStage, TypeOK
  <1>8. ASSUME NEW r \in Id, Reap(r) PROVE NothingLeftInflight'
    BY <1>8 DEF Reap
  <1>9. CASE UNCHANGED vars
    BY <1>9 DEF vars
  <1> QED
    BY <1>1, <1>2, <1>3, <1>4, <1>5, <1>6, <1>7, <1>8, <1>9 DEF Next, ServerStep

-----------------------------------------------------------------------------
Waiting(t) == at[t] = "waiting"

LEMMA AppendNotEmpty ==
  ASSUME NEW S, NEW q \in Seq(S), NEW x \in S
  PROVE  Append(q, x) # <<>>
  <1>1. Len(Append(q, x)) = Len(q) + 1 /\ Len(q) \in Nat
    OBVIOUS
  <1>2. Len(<<>>) = 0
    OBVIOUS
  <1> QED
    BY <1>1, <1>2

\* Nothing is done, read or waited for that was not before.
LEMMA ToldKept ==
  ASSUME CallerIsTold, shape' = shape,
         \A r \in Id : stage'[r] = "done" => stage[r] = "done",
         \A r \in Id : responses[r] # <<>> => responses'[r] # <<>>,
         \A t \in Thread : Waiting(t)' => Waiting(t) /\ number'[t] = number[t]
  PROVE  CallerIsTold'
  BY DEF CallerIsTold, ServerReads, Is, Waiting

LEMMA ToldNext ==
  TypeOK /\ NumberInv /\ CallerIsTold /\ [Next]_vars => CallerIsTold'
  <1> SUFFICES ASSUME TypeOK, NumberInv, CallerIsTold, [Next]_vars PROVE CallerIsTold'
    OBVIOUS
  <1> DEFINE Kept == \A t \in Thread : Waiting(t)' => Waiting(t) /\ number'[t] = number[t]
  \* A thread moves on, with a number of its own, to where it does not wait.
  <1>w. ASSUME NEW t \in Thread, NEW to, to # "waiting",
               at' = [at EXCEPT ![t] = to],
               \A u \in Thread : u # t => number'[u] = number[u]
        PROVE  Kept
    BY <1>w DEF Waiting, TypeOK
  <1>k. ASSUME Kept, UNCHANGED <<responses, shape, stage>> PROVE CallerIsTold'
    BY <1>k, ToldKept
  <1>c. ASSUME UNCHANGED <<at, number>> PROVE Kept
    BY <1>c DEF Waiting
  <1>1. ASSUME NEW depth \in Limit, SetDefault(depth) PROVE CallerIsTold'
    BY <1>1, <1>c, <1>k DEF SetDefault, thread
  <1>2. ASSUME NEW t \in Thread, NEW new \in Type, Look(t, new) PROVE CallerIsTold'
    <2>1. /\ at' \in {[at EXCEPT ![t] = "looked"], [at EXCEPT ![t] = "idle"]}
          /\ UNCHANGED <<number, responses, shape, stage>>
      BY <1>2 DEF Look, Moves
    <2> QED
      BY <1>k, <1>w, <2>1
  <1>r. ASSUME NEW t \in Thread, NEW from, Returns(t, from) PROVE Kept /\ shape' = shape
    <2>1. /\ at' = [at EXCEPT ![t] = "idle"]
          /\ number' = [number EXCEPT ![t] = 0]
          /\ shape' = shape
      BY <1>r DEF Returns, Moves
    <2> QED
      BY <1>w, <2>1 DEF TypeOK
  <1>3. ASSUME NEW t \in Thread, Store(t) PROVE CallerIsTold'
    BY <1>3, <1>k, <1>r DEF Store
  <1>4. ASSUME NEW t \in Thread, Begin(t) PROVE CallerIsTold'
    <2>1. CASE Returns(t, "idle")
      BY <1>4, <1>k, <1>r, <2>1 DEF Begin
    <2>2. CASE ~Returns(t, "idle")
      <3>1. /\ at' = [at EXCEPT ![t] = "begun"]
            /\ number' = [number EXCEPT ![t] = used']
            /\ UNCHANGED <<responses, shape, stage>>
        BY <1>4, <2>2 DEF Begin, Moves
      <3>2. Kept
        BY <1>w, <3>1 DEF TypeOK
      <3> QED
        BY <1>k, <3>1, <3>2
    <2> QED
      BY <2>1, <2>2
  <1>5. ASSUME NEW t \in Thread, CheckDepth(t) PROVE CallerIsTold'
    <2>1. CASE Returns(t, "begun")
      BY <1>5, <1>k, <1>r, <2>1 DEF CheckDepth
    <2>2. CASE Moves(t, "begun", "cleared") /\ UNCHANGED <<number, type, limit, outcome>>
      BY <1>5, <1>k, <1>w, <2>2 DEF CheckDepth, Moves
    <2> QED
      BY <1>5, <2>1, <2>2, Zenon DEF CheckDepth
  <1>6. ASSUME NEW t \in Thread, Publish(t) PROVE CallerIsTold'
    <2>1. /\ at' = [at EXCEPT ![t] = "waiting"]
          /\ stage' = [stage EXCEPT ![number[t]] = "queued"]
          /\ UNCHANGED <<number, responses, shape>>
      BY <1>6 DEF Publish, Moves, Sends
    <2>2. ASSUME NEW r \in Id, stage'[r] = "done" PROVE stage[r] = "done" /\ r # number[t]
      BY <2>1, <2>2 DEF TypeOK
    <2>3. ASSUME NEW u \in Thread, u # t, Waiting(u)' PROVE Waiting(u)
      BY <2>1, <2>3 DEF Waiting, TypeOK
    <2> QED
      BY <2>1, <2>2, <2>3 DEF CallerIsTold, Waiting, ServerReads, Is
  <1>7. ASSUME NEW t \in Thread, Receive(t) PROVE CallerIsTold'
    <2>1. /\ at[t] = "waiting"
          /\ at' = [at EXCEPT ![t] = "closing"]
          /\ responses' = [responses EXCEPT ![number[t]] = Tail(@)]
          /\ UNCHANGED <<number, shape, stage>>
      BY <1>7 DEF Receive, Moves
    <2>2. number[t] \in Own
      BY <2>1, OwnIsId DEF NumberInv, Calling, TypeOK, Own
    <2>3. ASSUME NEW r \in Id, r # number[t] PROVE responses'[r] = responses[r]
      BY <2>1, <2>3 DEF TypeOK
    <2>4. \A u \in Thread : Waiting(u)' => Waiting(u) /\ number[u] # number[t]
      BY <2>1 DEF Waiting, NumberInv, Calling, TypeOK
    <2> QED
      BY <2>1, <2>2, <2>3, <2>4 DEF CallerIsTold, Waiting, ServerReads, Is
  <1>8. ASSUME NEW t \in Thread, TimeOut(t) PROVE CallerIsTold'
    BY <1>8, <1>k, <1>w DEF TimeOut, Moves
  <1>9. ASSUME NEW t \in Thread, Close(t) PROVE CallerIsTold'
    <2>1. /\ at[t] = "closing"
          /\ at' = [at EXCEPT ![t] = "idle"]
          /\ number' = [number EXCEPT ![t] = 0]
          /\ responses' = [responses EXCEPT ![number[t]] = <<>>]
          /\ UNCHANGED <<shape, stage>>
      BY <1>9 DEF Close, Returns, Moves
    <2>2. number[t] \in Own
      BY <2>1, OwnIsId DEF NumberInv, Calling, TypeOK, Own
    <2>3. ASSUME NEW r \in Id, r # number[t] PROVE responses'[r] = responses[r]
      BY <2>1, <2>3 DEF TypeOK
    <2>4. \A u \in Thread : Waiting(u)' =>
            Waiting(u) /\ number'[u] = number[u] /\ number[u] # number[t]
      BY <2>1 DEF Waiting, NumberInv, Calling, TypeOK
    <2> QED
      BY <2>1, <2>2, <2>3, <2>4 DEF CallerIsTold, Waiting, ServerReads, Is
  <1>10. ASSUME NEW f \in Foreign, SendForeign(f) PROVE CallerIsTold'
    <2>1. /\ stage' = [stage EXCEPT ![f] = "queued"]
          /\ UNCHANGED <<at, number, responses, shape>>
      BY <1>10 DEF SendForeign, Sends, caller, thread
    <2>2. \A r \in Id : stage'[r] = "done" => stage[r] = "done"
      BY <2>1 DEF TypeOK
    <2> QED
      BY <1>c, <2>1, <2>2, ToldKept
  <1>11. ASSUME NEW r \in Id, Take(r) \/ RunExits(r) PROVE CallerIsTold'
    <2>1. /\ stage' \in {[stage EXCEPT ![r] = "taken"], [stage EXCEPT ![r] = "exited"]}
          /\ UNCHANGED <<at, number, responses, shape>>
      BY <1>11 DEF Take, RunExits, AtStage, caller, thread
    <2>2. \A q \in Id : stage'[q] = "done" => stage[q] = "done"
      BY <2>1 DEF TypeOK
    <2> QED
      BY <1>c, <2>1, <2>2, ToldKept
  <1>12. ASSUME NEW r \in Id, Respond(r) PROVE CallerIsTold'
    <2>1. PICK kind \in Replies(r) :
            responses' = [responses EXCEPT ![Address(r, kind)] = Append(@, kind)]
      BY <1>12 DEF Respond
    <2>2. /\ stage' = [stage EXCEPT ![r] = "done"]
          /\ UNCHANGED <<at, number, shape>>
      BY <1>12 DEF Respond, AtStage, caller, thread
    <2>3. /\ kind \in Kind
          /\ Address(r, kind) \in Id \cup {Unknown}
      BY DEF Replies, Kind, Address
    <2>4. Append(responses[Address(r, kind)], kind) # <<>>
      BY <2>3, AppendNotEmpty DEF TypeOK
    <2>5. \A q \in Id : responses[q] # <<>> => responses'[q] # <<>>
      BY <2>1, <2>3, <2>4 DEF TypeOK
    <2>6. ServerReads(r) => responses'[r] # <<>>
      BY <2>1, <2>4 DEF Address, TypeOK
    <2>7. \A q \in Id : q # r => stage'[q] = stage[q]
      BY <2>2 DEF TypeOK
    <2> QED
      BY <2>2, <2>5, <2>6, <2>7 DEF CallerIsTold, ServerReads, Is
  <1>13. ASSUME NEW r \in Id, Reap(r) PROVE CallerIsTold'
    <2>1. /\ responses' = [responses EXCEPT ![r] = Append(@, "lost")]
          /\ UNCHANGED <<at, number, shape, stage>>
      BY <1>13 DEF Reap, caller, thread
    <2>2. Append(responses[r], "lost") # <<>>
      <3>1. responses[r] \in Seq(Kind) /\ "lost" \in Kind
        BY DEF TypeOK, Kind
      <3> QED
        BY <3>1, AppendNotEmpty
    <2>3. \A q \in Id : responses[q] # <<>> => responses'[q] # <<>>
      BY <2>1, <2>2 DEF TypeOK
    <2> QED
      BY <1>c, <2>1, <2>3, ToldKept
  <1>14. CASE UNCHANGED vars
    BY <1>14, <1>c, <1>k DEF vars, caller, thread
  <1> QED
    BY <1>1, <1>2, <1>3, <1>4, <1>5, <1>6, <1>7, <1>8, <1>9, <1>10, <1>11, <1>12,
       <1>13, <1>14
    DEF Next, CallStep, ServerStep

-----------------------------------------------------------------------------
LEMMA InvInit == Init => IInv
  <1> SUFFICES ASSUME Init PROVE IInv
    OBVIOUS
  <1>1. TypeOK
    BY ExchangeAssumption DEF Init, TypeOK, Kind, Stage, Outcome, Shape
  <1>2. NumberInv /\ RegistryInv /\ TypesAgree /\ NothingLeftInflight /\ CallerIsTold
    BY DEF Init, NumberInv, Calling, RegistryInv, Registering, TypesAgree,
           NothingLeftInflight, CallerIsTold
  <1>3. DepthBounded
    <2>1. Cleared = {} /\ Len(queue) = 0
      BY DEF Init, Cleared
    <2>2. Cardinality(Cleared) = 0
      BY <2>1, FS_EmptySet
    <2> QED
      BY <1>1, <2>1, <2>2, ClearedFinite, ExchangeAssumption DEF DepthBounded
  <1> QED
    BY <1>1, <1>2, <1>3 DEF IInv

\* The invariant holds for every number of threads and every limit.
THEOREM Invariance == Spec => []IInv
  <1>1. IInv /\ [Next]_vars => IInv'
    BY TypeNext, NumberNext, RegistryNext, DepthNext, InflightNext, ToldNext DEF IInv
  <1> QED
    BY <1>1, InvInit, PTL DEF Spec

\* Every variable keeps its type.
THEOREM TypeCorrect == Spec => []TypeOK
  BY Invariance, PTL DEF IInv

\* The depth check is a read and a push apart, and the queue passes the limit
\* by less than the number of threads.
THEOREM DepthBoundedHolds == Spec => []DepthBounded
  BY Invariance, PTL DEF IInv

\* Only registrations that overlap can replace one another.
THEOREM TypesAgreeHolds == Spec => []TypesAgree
  BY Invariance, PTL DEF IInv

\* The entry of every request a server is done with is gone, however the
\* request is written.
THEOREM NothingLeftInflightHolds == Spec => []NothingLeftInflight
  BY Invariance, PTL DEF IInv

\* Whoever waits for a request that is done has a response in its queue.
THEOREM CallerIsToldHolds == Spec => []CallerIsTold
  BY Invariance, PTL DEF IInv
=============================================================================
