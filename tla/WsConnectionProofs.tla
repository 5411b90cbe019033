-------------------------- MODULE WsConnectionProofs --------------------------
(***************************************************************************)
(* Theorems about WsConnection, for every set of subscriptions and every   *)
(* bound.  IInv is inductive; the properties that relate a subscriber or   *)
(* the state to the queue of handlers rest on it and on how Runs and Posts *)
(* change the queue.                                                       *)
(***************************************************************************)
EXTENDS WsConnection, FiniteSetTheorems, TLAPS

-----------------------------------------------------------------------------
(* The queue of ready handlers *)

LEMMA RunsType ==
  ASSUME NEW T, ready \in Seq(T), NEW task, NEW posts \in Seq(T),
         Runs(task, posts)
  PROVE  ready' \in Seq(T) /\ task \in T
  BY DEF Runs

LEMMA RunsAlone ==
  ASSUME NEW T, ready \in Seq(T), NEW task, Runs(task, <<>>)
  PROVE  ready' \in Seq(T) /\ task \in T
  BY DEF Runs

LEMMA PostsType ==
  ASSUME NEW T, ready \in Seq(T), NEW task \in T, Posts(task)
  PROVE  ready' \in Seq(T)
  BY DEF Posts

\* Running one handler leaves every other one on the queue.
LEMMA RunsKeeps ==
  ASSUME NEW T, ready \in Seq(T), NEW task, NEW posts \in Seq(T),
         Runs(task, posts), NEW x, Queued(x), x # task
  PROVE  Queued(x)'
<1>1. PICK i \in 1..Len(ready) : ready[i] = x
  BY DEF Queued, ToSet
<1>2. i # 1
  BY <1>1 DEF Runs
<1>3. i-1 \in 1..Len(Tail(ready)) /\ Tail(ready)[i-1] = x
  BY <1>1, <1>2
<1>4. i-1 \in 1..Len(ready') /\ ready'[i-1] = x
  BY <1>3 DEF Runs
<1>5. ready' \in Seq(T)
  BY RunsType
<1> QED
  BY <1>4, <1>5 DEF Queued, ToSet

LEMMA RunsAdds ==
  ASSUME NEW T, ready \in Seq(T), NEW task, NEW posts \in Seq(T),
         Runs(task, posts), NEW x, Queued(x)'
  PROVE  Queued(x) \/ x \in ToSet(posts)
<1>1. /\ Tail(ready) \in Seq(T) /\ Len(Tail(ready)) = Len(ready) - 1
      /\ Len(ready) \in Nat /\ Len(ready) > 0
      /\ \A i \in 1..(Len(ready) - 1) : Tail(ready)[i] = ready[i + 1]
  BY DEF Runs
<1>2. ready' = Tail(ready) \o posts /\ ready' \in Seq(T)
  BY RunsType DEF Runs
<1>3. PICK i \in 1..Len(ready') : ready'[i] = x
  BY <1>2 DEF Queued, ToSet
<1>4. CASE i \in 1..(Len(ready) - 1)
  <2>1. ready'[i] = ready[i + 1] /\ i + 1 \in 1..Len(ready)
    BY <1>1, <1>2, <1>4
  <2> QED
    BY <1>3, <2>1 DEF Queued, ToSet
<1>5. CASE i \notin 1..(Len(ready) - 1)
  <2>1. i - (Len(ready) - 1) \in 1..Len(posts)
        /\ ready'[i] = posts[i - (Len(ready) - 1)]
    BY <1>1, <1>2, <1>3, <1>5
  <2> QED
    BY <1>3, <2>1 DEF ToSet
<1> QED
  BY <1>4, <1>5

LEMMA ConcatSet ==
  ASSUME NEW T, NEW a \in Seq(T), NEW b \in Seq(T)
  PROVE  /\ a \o b \in Seq(T)
         /\ \A x : x \in ToSet(a \o b) <=> x \in ToSet(a) \/ x \in ToSet(b)
<1>1. /\ a \o b \in Seq(T) /\ Len(a \o b) = Len(a) + Len(b)
      /\ \A i \in 1..Len(a) : i \in 1..Len(a \o b) /\ (a \o b)[i] = a[i]
  OBVIOUS
<1>2. \A i \in 1..Len(b) :
        i + Len(a) \in 1..Len(a \o b) /\ (a \o b)[i + Len(a)] = b[i]
  OBVIOUS
<1>3. \A i \in 1..Len(a \o b) :
        i \in 1..Len(a) \/ (\E j \in 1..Len(b) : i = j + Len(a))
  <2>1. ASSUME NEW i \in 1..Len(a \o b), i \notin 1..Len(a)
        PROVE  i - Len(a) \in 1..Len(b) /\ i = (i - Len(a)) + Len(a)
    BY <1>1, <2>1
  <2> QED
    BY <2>1
<1>4. ASSUME NEW x, x \in ToSet(a \o b) PROVE x \in ToSet(a) \/ x \in ToSet(b)
  <2>1. PICK i \in 1..Len(a \o b) : (a \o b)[i] = x
    BY <1>1, <1>4 DEF ToSet
  <2>2. CASE i \in 1..Len(a)
    BY <1>1, <2>1, <2>2 DEF ToSet
  <2>3. ASSUME NEW j \in 1..Len(b), i = j + Len(a) PROVE x \in ToSet(b)
    BY <1>2, <2>1, <2>3 DEF ToSet
  <2> QED
    BY <1>3, <2>2, <2>3
<1>5. ASSUME NEW x, x \in ToSet(a) \/ x \in ToSet(b) PROVE x \in ToSet(a \o b)
  <2>1. CASE x \in ToSet(a)
    <3>1. PICK i \in 1..Len(a) : a[i] = x
      BY <2>1 DEF ToSet
    <3> QED
      BY <1>1, <3>1 DEF ToSet
  <2>2. CASE x \in ToSet(b)
    <3>1. PICK i \in 1..Len(b) : b[i] = x
      BY <2>2 DEF ToSet
    <3>2. i + Len(a) \in 1..Len(a \o b) /\ (a \o b)[i + Len(a)] = x
      BY <1>2, <3>1
    <3> QED
      BY <1>1, <3>2 DEF ToSet
  <2> QED
    BY <1>5, <2>1, <2>2
<1> QED
  BY <1>1, <1>4, <1>5

LEMMA AppendSet ==
  ASSUME NEW S, NEW list \in Seq(S), NEW x
  PROVE  ToSet(Append(list, x)) = ToSet(list) \cup {x}
<1>1. /\ Len(Append(list, x)) = Len(list) + 1 /\ Len(list) \in Nat
      /\ \A i \in 1..Len(list) : Append(list, x)[i] = list[i]
      /\ Append(list, x)[Len(list) + 1] = x
      /\ DOMAIN Append(list, x) = 1..(Len(list) + 1) /\ DOMAIN list = 1..Len(list)
  OBVIOUS
<1>2. Len(list) + 1 \in 1..(Len(list) + 1)
      /\ \A i \in 1..(Len(list) + 1) : (i \in 1..Len(list) \/ i = Len(list) + 1)
      /\ 1..Len(list) \subseteq 1..(Len(list) + 1)
  BY <1>1
<1>3. ToSet(Append(list, x)) \subseteq ToSet(list) \cup {x}
  BY <1>1, <1>2, Zenon DEF ToSet
<1>4. ToSet(list) \cup {x} \subseteq ToSet(Append(list, x))
  BY <1>1, <1>2, Zenon DEF ToSet
<1> QED
  BY <1>3, <1>4

LEMMA PostsKeeps ==
  ASSUME NEW T, ready \in Seq(T), NEW task \in T, Posts(task), NEW x
  PROVE  Queued(x)' <=> Queued(x) \/ x = task
  BY DEF Posts, Queued, ToSet

-----------------------------------------------------------------------------
(* What the helpers return *)

LEMMA OrderType ==
  ASSUME NEW S, S \subseteq Subs, NEW order \in SetToSeqs(S)
  PROVE  order \in Seq(S)
<1>1. IsFiniteSet(S)
  BY SubsAssumption, FS_Subset
<1>2. Cardinality(S) \in Nat
  BY <1>1, FS_CardinalityType
<1> QED
  BY <1>2 DEF SetToSeqs

LEMMA OrderCovers ==
  ASSUME NEW S, S \subseteq Subs, NEW order \in SetToSeqs(S), NEW x \in S
  PROVE  \E i \in 1..Len(order) : order[i] = x
<1>1. IsFiniteSet(S)
  BY SubsAssumption, FS_Subset
<1>2. Cardinality(S) \in Nat
  BY <1>1, FS_CardinalityType
<1>3. order \in [1..Cardinality(S) -> S] /\ Len(order) = Cardinality(S)
  BY <1>2 DEF SetToSeqs
<1>4. order \in Injection(1..Cardinality(S), S)
  BY <1>3 DEF SetToSeqs, Injection, IsInjective
<1>5. /\ IsFiniteSet(1..Cardinality(S))
      /\ Cardinality(1..Cardinality(S)) = Cardinality(S)
  BY <1>2, FS_Interval
<1> DEFINE D == 1..Cardinality(S)
<1>6. order \in Surjection(D, S)
  <2>1. order \in Injection(D, S) /\ IsFiniteSet(D) /\ Cardinality(D) = Cardinality(S)
    BY <1>4, <1>5
  <2> HIDE DEF D
  <2> QED
    BY <1>1, <2>1, FS_Injection
<1> QED
  BY <1>3, <1>6 DEF Surjection

LEMMA DisposalsType ==
  ASSUME NEW S, S \subseteq Subs, NEW order \in Orders(S), NEW n \in Nat
  PROVE  Disposals(order) \in Seq(Tasks(n))
<1>1. order \in Seq(Live(S))
  BY OrderType DEF Orders, Live
<1>2. order \in Seq(Subs)
  BY <1>1 DEF Live
<1>3. \A i \in 1..Len(order) : SubTask("unsubscribe", order[i]) \in Tasks(n)
  BY <1>2 DEF Tasks, SubTask
<1> QED
  BY <1>2, <1>3 DEF Disposals

LEMMA SignalType ==
  ASSUME TypeOK, NEW S, NEW end \in Observers
  PROVE  Signal(S, end) \in [Subs -> Observers]
  BY DEF TypeOK, Signal

LEMMA WireType ==
  ASSUME TypeOK, NEW msgs \in Seq(ClientMsgs)
  PROVE  Wire(transport, msgs) \in [Conns -> Seq(ClientMsgs)]
<1> DEFINE extended == [sent EXCEPT ![transport] = @ \o msgs]
<1>1. sent \in [Conns -> Seq(ClientMsgs)]
  BY DEF TypeOK
<1>2. \A t \in Conns : sent[t] \o msgs \in Seq(ClientMsgs)
  BY <1>1
<1>3. extended \in [Conns -> Seq(ClientMsgs)]
  BY <1>1, <1>2
<1> QED
  BY <1>1, <1>3 DEF Wire

LEMMA WriteErrorsType ==
  ASSUME TypeOK, NEW msgs, msgs = <<>> \/ transport # None
  PROVE  WriteErrors(transport, msgs) \in Seq(Tasks(created))
<1>1. CASE transport # None
  <2>1. transport \in 1..created
    BY <1>1, BoundsAssumption DEF TypeOK, None
  <2>2. ConnTask("writeFailed", transport) \in Tasks(created)
    BY <2>1 DEF Tasks, ConnTask
  <2> QED
    BY <2>2 DEF WriteErrors
<1>2. CASE msgs = <<>>
  BY <1>2 DEF WriteErrors
<1> QED
  BY <1>1, <1>2

\* Handlers of the transports that exist stay well-formed when one more does.
LEMMA TasksGrow ==
  ASSUME created \in Nat, created' = created + 1
  PROVE  Tasks(created) \subseteq Tasks(created')
  BY DEF Tasks

-----------------------------------------------------------------------------
(* Type correctness.  Send() needs a transport, so that TypeOK is inductive    *)
(* only together with TransportMatchesState.                                   *)

IInv == TypeOK /\ TransportMatchesState

LEMMA InitIInv == Init => IInv
<1> SUFFICES ASSUME Init PROVE IInv
  OBVIOUS
<1> USE BoundsAssumption
<1>1. TransportMatchesState
  BY DEF Init, TransportMatchesState, None
<1>2. /\ ready \in Seq(Tasks(created))
      /\ sent \in [Conns -> Seq(ClientMsgs)]
  BY DEF Init
<1>3. created \in 0..MaxConns /\ transport \in 0..created
  BY DEF Init, None
<1>4. \A t \in Conns : chain[t] = "unused" <=> t > created
  BY DEF Init, Conns
<1>5. /\ over \in [Conns -> SUBSET Subs]
      /\ acked \in [Conns -> BOOLEAN]
      /\ fired \in [Conns -> BOOLEAN]
  BY DEF Init
<1>6. /\ chain \in [Conns -> Chains]
      /\ sock \in [Conns -> {"none", "open", "closed"}]
      /\ observer \in [Subs -> Observers]
  BY DEF Init, Chains, Observers
<1>7. /\ everConnected \in BOOLEAN /\ timer \in BOOLEAN
      /\ initError \in BOOLEAN /\ alive \in BOOLEAN /\ dangling \in BOOLEAN
  BY DEF Init
<1>8. TypeOK
  BY <1>2, <1>3, <1>4, <1>5, <1>6, <1>7
  DEF Init, TypeOK, Stoppers, ConnectionStates
<1> QED
  BY <1>1, <1>8 DEF IInv

LEMMA ApplicationIInv == ASSUME IInv, Application PROVE IInv'
<1> USE BoundsAssumption DEF IInv
<1> created \in Nat
  BY DEF TypeOK
<1>1. ASSUME NEW s \in Subs, Subscribe(s) PROVE IInv'
  <2>1. SubTask("subscribe", s) \in Tasks(created)
    BY DEF SubTask, Tasks
  <2>2. ready' \in Seq(Tasks(created))
    BY <1>1, <2>1, PostsType DEF Subscribe, TypeOK
  <2> QED
    BY <1>1, <2>2 DEF Subscribe, TypeOK, TransportMatchesState, Observers,
       ctxVars, lifeVars, connVars, serverVars
<1>2. ASSUME NEW s \in Subs, Unsubscribe(s) PROVE IInv'
  <2>1. SubTask("unsubscribe", s) \in Tasks(created)
    BY DEF SubTask, Tasks
  <2>2. ready' \in Seq(Tasks(created))
    BY <1>2, <2>1, PostsType DEF Unsubscribe, TypeOK
  <2> QED
    BY <1>2, <2>2 DEF Unsubscribe, TypeOK, TransportMatchesState, Observers,
       ctxVars, lifeVars, connVars, serverVars
<1>3. CASE BeginStop
  BY <1>3 DEF BeginStop, TypeOK, TransportMatchesState, Stoppers,
     ctxVars, connVars, serverVars
<1>4. CASE PostStop
  <2>1. Plain("stop") \in Tasks(created)
    BY DEF Plain, Tasks
  <2>2. ready' \in Seq(Tasks(created))
    BY <1>4, <2>1, PostsType DEF PostStop, TypeOK
  <2> QED
    BY <1>4, <2>2 DEF PostStop, TypeOK, TransportMatchesState, Stoppers,
       ctxVars, connVars, serverVars
<1>5. CASE Release
  BY <1>5 DEF Release, TypeOK, TransportMatchesState, ctxVars, connVars,
     serverVars
<1> QED
  BY <1>1, <1>2, <1>3, <1>4, <1>5 DEF Application

LEMMA EnvironmentIInv == ASSUME IInv, Environment PROVE IInv'
<1> USE BoundsAssumption DEF IInv
<1> created \in Nat
  BY DEF TypeOK
<1>1. CASE TimerExpires
  <2>1. Plain("timer") \in Tasks(created)
    BY DEF Plain, Tasks
  <2>2. ready' \in Seq(Tasks(created))
    BY <1>1, <2>1, PostsType DEF TimerExpires, TypeOK
  <2> QED
    BY <1>1, <2>2 DEF TimerExpires, TypeOK, TransportMatchesState,
       lifeVars, connVars, serverVars
<1>2. ASSUME NEW t \in Conns,
             NEW from \in Chains \ {"unused"}, NEW to \in Chains \ {"unused"},
             NEW op \in {"resolved", "connected", "failed"}, Ends(t, from, to, op)
      PROVE  IInv'
  <2>1. t \in 1..created
    BY <1>2 DEF Ends, TypeOK, Conns
  <2>2. ConnTask(op, t) \in Tasks(created)
    BY <2>1 DEF ConnTask, Tasks
  <2>3. ready' \in Seq(Tasks(created))
    BY <1>2, <2>2, PostsType DEF Ends, TypeOK
  <2> QED
    BY <1>2, <2>3 DEF Ends, TypeOK, TransportMatchesState,
       ctxVars, lifeVars, serverVars
<1>3. ASSUME NEW t \in Conns, Drops(t) PROVE IInv'
  <2>1. t \in 1..created
    BY <1>3 DEF Drops, Open, TypeOK, Conns
  <2>2. ConnTask("writeFailed", t) \in Tasks(created)
    BY <2>1 DEF ConnTask, Tasks
  <2>3. ready' \in Seq(Tasks(created))
    BY <1>3, <2>2, PostsType DEF Drops, TypeOK
  <2> QED
    BY <1>3, <2>3 DEF Drops, Breaks, TypeOK, TransportMatchesState,
       ctxVars, lifeVars
<1>4. ASSUME NEW t \in Conns, Network(t) PROVE IInv'
  <2> USE DEF Chains
  <2>1. CASE Drops(t)
    BY <1>3, <2>1
  <2>2. CASE Connects(t)
    BY <2>2 DEF Connects, TypeOK, TransportMatchesState, ctxVars, lifeVars,
       serverVars
  <2>3. CASE Reads(t)
    <3>1. t \in 1..created
      BY <2>3 DEF Reads, TypeOK, Conns
    <3>2. /\ Head(held[t]) \in ServerMsgs /\ Tail(held[t]) \in Seq(ServerMsgs)
          /\ MessageTask(t, Head(held[t])) \in Tasks(created)
      BY <2>3, <3>1 DEF Reads, TypeOK, MessageTask, Tasks
    <3>3. ready' \in Seq(Tasks(created)) /\ held' \in [Conns -> Seq(ServerMsgs)]
      BY <2>3, <3>2, PostsType DEF Reads, TypeOK
    <3> QED
      BY <2>3, <3>3 DEF Reads, TypeOK, TransportMatchesState, ctxVars, lifeVars
  <2>4. CASE OperationAborts(t)
    <3>1. ConnTask("failed", t) \in Tasks(created)
      BY <2>4 DEF OperationAborts, TypeOK, Conns, ConnTask, Tasks
    <3>2. ready' \in Seq(Tasks(created)) /\ held' \in [Conns -> Seq(ServerMsgs)]
      BY <2>4, <3>1, PostsType DEF OperationAborts, TypeOK
    <3> QED
      BY <2>4, <3>2 DEF OperationAborts, TypeOK, TransportMatchesState, ctxVars,
         lifeVars
  <2> QED
    BY <1>2, <1>4, <2>1, <2>2, <2>3, <2>4 DEF Network, Resolves, ResolveFails, Connects,
       ConnectFails, Upgrades, UpgradeFails, Reads, OperationAborts
<1>5. ASSUME NEW t \in Conns, NEW m \in ServerMsgs, ServerSends(t, m) PROVE IInv'
  <2>1. m.type \in {"error", "complete"} => m.id \in Subs
    BY DEF ServerMsgs
  <2>2. over' \in [Conns -> SUBSET Subs]
    BY <1>5, <2>1 DEF ServerSends, TypeOK
  <2>3. acked' \in [Conns -> BOOLEAN]
    BY <1>5 DEF ServerSends, TypeOK
  <2>4. held' \in [Conns -> Seq(ServerMsgs)]
    BY <1>5 DEF ServerSends, TypeOK
  <2> QED
    BY <1>5, <2>2, <2>3, <2>4 DEF ServerSends, TypeOK,
       TransportMatchesState, ctxVars, lifeVars, connVars
<1> QED
  BY <1>1, <1>4, <1>5 DEF Environment

\* The handlers that change the subscriptions, and the timer's.
LEMMA SubscriptionIInv ==
  ASSUME IInv, NEW s \in Subs,
         RejectSubscribe(s) \/ OnSubscribe(s) \/ OnUnsubscribe(s)
  PROVE  IInv'
<1> USE BoundsAssumption DEF IInv
<1> created \in Nat
  BY DEF TypeOK
<1>1. CASE RejectSubscribe(s)
  <2>0. ready \in Seq(Tasks(created))
    BY DEF TypeOK
  <2>1. PICK order \in Orders({s}) :
          Runs(SubTask("subscribe", s), Disposals(order))
    BY <1>1 DEF RejectSubscribe
  <2>2. ready' \in Seq(Tasks(created))
    BY <2>0, <2>1, DisposalsType, RunsType
  <2>3. observer' \in [Subs -> Observers]
    BY <1>1, SignalType DEF RejectSubscribe, Observers
  <2> QED
    BY <1>1, <2>2, <2>3 DEF RejectSubscribe, TypeOK, TransportMatchesState,
       ctxVars, lifeVars, connVars, serverVars
<1>2. CASE OnSubscribe(s)
  <2> DEFINE out == IF SendsNow THEN <<Msg("subscribe", s)>> ELSE <<>>
  <2>0. Msg("subscribe", s) \in ClientMsgs
    BY DEF ClientMsgs, Msg
  <2>1. out \in Seq(ClientMsgs)
    BY <2>0
  <2>2. out = <<>> \/ transport # None
    BY DEF SendsNow, TransportMatchesState
  <2>3. WriteErrors(transport, out) \in Seq(Tasks(created))
    BY <2>2, WriteErrorsType
  <2>4. sent' = Wire(transport, out)
        /\ Runs(SubTask("subscribe", s), WriteErrors(transport, out))
    BY <1>2 DEF OnSubscribe
  <2>5. ready' \in Seq(Tasks(created))
    BY <2>3, <2>4, RunsType DEF TypeOK
  <2>6. sent' \in [Conns -> Seq(ClientMsgs)]
    BY <2>1, <2>4, WireType
  <2>7. subs' \in SUBSET Subs
    BY <1>2 DEF OnSubscribe, TypeOK
  <2>8. CASE state = "Idle"
    <3>1. /\ state' = "Connecting" /\ transport' = created + 1
          /\ created' = created + 1 /\ created < MaxConns
          /\ chain' = [chain EXCEPT ![created + 1] = "resolving"]
      BY <1>2, <2>8 DEF OnSubscribe, ConnectTransport
    <3>2. /\ chain' \in [Conns -> Chains]
          /\ \A t \in Conns : chain'[t] = "unused" <=> t > created'
      BY <3>1 DEF TypeOK, Chains, Conns
    <3>3. ready' \in Seq(Tasks(created'))
      BY <2>5, <3>1, TasksGrow
    <3>4. UNCHANGED <<everConnected, attempt, timer, initError, stopper, alive,
                      dangling, sock, fired, acked, over, held, observer>>
      BY <1>2 DEF OnSubscribe, lifeVars, serverVars
    <3>5. TransportMatchesState'
      BY <3>1 DEF TransportMatchesState, None
    <3>6. TypeOK'
      BY <2>6, <2>7, <3>1, <3>2, <3>3, <3>4 DEF TypeOK, ConnectionStates
    <3> QED
      BY <3>5, <3>6
  <2>9. CASE state # "Idle"
    <3>1. UNCHANGED <<state, transport, created, chain>>
      BY <1>2, <2>9 DEF OnSubscribe
    <3>2. UNCHANGED <<everConnected, attempt, timer, initError, stopper, alive,
                      dangling, sock, fired, acked, over, held, observer>>
      BY <1>2 DEF OnSubscribe, lifeVars, serverVars
    <3>3. ready' \in Seq(Tasks(created'))
      BY <2>5, <3>1
    <3>4. TransportMatchesState'
      BY <3>1 DEF TransportMatchesState
    <3>5. TypeOK'
      BY <2>6, <2>7, <3>1, <3>2, <3>3 DEF TypeOK
    <3> QED
      BY <3>4, <3>5
  <2> QED
    BY <2>8, <2>9
<1>3. CASE OnUnsubscribe(s)
  <2> DEFINE out == IF TellsServer THEN <<Msg("complete", s)>> ELSE <<>>
  <2>0. Msg("complete", s) \in ClientMsgs
    BY DEF ClientMsgs, Msg
  <2>1. out \in Seq(ClientMsgs)
    BY <2>0
  <2>2. out = <<>> \/ transport # None
    BY DEF TellsServer, TransportMatchesState
  <2>3. WriteErrors(transport, out) \in Seq(Tasks(created))
    BY <2>2, WriteErrorsType
  <2>4. sent' = Wire(transport, out)
        /\ Runs(SubTask("unsubscribe", s), WriteErrors(transport, out))
    BY <1>3 DEF OnUnsubscribe
  <2>5. ready' \in Seq(Tasks(created))
    BY <2>3, <2>4, RunsType DEF TypeOK
  <2>6. sent' \in [Conns -> Seq(ClientMsgs)]
    BY <2>1, <2>4, WireType
  <2>7. /\ subs' \in SUBSET Subs
        /\ state' \in ConnectionStates
        /\ timer' \in BOOLEAN
        /\ state' \in {"Connecting", "Connected"}
             <=> state \in {"Connecting", "Connected"}
    BY <1>3 DEF OnUnsubscribe, RemoveSub, GoIdle, TypeOK, ConnectionStates
  <2> QED
    BY <1>3, <2>5, <2>6, <2>7 DEF OnUnsubscribe, TypeOK,
       TransportMatchesState, lifeVars, serverVars
<1> QED
  BY <1>1, <1>2, <1>3

LEMMA StopIInv == ASSUME IInv, RunStop \/ RunStopped \/ OnTimer PROVE IInv'
<1> USE BoundsAssumption DEF IInv
<1> created \in Nat
  BY DEF TypeOK
<1>1. CASE RunStop
  <2>1. PICK order \in Orders(subs) :
          Runs(Plain("stop"), Disposals(order) \o StoppedNext)
    BY <1>1 DEF RunStop
  <2>2. Disposals(order) \in Seq(Tasks(created))
    BY DisposalsType DEF TypeOK
  <2>3. StoppedNext \in Seq(Tasks(created))
    BY DEF StoppedNext, Plain, Tasks
  <2>4. ready' \in Seq(Tasks(created))
    <3>1. Disposals(order) \o StoppedNext \in Seq(Tasks(created))
      BY <2>2, <2>3
    <3>2. ready \in Seq(Tasks(created))
      BY DEF TypeOK
    <3> QED
      BY <2>1, <3>1, <3>2, RunsType
  <2>5. observer' \in [Subs -> Observers]
    BY <1>1, SignalType DEF RunStop, StopOnContext, Observers
  <2> QED
    BY <1>1, <2>4, <2>5 DEF RunStop, StopOnContext, CloseTransport, TypeOK,
       TransportMatchesState, Stoppers, serverVars
<1>2. CASE RunStopped
  <2>1. ready' \in Seq(Tasks(created))
    BY <1>2, RunsAlone DEF RunStopped, TypeOK
  <2> QED
    BY <1>2, <2>1 DEF RunStopped, TypeOK, TransportMatchesState, Stoppers,
       ctxVars, connVars, serverVars
<1>3. CASE OnTimer
  <2>1. ready' \in Seq(Tasks(created))
    BY <1>3, RunsAlone DEF OnTimer, TypeOK
  <2>2. CASE MayReconnect
    <3>1. /\ state' = "Connecting" /\ transport' = created + 1
          /\ created' = created + 1 /\ created < MaxConns
          /\ chain' = [chain EXCEPT ![created + 1] = "resolving"]
      BY <1>3, <2>2 DEF OnTimer, ConnectTransport
    <3>2. /\ chain' \in [Conns -> Chains]
          /\ \A t \in Conns : chain'[t] = "unused" <=> t > created'
      BY <3>1 DEF TypeOK, Chains, Conns
    <3>3. ready' \in Seq(Tasks(created'))
      BY <2>1, <3>1, TasksGrow
    <3> QED
      BY <1>3, <3>1, <3>2, <3>3 DEF OnTimer, TypeOK, TransportMatchesState,
         ConnectionStates, None, lifeVars, serverVars
  <2>3. CASE ~MayReconnect
    BY <1>3, <2>1, <2>3 DEF OnTimer, TypeOK, TransportMatchesState, lifeVars,
       serverVars
  <2> QED
    BY <2>2, <2>3
<1> QED
  BY <1>1, <1>2, <1>3

\* Whatever FireDisconnected does, it runs as the task that was at the head.
LEMMA FailedTask ==
  ASSUME TypeOK, NEW t, NEW task, FireDisconnected(t, task)
  PROVE  task \in Tasks(created)
<1>1. PICK posts : Runs(task, posts)
  BY DEF FireDisconnected, OnTransportDisconnected
<1> QED
  BY <1>1 DEF Runs, TypeOK

\* FireDisconnected is where _state and _transport change together.
LEMMA FireDisconnectedFacts ==
  ASSUME IInv, NEW t \in Conns, NEW task, FireDisconnected(t, task)
  PROVE  /\ ready' \in Seq(Tasks(created))
         /\ fired' \in [Conns -> BOOLEAN]
         /\ state' \in ConnectionStates
         /\ subs' \in SUBSET Subs
         /\ transport' \in 0..created
         /\ attempt' \in 0..5
         /\ timer' \in BOOLEAN
         /\ observer' \in [Subs -> Observers]
         /\ TransportMatchesState'
         /\ UNCHANGED <<everConnected, created, initError, stopper, alive,
                        dangling>>
<1> USE DEF IInv
<1> created \in Nat
  BY BoundsAssumption DEF TypeOK
<1>1. /\ fired' \in [Conns -> BOOLEAN]
      /\ UNCHANGED <<everConnected, created, initError, stopper, alive, dangling>>
  BY DEF FireDisconnected, TypeOK, lifeVars
<1>2. CASE OnTransportDisconnected(task)
  <2>1. transport' = None
    BY <1>2 DEF OnTransportDisconnected, ResetTransport
  <2>2. CASE /\ GivesUp
             /\ \E order \in Orders(subs) : Runs(task, Disposals(order))
             /\ observer' = Signal(subs, "failed")
             /\ subs' = {} /\ state' = "Idle" /\ UNCHANGED <<attempt, timer>>
    <3>1. PICK order \in Orders(subs) : Runs(task, Disposals(order))
      BY <2>2
    <3>2. ready' \in Seq(Tasks(created))
      BY <3>1, DisposalsType, RunsType DEF TypeOK
    <3>3. observer' \in [Subs -> Observers]
      BY <2>2, SignalType DEF Observers
    <3> QED
      BY <1>1, <2>1, <2>2, <3>2, <3>3 DEF TypeOK, TransportMatchesState, None,
         ConnectionStates
  <2>3. CASE /\ Runs(task, <<>>)
             /\ \/ /\ state' = "Idle" /\ UNCHANGED <<subs, attempt, timer, observer>>
                \/ ScheduleReconnect /\ UNCHANGED <<subs, observer>>
                \/ /\ state \in {"Idle", "Reconnecting"}
                   /\ UNCHANGED <<state, subs, attempt, timer, observer>>
    <3>1. ready' \in Seq(Tasks(created))
      BY <2>3, RunsAlone DEF TypeOK
    <3>2. CASE ScheduleReconnect /\ UNCHANGED <<subs, observer>>
      <4>1. attempt' \in 0..5
        BY <3>2 DEF ScheduleReconnect, TypeOK
      <4> QED
        BY <1>1, <2>1, <3>1, <3>2, <4>1 DEF ScheduleReconnect, TypeOK,
           TransportMatchesState, None, ConnectionStates
    <3>3. CASE /\ state' \in {"Idle", "Reconnecting"}
               /\ UNCHANGED <<subs, attempt, timer, observer>>
      BY <1>1, <2>1, <3>1, <3>3 DEF TypeOK, TransportMatchesState, None,
         ConnectionStates
    <3> QED
      BY <2>3, <3>2, <3>3
  <2> QED
    BY <1>2, <2>2, <2>3 DEF OnTransportDisconnected
<1>3. CASE Runs(task, <<>>)
           /\ UNCHANGED <<transport, state, subs, attempt, timer, observer>>
  <2>1. ready' \in Seq(Tasks(created))
    BY <1>3, RunsAlone DEF TypeOK
  <2> QED
    BY <1>1, <1>3, <2>1 DEF TypeOK, TransportMatchesState
<1> QED
  BY <1>2, <1>3 DEF FireDisconnected

LEMMA CompletionIInv == ASSUME IInv, NEW t \in Conns, Completions(t) PROVE IInv'
<1> USE DEF IInv
<1> created \in Nat
  BY BoundsAssumption DEF TypeOK
<1>1. CASE OnResolved(t)
  <2>1. ready' \in Seq(Tasks(created)) /\ ConnTask("resolved", t) \in Tasks(created)
    BY <1>1, RunsAlone DEF OnResolved, TypeOK
  <2>2. t \in 1..created
    BY <2>1 DEF ConnTask, Tasks
  <2> QED
    BY <1>1, <2>1, <2>2 DEF OnResolved, TypeOK, TransportMatchesState, Chains,
       ctxVars, lifeVars, serverVars
<1>2. CASE OnTransportConnected(t)
  <2> DEFINE out == IF alive /\ state = "Connecting"
                    THEN <<Bare("connection_init")>> ELSE <<>>
  <2>0. Bare("connection_init") \in ClientMsgs
    BY DEF ClientMsgs, Bare
  <2>1. out \in Seq(ClientMsgs)
    BY <2>0
  <2>2. WriteErrors(transport, out) \in Seq(Tasks(created))
    BY WriteErrorsType DEF TransportMatchesState
  <2>3. sent' = Wire(transport, out)
        /\ Runs(ConnTask("connected", t), WriteErrors(transport, out))
    BY <1>2 DEF OnTransportConnected
  <2>4. ready' \in Seq(Tasks(created)) /\ ConnTask("connected", t) \in Tasks(created)
    BY <2>2, <2>3, RunsType DEF TypeOK
  <2>5. t \in 1..created
    BY <2>4 DEF ConnTask, Tasks
  <2>6. sent' \in [Conns -> Seq(ClientMsgs)]
    BY <2>1, <2>3, WireType
  <2>7. UNCHANGED <<ctxVars, lifeVars, created, sock, fired, serverVars, observer>>
    BY <1>2 DEF OnTransportConnected
  <2>8. /\ chain' \in [Conns -> Chains]
        /\ \A u \in Conns : chain'[u] = "unused" <=> u > created
    BY <1>2, <2>5 DEF OnTransportConnected, TypeOK, Chains
  <2> QED
    BY <2>4, <2>6, <2>7, <2>8 DEF TypeOK, TransportMatchesState, ctxVars,
       lifeVars, serverVars
<1>3. CASE OnFailed(t)
  <2>1. FireDisconnected(t, ConnTask("failed", t))
    BY <1>3 DEF OnFailed
  <2>2. ConnTask("failed", t) \in Tasks(created)
    BY <2>1, FailedTask
  <2>3. t \in 1..created
    BY <2>2 DEF ConnTask, Tasks
  <2>4. /\ chain' \in [Conns -> Chains]
        /\ \A u \in Conns : chain'[u] = "unused" <=> u > created
        /\ sock' \in [Conns -> {"none", "open", "closed"}]
        /\ sent' \in [Conns -> Seq(ClientMsgs)]
        /\ acked' \in [Conns -> BOOLEAN]
        /\ over' \in [Conns -> SUBSET Subs]
        /\ held' = held
    BY <1>3, <2>3 DEF OnFailed, Breaks, TypeOK, Chains
  <2> QED
    BY <2>1, <2>4, FireDisconnectedFacts DEF TypeOK
<1>4. CASE OnWriteFailed(t)
  <2>1. FireDisconnected(t, ConnTask("writeFailed", t))
    BY <1>4 DEF OnWriteFailed
  <2>2. UNCHANGED <<chain, sock, sent, acked, over, held>>
    BY <1>4 DEF OnWriteFailed, serverVars
  <2>3. created' = created /\ ready' \in Seq(Tasks(created'))
    BY <2>1, FireDisconnectedFacts
  <2>4. /\ chain' = chain /\ sock' = sock /\ sent' = sent
        /\ acked' = acked /\ over' = over /\ held' = held
    BY <2>2
  <2>5. TypeOK'
    BY <2>1, <2>3, <2>4, FireDisconnectedFacts DEF TypeOK
  <2> QED
    BY <2>1, <2>5, FireDisconnectedFacts
<1> QED
  BY <1>1, <1>2, <1>3, <1>4 DEF Completions

\* A message handler only ever re-arms the read of the transport it came from.
LEMMA ReceivesFacts ==
  ASSUME TypeOK, NEW t \in Conns, NEW m, NEW posts \in Seq(Tasks(created)),
         Receives(t, m, posts)
  PROVE  /\ ready' \in Seq(Tasks(created))
         /\ chain' \in [Conns -> Chains]
         /\ \A u \in Conns : chain'[u] = "unused" <=> u > created
<1>1. ready' \in Seq(Tasks(created)) /\ MessageTask(t, m) \in Tasks(created)
  BY RunsType DEF Receives, TypeOK
<1>2. t \in 1..created
  BY <1>1 DEF MessageTask, Tasks
<1>3. created \in Nat
  BY BoundsAssumption DEF TypeOK
<1> QED
  BY <1>1, <1>2, <1>3 DEF Receives, TypeOK, Chains

LEMMA MessagesIInv == ASSUME IInv, NEW t \in Conns, Messages(t) PROVE IInv'
<1> USE DEF IInv
<1> created \in Nat
  BY BoundsAssumption DEF TypeOK
<1>0. <<>> \in Seq(Tasks(created))
  OBVIOUS
<1>1. CASE OnAck(t)
  <2>1. PICK order \in SetToSeqs(subs) :
          LET out == [i \in DOMAIN order |-> Msg("subscribe", order[i])] IN
          /\ sent' = Wire(transport, out)
          /\ Receives(t, Bare("connection_ack"), WriteErrors(transport, out))
    BY <1>1 DEF OnAck
  <2> DEFINE out == [i \in DOMAIN order |-> Msg("subscribe", order[i])]
  <2>2. order \in Seq(Subs)
    <3>1. subs \subseteq Subs
      BY DEF TypeOK
    <3>2. order \in Seq(subs)
      BY <3>1, OrderType
    <3> QED
      BY <3>1, <3>2
  <2>3. \A i \in 1..Len(order) : Msg("subscribe", order[i]) \in ClientMsgs
    BY <2>2 DEF Msg, ClientMsgs
  <2>4. out \in Seq(ClientMsgs)
    BY <2>2, <2>3
  <2>5. sent' = Wire(transport, out)
        /\ Receives(t, Bare("connection_ack"), WriteErrors(transport, out))
    BY <2>1
  <2>6. transport # None
    BY <1>1 DEF OnAck, TransportMatchesState
  <2> HIDE DEF out
  <2>7. sent' \in [Conns -> Seq(ClientMsgs)]
    BY <2>4, <2>5, WireType
  <2>8. WriteErrors(transport, out) \in Seq(Tasks(created))
    BY <2>6, WriteErrorsType
  <2>9. /\ everConnected' = TRUE /\ attempt' = 0 /\ state' = "Connected"
        /\ UNCHANGED <<subs, transport, timer, lifeVars, created, sock, fired,
                       serverVars, observer>>
    BY <1>1 DEF OnAck, Connected
  <2> QED
    BY <2>5, <2>6, <2>7, <2>8, <2>9, ReceivesFacts DEF TypeOK,
       TransportMatchesState, ConnectionStates, lifeVars, serverVars
<1>2. CASE OnPing(t)
  <2>1. WriteErrors(transport, <<Bare("pong")>>) \in Seq(Tasks(created))
    BY <1>2, WriteErrorsType DEF OnPing, TransportMatchesState
  <2> QED
    BY <1>2, <2>1, ReceivesFacts DEF OnPing, TypeOK, TransportMatchesState,
       ctxVars, lifeVars, serverVars
<1>3. ASSUME NEW m \in ServerMsgs, IgnoreMessage(t, m) PROVE IInv'
  BY <1>0, <1>3, ReceivesFacts DEF IgnoreMessage, TypeOK,
     TransportMatchesState, ctxVars, lifeVars, serverVars
<1>4. ASSUME NEW s \in Subs, OnNext(t, s) PROVE IInv'
  BY <1>0, <1>4, ReceivesFacts DEF OnNext, TypeOK, TransportMatchesState,
     ctxVars, lifeVars, serverVars
<1>5. ASSUME NEW s \in Subs, NEW type, OnEnd(t, s, type) PROVE IInv'
  <2>1. PICK order \in Orders({s}) : Receives(t, Msg(type, s), Disposals(order))
    BY <1>5 DEF OnEnd
  <2>2. Disposals(order) \in Seq(Tasks(created))
    BY DisposalsType
  <2>3. observer' \in [Subs -> Observers]
    BY <1>5, SignalType DEF OnEnd, Observers
  <2> QED
    BY <1>5, <2>1, <2>2, <2>3, ReceivesFacts DEF OnEnd, TypeOK,
       TransportMatchesState, lifeVars, serverVars
<1>6. ASSUME NEW s \in Subs, NEW type, DestroyInOnNext(t, s, type) PROVE IInv'
  <2>1. PICK order \in Orders(subs) : Receives(t, Msg(type, s), Disposals(order))
    BY <1>6 DEF DestroyInOnNext
  <2>2. Disposals(order) \in Seq(Tasks(created))
    BY DisposalsType DEF TypeOK
  <2>3. observer' \in [Subs -> Observers]
    BY <1>6, SignalType DEF DestroyInOnNext, StopOnContext, Observers
  <2> QED
    BY <1>6, <2>1, <2>2, <2>3, ReceivesFacts DEF DestroyInOnNext, StopOnContext,
       CloseTransport, TypeOK, TransportMatchesState, Stoppers, serverVars
<1> QED
  BY <1>1, <1>2, <1>3, <1>4, <1>5, <1>6 DEF Messages

LEMMA NextIInv == ASSUME IInv, [Next]_vars PROVE IInv'
<1>1. CASE UNCHANGED vars
  BY <1>1 DEF IInv, TypeOK, TransportMatchesState, vars, ctxVars, lifeVars,
     connVars, serverVars
<1>2. CASE DestroyInTerminalCallback
  BY <1>2 DEF DestroyInTerminalCallback, IInv, TypeOK, TransportMatchesState,
     Stoppers, ctxVars, connVars, serverVars
<1>3. CASE AsioThread
  BY <1>2, <1>3, SubscriptionIInv, StopIInv, CompletionIInv, MessagesIInv
  DEF AsioThread
<1> QED
  BY <1>1, <1>3, ApplicationIInv, EnvironmentIInv DEF Next

LEMMA InductiveInvariant == Spec => []IInv
  BY InitIInv, NextIInv, PTL DEF Spec

\* Every reachable state is well-formed; in particular handlers are only queued
\* for transports that were created.
THEOREM TypeCorrect == Spec => []TypeOK
<1>1. IInv => TypeOK
  BY DEF IInv
<1> QED
  BY <1>1, InductiveInvariant, PTL

\* Send() never dereferences a null _transport, whatever the interleaving.
THEOREM TransportAlwaysMatchesState == Spec => []TransportMatchesState
<1>1. IInv => TransportMatchesState
  BY DEF IInv
<1> QED
  BY <1>1, InductiveInvariant, PTL

-----------------------------------------------------------------------------
(* What the handlers do to the queue *)

\* What a handler appends to the queue is never the timer's handler, a message or
\* a Subscribe; it is the Unsubscribes of the observers that it ends, and of done
\* ones only, the last step of ~WsLink after StopOnContext, and a failed write.
Sending ==
  \/ state = "Connected"
  \/ state = "Connecting" /\ \E t \in Conns : OnAck(t) \/ OnTransportConnected(t)

Done(s) == observer[s] \in {"completed", "failed", "cancelled"}

Appends(task, posts) ==
  /\ Runs(task, posts)
  /\ posts \in Seq(Tasks(created))
  /\ Plain("timer") \notin ToSet(posts)
  /\ Plain("stopped") \in ToSet(posts) => stopper' = "ran"
  /\ \A t, m : MessageTask(t, m) \notin ToSet(posts)
  /\ \A op, t : ConnTask(op, t) \in ToSet(posts) =>
       op = "writeFailed" /\ t = transport /\ ~Open(t) /\ Sending
  /\ \A s \in Subs :
       /\ SubTask("subscribe", s) \notin ToSet(posts)
       /\ SubTask("unsubscribe", s) \in ToSet(posts) => Done(s)'
       /\ observer[s] = "live" /\ observer'[s] # "live" =>
            SubTask("unsubscribe", s) \in ToSet(posts)

LEMMA DisposalsSignalled ==
  ASSUME TypeOK, NEW S, S \subseteq Subs, NEW order \in Orders(S),
         NEW end \in {"completed", "failed"}, observer' = Signal(S, end)
  PROVE  /\ \A op : Plain(op) \notin ToSet(Disposals(order))
         /\ \A t, m : MessageTask(t, m) \notin ToSet(Disposals(order))
         /\ \A op, t : ConnTask(op, t) \notin ToSet(Disposals(order))
         /\ \A s \in Subs :
              /\ SubTask("subscribe", s) \notin ToSet(Disposals(order))
              /\ SubTask("unsubscribe", s) \in ToSet(Disposals(order)) => Done(s)'
              /\ observer[s] = "live" /\ observer'[s] # "live" =>
                   SubTask("unsubscribe", s) \in ToSet(Disposals(order))
<1>1. order \in Seq(Live(S)) /\ Live(S) \subseteq Subs
  BY OrderType DEF Orders, Live
<1>2. ASSUME NEW x \in ToSet(Disposals(order))
      PROVE  /\ \A op : x # Plain(op)
             /\ \A t, m : x # MessageTask(t, m)
             /\ \A op, t : x # ConnTask(op, t)
             /\ \A s \in Subs : x # SubTask("subscribe", s)
             /\ \A s \in Subs : x = SubTask("unsubscribe", s) => s \in Live(S)
  <2>1. PICK u \in Live(S) : x = SubTask("unsubscribe", u)
    BY <1>1 DEF Disposals, ToSet
  <2> QED
    BY <2>1 DEF SubTask, ConnTask, MessageTask, Plain
<1>3. \A s \in Live(S) : Done(s)'
  BY DEF Live, Signal, Done, TypeOK
<1>4. ASSUME NEW s \in Subs, observer[s] = "live", observer'[s] # "live"
      PROVE  SubTask("unsubscribe", s) \in ToSet(Disposals(order))
  <2>1. s \in Live(S)
    BY <1>4 DEF Live, Signal
  <2>2. PICK i \in 1..Len(order) : order[i] = s
    BY <1>1, <2>1, OrderCovers DEF Orders
  <2> QED
    BY <1>1, <2>2 DEF Disposals, ToSet
<1> QED
  BY <1>2, <1>3, <1>4

LEMMA DisposalsAppend ==
  ASSUME TypeOK, NEW S, S \subseteq Subs, NEW order \in Orders(S),
         NEW end \in {"completed", "failed"}, observer' = Signal(S, end),
         NEW task, Runs(task, Disposals(order))
  PROVE  Appends(task, Disposals(order))
<1>1. created \in Nat
  BY BoundsAssumption DEF TypeOK
<1>2. Disposals(order) \in Seq(Tasks(created))
  BY <1>1, DisposalsType
<1> QED
  BY <1>2, DisposalsSignalled DEF Appends

LEMMA WriteErrorsAppend ==
  ASSUME TypeOK, NEW msgs, msgs = <<>> \/ transport # None,
         msgs = <<>> \/ Sending,
         NEW task, Runs(task, WriteErrors(transport, msgs)), UNCHANGED observer
  PROVE  Appends(task, WriteErrors(transport, msgs))
<1>1. /\ \A op : ConnTask("writeFailed", transport) # Plain(op)
      /\ \A t, m : ConnTask("writeFailed", transport) # MessageTask(t, m)
      /\ \A op, s : ConnTask("writeFailed", transport) # SubTask(op, s)
  BY DEF ConnTask, SubTask, MessageTask, Plain
<1>2. \A x \in ToSet(WriteErrors(transport, msgs)) :
        x = ConnTask("writeFailed", transport) /\ ~Open(transport) /\ Sending
  BY DEF WriteErrors, ToSet
<1>3. \A op, t : ConnTask(op, t) = ConnTask("writeFailed", transport) =>
        op = "writeFailed" /\ t = transport
  BY DEF ConnTask
<1> QED
  BY <1>1, <1>2, <1>3, WriteErrorsType DEF Appends

LEMMA NothingAppends ==
  ASSUME NEW task, Runs(task, <<>>), UNCHANGED observer
  PROVE  Appends(task, <<>>)
  BY DEF Appends, ToSet

LEMMA DisconnectAppends ==
  ASSUME IInv, NEW t, NEW task, FireDisconnected(t, task)
  PROVE  \E posts : Appends(task, posts)
<1>1. CASE /\ \E order \in Orders(subs) : Runs(task, Disposals(order))
           /\ observer' = Signal(subs, "failed")
  <2>1. subs \subseteq Subs
    BY DEF IInv, TypeOK
  <2> QED
    BY <1>1, <2>1, DisposalsAppend DEF IInv
<1>2. CASE Runs(task, <<>>) /\ UNCHANGED observer
  BY <1>2, NothingAppends
<1> QED
  BY <1>1, <1>2 DEF FireDisconnected, OnTransportDisconnected

LEMMA MessageAppends ==
  ASSUME IInv, NEW t \in Conns, Messages(t)
  PROVE  \E m, posts : Appends(MessageTask(t, m), posts)
<1> USE DEF IInv, Receives
<1> created \in Nat /\ subs \subseteq Subs
  BY BoundsAssumption DEF TypeOK
<1>1. CASE OnAck(t)
  <2>1. transport # None /\ Sending /\ UNCHANGED observer
    BY <1>1 DEF OnAck, TransportMatchesState, Sending
  <2> QED
    BY <1>1, <2>1, WriteErrorsAppend DEF OnAck
<1>2. CASE OnPing(t)
  <2>1. transport # None /\ Sending /\ UNCHANGED observer
    BY <1>2 DEF OnPing, TransportMatchesState, Sending
  <2> QED
    BY <1>2, <2>1, WriteErrorsAppend DEF OnPing
<1>3. ASSUME NEW m \in ServerMsgs, IgnoreMessage(t, m)
      PROVE  \E n, posts : Appends(MessageTask(t, n), posts)
  BY <1>3, NothingAppends DEF IgnoreMessage
<1>4. ASSUME NEW s \in Subs, OnNext(t, s)
      PROVE  \E n, posts : Appends(MessageTask(t, n), posts)
  BY <1>4, NothingAppends DEF OnNext
<1>5. ASSUME NEW s \in Subs, NEW type, OnEnd(t, s, type)
      PROVE  \E n, posts : Appends(MessageTask(t, n), posts)
  <2>1. PICK order \in Orders({s}) :
          Runs(MessageTask(t, Msg(type, s)), Disposals(order))
    BY <1>5 DEF OnEnd
  <2>2. observer' = Signal({s}, "completed")
    BY <1>5 DEF OnEnd
  <2> QED
    BY <2>1, <2>2, DisposalsAppend
<1>6. ASSUME NEW s \in Subs, NEW type, DestroyInOnNext(t, s, type)
      PROVE  \E n, posts : Appends(MessageTask(t, n), posts)
  <2>1. PICK order \in Orders(subs) :
          Runs(MessageTask(t, Msg(type, s)), Disposals(order))
    BY <1>6 DEF DestroyInOnNext
  <2>2. observer' = Signal(subs, "completed")
    BY <1>6 DEF DestroyInOnNext, StopOnContext
  <2> QED
    BY <2>1, <2>2, DisposalsAppend
<1> QED
  BY <1>1, <1>2, <1>3, <1>4, <1>5, <1>6 DEF Messages

\* Every step of the Asio thread but the undefined one takes a task from the
\* queue; which task says which handler it was.
LEMMA AsioAppends ==
  ASSUME IInv, AsioThread, ~DestroyInTerminalCallback
  PROVE  \E task, posts :
           /\ Appends(task, posts)
           /\ task = Plain("timer") => OnTimer
           /\ \A s \in Subs :
                /\ task = SubTask("subscribe", s) =>
                     RejectSubscribe(s) \/ OnSubscribe(s)
                /\ task = SubTask("unsubscribe", s) => OnUnsubscribe(s)
<1> USE DEF IInv
<1> created \in Nat /\ subs \subseteq Subs
  BY BoundsAssumption DEF TypeOK
<1> DEFINE Fits(task) == /\ task = Plain("timer") => OnTimer
                         /\ \A s \in Subs :
                              /\ task = SubTask("subscribe", s) =>
                                   RejectSubscribe(s) \/ OnSubscribe(s)
                              /\ task = SubTask("unsubscribe", s) =>
                                   OnUnsubscribe(s)
<1>1. ASSUME NEW s \in Subs, RejectSubscribe(s) \/ OnSubscribe(s)
      PROVE  \E task, posts : Appends(task, posts) /\ Fits(task)
  <2>1. Fits(SubTask("subscribe", s))
    BY <1>1 DEF SubTask, Plain
  <2>2. CASE RejectSubscribe(s)
    <3>1. PICK order \in Orders({s}) :
            Runs(SubTask("subscribe", s), Disposals(order))
      BY <2>2 DEF RejectSubscribe
    <3>2. PICK end \in {"completed", "failed"} : observer' = Signal({s}, end)
      BY <2>2 DEF RejectSubscribe
    <3> QED
      BY <2>1, <3>1, <3>2, DisposalsAppend
  <2>3. CASE OnSubscribe(s)
    <3>1. PICK msgs : /\ msgs = <<>> \/ (transport # None /\ Sending)
                      /\ Runs(SubTask("subscribe", s), WriteErrors(transport, msgs))
      BY <2>3 DEF OnSubscribe, SendsNow, TransportMatchesState, Sending
    <3>2. UNCHANGED observer
      BY <2>3 DEF OnSubscribe
    <3> QED
      BY <2>1, <3>1, <3>2, WriteErrorsAppend
  <2> QED
    BY <1>1, <2>2, <2>3
<1>2. ASSUME NEW s \in Subs, OnUnsubscribe(s)
      PROVE  \E task, posts : Appends(task, posts) /\ Fits(task)
  <2>1. Fits(SubTask("unsubscribe", s))
    BY <1>2 DEF SubTask, Plain
  <2>2. PICK msgs : /\ msgs = <<>> \/ (transport # None /\ Sending)
                    /\ Runs(SubTask("unsubscribe", s), WriteErrors(transport, msgs))
    BY <1>2 DEF OnUnsubscribe, TellsServer, TransportMatchesState, Sending
  <2>3. UNCHANGED observer
    BY <1>2 DEF OnUnsubscribe
  <2> QED
    BY <2>1, <2>2, <2>3, WriteErrorsAppend
<1>3. CASE RunStop
  <2>1. PICK order \in Orders(subs) :
          Runs(Plain("stop"), Disposals(order) \o StoppedNext)
    BY <1>3 DEF RunStop
  <2>2. Fits(Plain("stop"))
    BY DEF SubTask, Plain
  <2>3. Disposals(order) \in Seq(Tasks(created))
    BY DisposalsType
  <2>4. observer' = Signal(subs, "completed") /\ stopper' = "ran"
    BY <1>3 DEF RunStop, StopOnContext
  <2>5. StoppedNext \in Seq(Tasks(created)) /\ ToSet(StoppedNext) = {Plain("stopped")}
    BY DEF StoppedNext, Plain, Tasks, ToSet
  <2>6. /\ Plain("timer") # Plain("stopped")
        /\ \A t, m : MessageTask(t, m) # Plain("stopped")
        /\ \A op, s : SubTask(op, s) # Plain("stopped")
        /\ \A op, t : ConnTask(op, t) # Plain("stopped")
    BY DEF Plain, SubTask, ConnTask, MessageTask
  <2> DEFINE posts == Disposals(order) \o StoppedNext
  <2>7. /\ posts \in Seq(Tasks(created))
        /\ \A x : x \in ToSet(posts) <=> x \in ToSet(Disposals(order)) \/ x = Plain("stopped")
    BY <2>3, <2>5, ConcatSet
  <2> HIDE DEF posts
  <2>8. Appends(Plain("stop"), posts)
    BY <2>1, <2>4, <2>6, <2>7, DisposalsSignalled DEF Appends, posts
  <2> QED
    BY <2>2, <2>8
<1>4. CASE RunStopped
  <2>1. Fits(Plain("stopped"))
    BY DEF SubTask, Plain
  <2> QED
    BY <1>4, <2>1, NothingAppends DEF RunStopped
<1>5. CASE OnTimer
  <2>1. Fits(Plain("timer"))
    BY <1>5 DEF SubTask, Plain
  <2> QED
    BY <1>5, <2>1, NothingAppends DEF OnTimer
<1>6. ASSUME NEW t \in Conns, Completions(t)
      PROVE  \E task, posts : Appends(task, posts) /\ Fits(task)
  <2>1. \A op \in {"resolved", "connected", "failed", "writeFailed"} :
          Fits(ConnTask(op, t))
    BY DEF SubTask, ConnTask, Plain
  <2>2. CASE OnTransportConnected(t)
    <3>0. (transport # None /\ Sending) \/ ~(alive /\ state = "Connecting")
      BY <2>2 DEF TransportMatchesState, Sending
    <3>1. PICK msgs : /\ msgs = <<>> \/ (transport # None /\ Sending)
                      /\ Runs(ConnTask("connected", t), WriteErrors(transport, msgs))
      BY <2>2, <3>0 DEF OnTransportConnected
    <3>2. UNCHANGED observer
      BY <2>2 DEF OnTransportConnected
    <3> QED
      BY <2>1, <3>1, <3>2, WriteErrorsAppend
  <2>3. CASE OnResolved(t)
    BY <2>1, <2>3, NothingAppends DEF OnResolved
  <2>4. CASE OnFailed(t) \/ OnWriteFailed(t)
    BY <2>1, <2>4, DisconnectAppends DEF OnFailed, OnWriteFailed
  <2> QED
    BY <1>6, <2>2, <2>3, <2>4 DEF Completions
<1>7. ASSUME NEW t \in Conns, Messages(t)
      PROVE  \E task, posts : Appends(task, posts) /\ Fits(task)
  <2>1. \A m : Fits(MessageTask(t, m))
    BY DEF SubTask, MessageTask, Plain
  <2> QED
    BY <1>7, <2>1, MessageAppends
<1> QED
  BY <1>1, <1>2, <1>3, <1>4, <1>5, <1>6, <1>7 DEF AsioThread

-----------------------------------------------------------------------------
(* Nobody is stranded, no subscriber is lost                                   *)

\* A link with a bad URL never connects: its context stays Idle.
BadUrlInert ==
  initError => /\ created = 0 /\ state = "Idle" /\ ~everConnected
               /\ ~timer /\ ~Queued(Plain("timer"))

\* Only a done observer's Unsubscribe is queued, so that OnUnsubscribe never
\* removes somebody who still listens.
UnsubscribeMeansDone ==
  \A s \in Subs : Queued(SubTask("unsubscribe", s)) => Done(s)

SInv == /\ IInv
        /\ NobodyStranded
        /\ BackoffRestarts
        /\ BadUrlInert
        /\ NoLostSubscriber
        /\ UnsubscribeMeansDone

LEMMA InitSInv == Init => SInv
<1> SUFFICES ASSUME Init PROVE SInv
  OBVIOUS
<1>1. IInv
  BY InitIInv
<1>2. \A x : ~Queued(x)
  BY DEF Init, Queued, ToSet
<1> QED
  BY <1>1, <1>2 DEF Init, SInv, NobodyStranded, BackoffRestarts, BadUrlInert,
     NoLostSubscriber, UnsubscribeMeansDone

\* What the network does leaves the context and the observers alone.
LEMMA NetworkPosts ==
  ASSUME IInv, NEW t \in Conns, Network(t)
  PROVE  /\ UNCHANGED <<ctxVars, lifeVars, created, fired, observer>>
         /\ \/ UNCHANGED ready
            \/ \E op \in {"resolved", "connected", "failed", "writeFailed"} :
                 Posts(ConnTask(op, t))
            \/ \E m \in ServerMsgs : m \in ToSet(held[t]) /\ Posts(MessageTask(t, m))
<1>1. CASE Reads(t)
  <2>1. held[t] \in Seq(ServerMsgs) /\ held[t] # <<>>
    BY <1>1 DEF Reads, IInv, TypeOK
  <2>2. Head(held[t]) \in ServerMsgs /\ Head(held[t]) \in ToSet(held[t])
    BY <2>1 DEF ToSet
  <2>3. /\ Posts(MessageTask(t, Head(held[t])))
        /\ UNCHANGED <<ctxVars, lifeVars, created, fired, observer>>
    BY <1>1 DEF Reads
  <2> QED
    BY <2>2, <2>3
<1>2. CASE ~Reads(t)
  BY <1>2 DEF Network, Resolves, ResolveFails, Connects, ConnectFails, Upgrades,
     UpgradeFails, OperationAborts, Drops, Ends
<1> QED
  BY <1>1, <1>2

\* What is put on the queue from outside, and what else that changes.
LEMMA OutsideFacts ==
  ASSUME IInv, Application \/ Environment
  PROVE  /\ UNCHANGED <<state, subs, everConnected, attempt, initError, created>>
         /\ Stopping => Stopping'
         /\ \A x : Queued(x) => Queued(x)'
         /\ timer => timer' \/ Queued(Plain("timer"))'
         /\ timer' => timer
         /\ Queued(Plain("timer"))' => Queued(Plain("timer")) \/ timer
         /\ \A s \in Subs : observer'[s] # observer[s] =>
              \/ /\ observer[s] = "new" /\ observer'[s] = "live"
                 /\ Queued(SubTask("subscribe", s))'
              \/ observer[s] = "live" /\ observer'[s] = "cancelled"
         /\ \A s \in Subs : Queued(SubTask("unsubscribe", s))' =>
              Queued(SubTask("unsubscribe", s)) \/ observer'[s] = "cancelled"
<1> USE DEF IInv
<1> DEFINE Frame == /\ UNCHANGED <<state, subs, everConnected, attempt, initError, created>>
                    /\ Stopping => Stopping'
<1> DEFINE Quiet == timer' = timer /\ observer' = observer
<1>0. ready \in Seq(Tasks(created)) /\ created \in Nat
  BY BoundsAssumption DEF TypeOK
<1>1. ASSUME NEW task, Posts(task), NEW x
      PROVE  Queued(x)' <=> Queued(x) \/ x = task
  BY <1>0, <1>1 DEF Posts, Queued, ToSet
<1>2. ASSUME NEW x, UNCHANGED ready PROVE Queued(x)' <=> Queued(x)
  BY <1>2 DEF Queued
<1>3. ASSUME NEW s \in Subs, Subscribe(s)
      PROVE  /\ Frame /\ timer' = timer /\ Posts(SubTask("subscribe", s))
             /\ \A u \in Subs : observer'[u] # observer[u] =>
                  u = s /\ observer[u] = "new" /\ observer'[u] = "live"
  BY <1>3 DEF Subscribe, TypeOK, Stopping, ctxVars, lifeVars, connVars
<1>4. ASSUME NEW s \in Subs, Unsubscribe(s)
      PROVE  /\ Frame /\ timer' = timer /\ Posts(SubTask("unsubscribe", s))
             /\ \A u \in Subs : observer'[u] # observer[u] =>
                  observer[u] = "live" /\ observer'[u] = "cancelled"
             /\ observer'[s] = "cancelled"
  BY <1>4 DEF Unsubscribe, TypeOK, Stopping, ctxVars, lifeVars, connVars
<1>5. ASSUME NEW t \in Conns, Network(t)
      PROVE  /\ Frame /\ Quiet
             /\ \/ UNCHANGED ready
                \/ \E op \in {"resolved", "connected", "failed", "writeFailed"} :
                     Posts(ConnTask(op, t))
                \/ \E m : Posts(MessageTask(t, m))
  BY <1>5, NetworkPosts DEF Stopping, ctxVars, lifeVars
<1>6. ASSUME NEW t \in Conns, NEW m \in ServerMsgs, ServerSends(t, m)
      PROVE  Frame /\ Quiet /\ UNCHANGED ready
  BY <1>6 DEF ServerSends, Stopping, ctxVars, lifeVars, connVars
<1>7. /\ \A op \in {"subscribe", "unsubscribe"} : \A s : SubTask(op, s) # Plain("timer")
      /\ \A op \in {"resolved", "connected", "failed", "writeFailed"} :
           \A t : ConnTask(op, t) # Plain("timer")
      /\ \A t, m : MessageTask(t, m) # Plain("timer")
      /\ \A s \in Subs :
           /\ \A u : SubTask("unsubscribe", s) # SubTask("subscribe", u)
           /\ \A u : SubTask("unsubscribe", s) = SubTask("unsubscribe", u) => s = u
           /\ \A op \in {"resolved", "connected", "failed", "writeFailed"} :
                \A t : SubTask("unsubscribe", s) # ConnTask(op, t)
           /\ \A t, m : SubTask("unsubscribe", s) # MessageTask(t, m)
           /\ \A op \in {"stop", "timer"} : SubTask("unsubscribe", s) # Plain(op)
  BY DEF SubTask, ConnTask, MessageTask, Plain
<1> DEFINE Goal ==
      /\ Frame
      /\ \A x : Queued(x) => Queued(x)'
      /\ timer => timer' \/ Queued(Plain("timer"))'
      /\ timer' => timer
      /\ Queued(Plain("timer"))' => Queued(Plain("timer")) \/ timer
      /\ \A s \in Subs : observer'[s] # observer[s] =>
           \/ /\ observer[s] = "new" /\ observer'[s] = "live"
              /\ Queued(SubTask("subscribe", s))'
           \/ observer[s] = "live" /\ observer'[s] = "cancelled"
      /\ \A s \in Subs : Queued(SubTask("unsubscribe", s))' =>
           Queued(SubTask("unsubscribe", s)) \/ observer'[s] = "cancelled"
<1> HIDE DEF Frame
<1>8. ASSUME NEW s \in Subs, Subscribe(s) PROVE Goal
  BY <1>1, <1>3, <1>7, <1>8
<1>9. ASSUME NEW s \in Subs, Unsubscribe(s) PROVE Goal
  BY <1>1, <1>4, <1>7, <1>9
<1>10. ASSUME NEW t \in Conns, Network(t) PROVE Goal
  <2>1. CASE UNCHANGED ready
    BY <1>2, <1>5, <1>10, <2>1
  <2>2. ASSUME NEW op \in {"resolved", "connected", "failed", "writeFailed"},
               Posts(ConnTask(op, t))
        PROVE  Goal
    BY <1>1, <1>5, <1>7, <1>10, <2>2
  <2>3. ASSUME NEW m, Posts(MessageTask(t, m)) PROVE Goal
    BY <1>1, <1>5, <1>7, <1>10, <2>3
  <2> QED
    BY <1>5, <1>10, <2>1, <2>2, <2>3
<1>11. ASSUME NEW t \in Conns, NEW m \in ServerMsgs, ServerSends(t, m) PROVE Goal
  BY <1>2, <1>6, <1>11
<1>12. ASSUME BeginStop \/ Release PROVE Goal
  <2>1. Frame /\ Quiet /\ UNCHANGED ready
    BY <1>12 DEF Frame, BeginStop, Release, Stopping, ctxVars, connVars
  <2> QED
    BY <1>2, <2>1
<1>13. ASSUME PostStop PROVE Goal
  <2>1. Frame /\ Quiet /\ Posts(Plain("stop"))
    BY <1>13 DEF Frame, PostStop, Stopping, ctxVars, connVars
  <2>2. Plain("stop") # Plain("timer")
    BY DEF Plain
  <2> QED
    BY <1>1, <1>7, <2>1, <2>2
<1>14. ASSUME TimerExpires PROVE Goal
  <2>1. Frame /\ Posts(Plain("timer")) /\ timer /\ ~timer' /\ observer' = observer
    BY <1>14 DEF Frame, TimerExpires, Stopping, lifeVars, connVars
  <2> QED
    BY <1>1, <1>7, <2>1
<1>15. Goal
  BY <1>8, <1>9, <1>10, <1>11, <1>12, <1>13, <1>14 DEF Application, Environment
<1> QED
  BY <1>15 DEF Frame

LEMMA AsioFacts ==
  ASSUME IInv, AsioThread, ~DestroyInTerminalCallback
  PROVE  /\ Queued(Plain("timer")) => Queued(Plain("timer"))' \/ OnTimer
         /\ Queued(Plain("timer"))' => Queued(Plain("timer"))
         /\ \A s \in Subs : Queued(SubTask("subscribe", s)) =>
              \/ Queued(SubTask("subscribe", s))'
              \/ RejectSubscribe(s) \/ OnSubscribe(s)
         /\ \A s \in Subs : Queued(SubTask("unsubscribe", s))' =>
              Queued(SubTask("unsubscribe", s)) \/ Done(s)'
         /\ \A t, m : Queued(MessageTask(t, m))' => Queued(MessageTask(t, m))
<1>1. PICK task, posts :
        /\ Appends(task, posts)
        /\ task = Plain("timer") => OnTimer
        /\ \A s \in Subs : task = SubTask("subscribe", s) =>
             RejectSubscribe(s) \/ OnSubscribe(s)
  BY AsioAppends
<1>2. ready \in Seq(Tasks(created))
  BY DEF IInv, TypeOK
<1>3. \A x : Queued(x) /\ x # task => Queued(x)'
  BY <1>1, <1>2, RunsKeeps DEF Appends
<1>4. \A x : Queued(x)' => Queued(x) \/ x \in ToSet(posts)
  BY <1>1, <1>2, RunsAdds DEF Appends
<1> QED
  BY <1>1, <1>3, <1>4 DEF Appends

LEMMA OutsideSInv == ASSUME SInv, Application \/ Environment PROVE SInv'
<1> USE DEF SInv
<1>1. IInv'
  BY ApplicationIInv, EnvironmentIInv
<1>2. NobodyStranded'
  BY OutsideFacts DEF NobodyStranded
<1>3. BackoffRestarts' /\ BadUrlInert'
  BY OutsideFacts DEF BackoffRestarts, BadUrlInert
<1>4. NoLostSubscriber'
  BY OutsideFacts DEF NoLostSubscriber
<1>5. UnsubscribeMeansDone'
  <2>1. \A s \in Subs : Done(s) => Done(s)'
    BY OutsideFacts DEF Done
  <2> QED
    BY <2>1, OutsideFacts DEF UnsubscribeMeansDone, Done
<1> QED
  BY <1>1, <1>2, <1>3, <1>4, <1>5

\* What a handler may do to the members and the observers, given what it does
\* to the queue.
HandlerKeeps ==
  /\ state' = "Idle" => subs' = {}
  /\ state' = "Reconnecting" /\ ~Stopping' => timer' \/ Queued(Plain("timer"))'
  /\ BackoffRestarts'
  /\ BadUrlInert'
  /\ \A s \in Subs : observer'[s] = "live" =>
       observer[s] = "live" /\ (s \in subs => s \in subs')
  /\ \A s \in Subs : Done(s) => Done(s)'

LEMMA OneHandler ==
  ASSUME NEW task, NEW posts, Runs(task, posts), task # Plain("timer")
  PROVE  ~OnTimer
  BY DEF OnTimer, Runs

LEMMA SubscriptionKeeps ==
  ASSUME SInv, NEW s \in Subs,
         RejectSubscribe(s) \/ OnSubscribe(s) \/ OnUnsubscribe(s),
         Queued(Plain("timer")) => Queued(Plain("timer"))' \/ OnTimer,
         Queued(Plain("timer"))' => Queued(Plain("timer"))
  PROVE  HandlerKeeps
<1> USE DEF SInv, HandlerKeeps, NobodyStranded, BackoffRestarts, BadUrlInert,
            Stopping, Done
<1>0. ~OnTimer
  <2>1. \A op \in {"subscribe", "unsubscribe"} : SubTask(op, s) # Plain("timer")
    BY DEF SubTask, Plain
  <2>2. \E op \in {"subscribe", "unsubscribe"} : \E posts : Runs(SubTask(op, s), posts)
    BY DEF RejectSubscribe, OnSubscribe, OnUnsubscribe
  <2> QED
    BY <2>1, <2>2, OneHandler
<1>1. CASE RejectSubscribe(s)
  BY <1>0, <1>1 DEF RejectSubscribe, Signal, ctxVars, lifeVars, connVars
<1>2. CASE OnSubscribe(s)
  BY <1>0, <1>2 DEF OnSubscribe, Refuses, ConnectTransport, lifeVars
<1>3. CASE OnUnsubscribe(s)
  <2>1. Queued(SubTask("unsubscribe", s))
    BY <1>3 DEF OnUnsubscribe, Runs, Queued, ToSet, IInv, TypeOK
  <2>2. observer[s] # "live"
    BY <2>1 DEF UnsubscribeMeansDone
  <2> QED
    BY <1>0, <1>3, <2>2 DEF OnUnsubscribe, RemoveSub, GoIdle, lifeVars
<1> QED
  BY <1>1, <1>2, <1>3

LEMMA StopKeeps ==
  ASSUME SInv, RunStop \/ RunStopped \/ OnTimer,
         Queued(Plain("timer")) => Queued(Plain("timer"))' \/ OnTimer,
         Queued(Plain("timer"))' => Queued(Plain("timer"))
  PROVE  HandlerKeeps
<1> USE DEF SInv, HandlerKeeps, NobodyStranded, BackoffRestarts, BadUrlInert,
            Stopping, Done
<1>1. CASE RunStop
  BY <1>1 DEF RunStop, StopOnContext, Signal
<1>2. CASE RunStopped
  BY <1>2 DEF RunStopped, ctxVars, connVars
<1>3. CASE OnTimer
  <2>1. Queued(Plain("timer"))
    BY <1>3 DEF OnTimer, Runs, Queued, ToSet, IInv, TypeOK
  <2> QED
    BY <1>3, <2>1 DEF OnTimer, MayReconnect, ConnectTransport, lifeVars
<1> QED
  BY <1>1, <1>2, <1>3

LEMMA CompletionKeeps ==
  ASSUME SInv, NEW t \in Conns, Completions(t),
         Queued(Plain("timer")) => Queued(Plain("timer"))' \/ OnTimer,
         Queued(Plain("timer"))' => Queued(Plain("timer"))
  PROVE  HandlerKeeps
<1> USE DEF SInv, HandlerKeeps, NobodyStranded, BackoffRestarts, BadUrlInert,
            Stopping, Done
<1>1. CASE OnResolved(t)
  <2>1. ~OnTimer
    BY <1>1 DEF OnResolved, OnTimer, Runs, ConnTask, Plain
  <2> QED
    BY <1>1, <2>1 DEF OnResolved, ctxVars, lifeVars
<1>2. CASE OnTransportConnected(t)
  <2>1. ~OnTimer
    BY <1>2 DEF OnTransportConnected, OnTimer, Runs, ConnTask, Plain
  <2> QED
    BY <1>2, <2>1 DEF OnTransportConnected, ctxVars, lifeVars
<1>3. ASSUME NEW op \in {"failed", "writeFailed"},
             FireDisconnected(t, ConnTask(op, t))
      PROVE  HandlerKeeps
  <2>1. ~OnTimer
    BY <1>3 DEF FireDisconnected, OnTransportDisconnected, OnTimer, Runs,
       ConnTask, Plain
  <2> QED
    BY <1>3, <2>1 DEF FireDisconnected, OnTransportDisconnected, GivesUp, HasSubs,
       Signal, ScheduleReconnect, lifeVars
<1> QED
  BY <1>1, <1>2, <1>3 DEF Completions, OnFailed, OnWriteFailed

LEMMA MessageKeeps ==
  ASSUME SInv, NEW t \in Conns, Messages(t),
         Queued(Plain("timer")) => Queued(Plain("timer"))' \/ OnTimer,
         Queued(Plain("timer"))' => Queued(Plain("timer"))
  PROVE  HandlerKeeps
<1> USE DEF SInv, HandlerKeeps, NobodyStranded, BackoffRestarts, BadUrlInert,
            Stopping, Done
<1>0. ~OnTimer
  <2>1. \A m : MessageTask(t, m) # Plain("timer")
    BY DEF MessageTask, Plain
  <2>2. \E m, posts : Runs(MessageTask(t, m), posts)
    BY MessageAppends DEF Appends
  <2> QED
    BY <2>1, <2>2, OneHandler
<1>1. CASE OnAck(t)
  BY <1>0, <1>1 DEF OnAck, Connected, lifeVars
<1>2. CASE OnPing(t)
  BY <1>0, <1>2 DEF OnPing, ctxVars, lifeVars
<1>3. ASSUME NEW m \in ServerMsgs, IgnoreMessage(t, m) PROVE HandlerKeeps
  BY <1>0, <1>3 DEF IgnoreMessage, ctxVars, lifeVars
<1>4. ASSUME NEW s \in Subs, OnNext(t, s) PROVE HandlerKeeps
  BY <1>0, <1>4 DEF OnNext, ctxVars, lifeVars
<1>5. ASSUME NEW s \in Subs, NEW type, OnEnd(t, s, type) PROVE HandlerKeeps
  BY <1>0, <1>5 DEF OnEnd, Dispatches, Signal, lifeVars
<1>6. ASSUME NEW s \in Subs, NEW type, DestroyInOnNext(t, s, type)
      PROVE  HandlerKeeps
  BY <1>0, <1>6 DEF DestroyInOnNext, Dispatches, StopOnContext, Signal
<1> QED
  BY <1>1, <1>2, <1>3, <1>4, <1>5, <1>6 DEF Messages

LEMMA AsioSInv == ASSUME SInv, AsioThread PROVE SInv'
<1>0. IInv'
  BY NextIInv DEF SInv, Next
<1>1. CASE DestroyInTerminalCallback
  BY <1>0, <1>1 DEF DestroyInTerminalCallback, SInv, NobodyStranded, Done,
     BackoffRestarts, BadUrlInert, NoLostSubscriber, UnsubscribeMeansDone,
     Queued, Stopping, ctxVars, connVars
<1>2. CASE ~DestroyInTerminalCallback
  <2>1. IInv
    BY DEF SInv
  <2>2. HandlerKeeps
    BY <1>2, <2>1, AsioFacts, SubscriptionKeeps, StopKeeps, CompletionKeeps,
       MessageKeeps DEF AsioThread
  <2>3. NobodyStranded' /\ BackoffRestarts' /\ BadUrlInert'
    BY <2>2 DEF HandlerKeeps, NobodyStranded
  <2>4. NoLostSubscriber'
    <3> SUFFICES ASSUME NEW s \in Subs, observer'[s] = "live",
                        s \notin subs', ~Queued(SubTask("subscribe", s))'
                 PROVE  FALSE
      BY DEF NoLostSubscriber
    <3>1. RejectSubscribe(s) \/ OnSubscribe(s)
      BY <1>2, <2>1, <2>2, AsioFacts DEF HandlerKeeps, SInv, NoLostSubscriber
    <3> QED
      BY <3>1 DEF RejectSubscribe, OnSubscribe, Signal
  <2>5. UnsubscribeMeansDone'
    BY <1>2, <2>1, <2>2, AsioFacts DEF HandlerKeeps, SInv, UnsubscribeMeansDone
  <2> QED
    BY <1>0, <2>3, <2>4, <2>5 DEF SInv
<1> QED
  BY <1>1, <1>2

LEMMA NextSInv == ASSUME SInv, [Next]_vars PROVE SInv'
<1>1. CASE UNCHANGED vars
  <2>1. IInv'
    BY <1>1, NextIInv DEF SInv
  <2> QED
    BY <1>1, <2>1 DEF SInv, NobodyStranded, Done, BackoffRestarts, BadUrlInert,
       NoLostSubscriber, UnsubscribeMeansDone, Queued, Stopping, vars, ctxVars,
       lifeVars, connVars
<1> QED
  BY <1>1, OutsideSInv, AsioSInv DEF Next

LEMMA SafetyInvariant == Spec => []SInv
  BY InitSInv, NextSInv, PTL DEF Spec

\* An Idle context has no subscriptions and a Reconnecting one is sure to try.
THEOREM NobodyIsStranded == Spec => []NobodyStranded
<1>1. SInv => NobodyStranded
  BY DEF SInv
<1> QED
  BY <1>1, SafetyInvariant, PTL

\* No interleaving of Subscribe, Unsubscribe, Stop, failures and reconnects
\* leaves a listening observer outside _subs without a handler to put it there.
THEOREM NoSubscriberIsLost == Spec => []NoLostSubscriber
<1>1. SInv => NoLostSubscriber
  BY DEF SInv
<1> QED
  BY <1>1, SafetyInvariant, PTL

\* A connection that was acknowledged has reset the back-off.
THEOREM BackoffAlwaysRestarts == Spec => []BackoffRestarts
<1>1. SInv => BackoffRestarts
  BY DEF SInv
<1> QED
  BY <1>1, SafetyInvariant, PTL

-----------------------------------------------------------------------------
(* ~WsLink settles every subscription                                          *)

\* The last handler of ~WsLink is only queued by StopOnContext, and nothing
\* adds a subscription after that.
Settled ==
  /\ Queued(Plain("stopped")) => stopper \in {"ran", "returned"}
  /\ stopper \in {"ran", "returned"} /\ ~dangling => subs = {}

LEMMA OutsideSettled ==
  ASSUME IInv, Settled, Application \/ Environment PROVE Settled'
<1> USE DEF ctxVars, lifeVars, connVars
<1>0. ready \in Seq(Tasks(created)) /\ created \in Nat
  BY BoundsAssumption DEF IInv, TypeOK
<1>1. UNCHANGED <<subs, dangling>>
  BY NetworkPosts DEF Application, Environment, Subscribe, Unsubscribe,
     BeginStop, PostStop, Release, TimerExpires, ServerSends
<1>2. \/ UNCHANGED stopper
      \/ stopper = "none" /\ stopper' = "flagged"
      \/ stopper = "flagged" /\ stopper' = "posted"
  BY NetworkPosts DEF Application, Environment, Subscribe, Unsubscribe,
     BeginStop, PostStop, Release, TimerExpires, ServerSends
<1>3. \/ UNCHANGED ready
      \/ \E task : Posts(task) /\ task # Plain("stopped")
  <2>1. /\ \A op, s : SubTask(op, s) # Plain("stopped")
        /\ \A op, t : ConnTask(op, t) # Plain("stopped")
        /\ \A t, m : MessageTask(t, m) # Plain("stopped")
        /\ \A op \in {"stop", "timer"} : Plain(op) # Plain("stopped")
    BY DEF SubTask, ConnTask, MessageTask, Plain
  <2>2. CASE Application
    BY <2>1, <2>2 DEF Application, Subscribe, Unsubscribe, BeginStop, PostStop,
       Release
  <2>3. CASE Environment
    BY <2>1, <2>3, NetworkPosts DEF Environment, TimerExpires, ServerSends
  <2> QED
    BY <2>2, <2>3
<1>4. Queued(Plain("stopped"))' => Queued(Plain("stopped"))
  <2>1. ASSUME NEW task, Posts(task), task # Plain("stopped"),
               Queued(Plain("stopped"))'
        PROVE  Queued(Plain("stopped"))
    BY <1>0, <2>1 DEF Posts, Queued, ToSet
  <2>2. CASE UNCHANGED ready
    BY <2>2 DEF Queued
  <2> QED
    BY <1>3, <2>1, <2>2
<1> QED
  BY <1>1, <1>2, <1>4 DEF Settled

LEMMA AsioSettled ==
  ASSUME IInv, Settled, AsioThread PROVE Settled'
<1> USE DEF ctxVars, lifeVars, connVars
<1>1. CASE DestroyInTerminalCallback
  BY <1>1 DEF DestroyInTerminalCallback, Settled, Queued
<1>2. CASE ~DestroyInTerminalCallback
  <2>1. Queued(Plain("stopped"))' =>
          Queued(Plain("stopped")) \/ stopper' = "ran"
    <3>1. PICK task, posts : Appends(task, posts)
      BY <1>2, AsioAppends
    <3> QED
      BY <3>1, RunsAdds DEF Appends, IInv, TypeOK
  <2>2. UNCHANGED dangling /\ ~dangling
    <3>1. ~dangling
      <4>1. PICK task, posts : Appends(task, posts)
        BY <1>2, AsioAppends
      <4> QED
        BY <4>1 DEF Appends, Runs
    <3>2. ASSUME NEW s \in Subs, RejectSubscribe(s) \/ OnSubscribe(s) \/ OnUnsubscribe(s)
          PROVE  UNCHANGED dangling
      BY <3>2 DEF RejectSubscribe, OnSubscribe, OnUnsubscribe
    <3>3. RunStop \/ RunStopped \/ OnTimer => UNCHANGED dangling
      BY DEF RunStop, RunStopped, OnTimer
    <3>4. ASSUME NEW t \in Conns, Completions(t) PROVE UNCHANGED dangling
      BY <3>4 DEF Completions, OnResolved, OnTransportConnected, OnFailed,
         OnWriteFailed, FireDisconnected
    <3>5. ASSUME NEW t \in Conns, Messages(t) PROVE UNCHANGED dangling
      BY <3>5 DEF Messages, OnAck, OnPing, IgnoreMessage, OnNext, OnEnd,
         DestroyInOnNext
    <3> QED
      BY <1>2, <3>1, <3>2, <3>3, <3>4, <3>5 DEF AsioThread
  <2>3. CASE RunStop \/ (\E t \in Conns, s \in Subs, type \in {"next", "error"} :
                           DestroyInOnNext(t, s, type))
    <3>1. subs' = {} /\ stopper' \in {"ran", "returned"}
      BY <2>3 DEF RunStop, DestroyInOnNext, StopOnContext
    <3> QED
      BY <3>1 DEF Settled
  <2>4. CASE RunStopped
    <3>1. Queued(Plain("stopped")) /\ subs' = subs /\ stopper' = "returned"
      BY <2>4 DEF RunStopped, Runs, Queued, ToSet, IInv, TypeOK
    <3> QED
      BY <2>2, <3>1 DEF Settled
  <2>5. ASSUME UNCHANGED stopper, stopper \in {"ran", "returned"} => subs' \subseteq subs
        PROVE  Settled'
    BY <2>1, <2>2, <2>5 DEF Settled
  <2>6. ASSUME NEW s \in Subs, RejectSubscribe(s) \/ OnSubscribe(s) \/ OnUnsubscribe(s)
        PROVE  Settled'
    BY <2>5, <2>6 DEF RejectSubscribe, OnSubscribe, OnUnsubscribe, Refuses, Stopping,
       RemoveSub
  <2>7. CASE OnTimer
    BY <2>5, <2>7 DEF OnTimer
  <2>8. ASSUME NEW t \in Conns, Completions(t) PROVE Settled'
    BY <2>5, <2>8 DEF Completions, OnResolved, OnTransportConnected, OnFailed,
       OnWriteFailed, FireDisconnected, OnTransportDisconnected
  <2>9. ASSUME NEW t \in Conns, Messages(t),
               ~\E s \in Subs, type \in {"next", "error"} : DestroyInOnNext(t, s, type)
        PROVE  Settled'
    BY <2>5, <2>9 DEF Messages, OnAck, OnPing, IgnoreMessage, OnNext, OnEnd
  <2> QED
    BY <1>2, <2>3, <2>4, <2>6, <2>7, <2>8, <2>9 DEF AsioThread
<1> QED
  BY <1>1, <1>2

LEMMA AlwaysSettled == Spec => []Settled
<1>1. Init => Settled
  BY DEF Init, Settled, Queued, ToSet
<1>2. IInv /\ Settled /\ [Next]_vars => Settled'
  <2> SUFFICES ASSUME IInv, Settled, [Next]_vars PROVE Settled'
    OBVIOUS
  <2>1. CASE UNCHANGED vars
    BY <2>1 DEF Settled, Queued, vars, ctxVars, lifeVars
  <2> QED
    BY <2>1, OutsideSettled, AsioSettled DEF Next
<1> QED
  BY <1>1, <1>2, InductiveInvariant, PTL DEF Spec

\* Once ~WsLink has run StopOnContext no observer listens any more but one whose
\* Subscribe raced with it and will be completed when it runs.
THEOREM StopSettlesEverybody == Spec => []StopSettlesAll
<1>1. SInv /\ Settled => StopSettlesAll
  BY DEF SInv, NoLostSubscriber, Settled, StopSettlesAll
<1> QED
  BY <1>1, SafetyInvariant, AlwaysSettled, PTL

-----------------------------------------------------------------------------
(* No subscription outlives its observer                                       *)

\* The handler that puts a subscription of a done observer into _subs has the
\* one that takes it out behind it.
Followed ==
  \A s \in Subs : observer[s] # "live" =>
    \A i \in 1..Len(ready) : ready[i] = SubTask("subscribe", s) =>
      \E j \in (i+1)..Len(ready) : ready[j] = SubTask("unsubscribe", s)

\* When a handler runs, what was behind it moves up by one and what it posts
\* comes last.
LEMMA RunsShifts ==
  ASSUME NEW T, ready \in Seq(T), NEW task, NEW posts \in Seq(T),
         Runs(task, posts)
  PROVE  /\ Len(ready) \in Nat \ {0} /\ ready[1] = task
         /\ \A i \in 2..Len(ready) : i-1 \in 1..Len(ready') /\ ready'[i-1] = ready[i]
         /\ \A i \in 1..Len(ready') :
              IF i < Len(ready) THEN ready'[i] = ready[i+1] ELSE ready'[i] \in ToSet(posts)
         /\ \A x \in ToSet(posts) :
              \E j \in Len(ready)..Len(ready') : ready'[j] = x
<1>1. /\ Len(ready) \in Nat \ {0} /\ ready[1] = task
      /\ Tail(ready) \in Seq(T) /\ Len(Tail(ready)) = Len(ready) - 1
      /\ \A i \in 1..(Len(ready) - 1) : Tail(ready)[i] = ready[i + 1]
  BY DEF Runs
<1>2. ready' = Tail(ready) \o posts /\ Len(posts) \in Nat
  BY DEF Runs
<1>3. /\ Len(ready') = Len(ready) - 1 + Len(posts)
      /\ \A i \in 1..(Len(ready) - 1) : ready'[i] = ready[i + 1]
  BY <1>1, <1>2
<1>4. \A k \in 1..Len(posts) : ready'[k + Len(ready) - 1] = posts[k]
  BY <1>1, <1>2
<1>5. ASSUME NEW i \in 2..Len(ready)
      PROVE  i-1 \in 1..Len(ready') /\ ready'[i-1] = ready[i]
  BY <1>1, <1>2, <1>3
<1>6. ASSUME NEW i \in 1..Len(ready'), ~(i < Len(ready))
      PROVE  ready'[i] \in ToSet(posts)
  <2>1. i - Len(ready) + 1 \in 1..Len(posts)
    BY <1>1, <1>2, <1>3, <1>6
  <2>2. (i - Len(ready) + 1) + Len(ready) - 1 = i
    BY <1>1, <1>6
  <2>3. ready'[i] = posts[i - Len(ready) + 1]
    BY <1>4, <2>1, <2>2
  <2> QED
    BY <2>1, <2>3 DEF ToSet
<1>7. ASSUME NEW i \in 1..Len(ready'), i < Len(ready)
      PROVE  ready'[i] = ready[i+1]
  BY <1>1, <1>3, <1>7
<1>8. ASSUME NEW x \in ToSet(posts)
      PROVE  \E j \in Len(ready)..Len(ready') : ready'[j] = x
  <2>1. PICK k \in 1..Len(posts) : posts[k] = x
    BY DEF ToSet
  <2>2. k + Len(ready) - 1 \in Len(ready)..Len(ready')
    BY <1>1, <1>2, <1>3
  <2> QED
    BY <1>4, <2>1, <2>2
<1> QED
  BY <1>1, <1>5, <1>6, <1>7, <1>8

ZInv == SInv /\ Followed /\ NoZombieSubscription

LEMMA OutsideFollowed ==
  ASSUME ZInv, Application \/ Environment PROVE Followed'
<1> USE DEF ZInv, SInv, IInv
<1>0. ready \in Seq(Tasks(created)) /\ created \in Nat
  BY BoundsAssumption DEF TypeOK
<1>1. \/ UNCHANGED ready /\ UNCHANGED observer
      \/ \E task : /\ Posts(task) /\ UNCHANGED observer
                   /\ \A s \in Subs : task # SubTask("subscribe", s)
      \/ \E u \in Subs :
           \/ Posts(SubTask("subscribe", u)) /\ observer' = [observer EXCEPT ![u] = "live"]
           \/ /\ Posts(SubTask("unsubscribe", u))
              /\ observer' = [observer EXCEPT ![u] = "cancelled"]
  <2>1. \A s \in Subs :
          /\ \A op, t : ConnTask(op, t) # SubTask("subscribe", s)
          /\ \A t, m : MessageTask(t, m) # SubTask("subscribe", s)
          /\ \A op : Plain(op) # SubTask("subscribe", s)
    BY DEF SubTask, ConnTask, MessageTask, Plain
  <2>2. CASE Application
    BY <2>1, <2>2 DEF Application, Subscribe, Unsubscribe, BeginStop, PostStop,
       Release
  <2>3. CASE Environment
    BY <2>1, <2>3, NetworkPosts DEF Environment, TimerExpires, ServerSends
  <2> QED
    BY <2>2, <2>3
<1>2. ASSUME NEW task, Posts(task)
      PROVE  /\ Len(ready) \in Nat /\ Len(ready') = Len(ready) + 1
             /\ \A i \in 1..Len(ready) : ready'[i] = ready[i]
             /\ ready'[Len(ready) + 1] = task
  BY <1>0, <1>2 DEF Posts
<1>3. ASSUME NEW task, Posts(task), NEW s \in Subs, observer[s] # "live",
             NEW i \in 1..Len(ready'), ready'[i] = SubTask("subscribe", s),
             task # SubTask("subscribe", s)
      PROVE  \E j \in (i+1)..Len(ready') : ready'[j] = SubTask("unsubscribe", s)
  <2>1. i \in 1..Len(ready) /\ ready[i] = SubTask("subscribe", s)
    BY <1>2, <1>3
  <2>2. PICK j \in (i+1)..Len(ready) : ready[j] = SubTask("unsubscribe", s)
    BY <1>3, <2>1 DEF Followed
  <2>3. j \in 1..Len(ready) /\ j \in (i+1)..Len(ready')
    BY <1>2, <1>3, <2>1
  <2> QED
    BY <1>2, <1>3, <2>2, <2>3
<1>4. CASE UNCHANGED ready /\ UNCHANGED observer
  BY <1>4 DEF Followed
<1>5. ASSUME NEW task, Posts(task), UNCHANGED observer,
             \A s \in Subs : task # SubTask("subscribe", s)
      PROVE  Followed'
  BY <1>3, <1>5 DEF Followed
<1>6. ASSUME NEW u \in Subs, Posts(SubTask("subscribe", u)),
             observer' = [observer EXCEPT ![u] = "live"]
      PROVE  Followed'
  <2>1. \A s \in Subs : observer'[s] # "live" => s # u /\ observer[s] # "live"
    BY <1>6 DEF TypeOK
  <2>2. \A s \in Subs : s # u => SubTask("subscribe", u) # SubTask("subscribe", s)
    BY DEF SubTask
  <2> QED
    BY <1>3, <1>6, <2>1, <2>2 DEF Followed
<1>7. ASSUME NEW u \in Subs, Posts(SubTask("unsubscribe", u)),
             observer' = [observer EXCEPT ![u] = "cancelled"]
      PROVE  Followed'
  <2>1. \A s \in Subs : SubTask("unsubscribe", u) # SubTask("subscribe", s)
    BY DEF SubTask
  <2> SUFFICES ASSUME NEW s \in Subs, observer'[s] # "live",
                      NEW i \in 1..Len(ready'), ready'[i] = SubTask("subscribe", s)
               PROVE  \E j \in (i+1)..Len(ready') : ready'[j] = SubTask("unsubscribe", s)
    BY DEF Followed
  <2>2. CASE s = u
    <3>1. i # Len(ready) + 1
      BY <1>2, <1>7, <2>1
    <3>2. Len(ready) + 1 \in (i+1)..Len(ready')
      BY <1>2, <1>7, <3>1
    <3> QED
      BY <1>2, <1>7, <2>2, <3>2
  <2>3. CASE s # u
    <3>1. observer[s] # "live"
      BY <1>7, <2>3 DEF TypeOK
    <3> QED
      BY <1>3, <1>7, <2>1, <3>1
  <2> QED
    BY <2>2, <2>3
<1> QED
  BY <1>1, <1>4, <1>5, <1>6, <1>7

\* Outside the Asio thread an observer stops listening only by Unsubscribe.
LEMMA LeavingPosts ==
  ASSUME IInv, Application \/ Environment, NEW s \in Subs,
         observer[s] = "live", observer'[s] # "live"
  PROVE  Queued(SubTask("unsubscribe", s))'
<1>0. ready \in Seq(Tasks(created)) /\ created \in Nat
  BY BoundsAssumption DEF IInv, TypeOK
<1>1. CASE Environment
  BY <1>1, NetworkPosts DEF Environment, TimerExpires, ServerSends
<1>2. CASE BeginStop \/ PostStop \/ Release
  BY <1>2 DEF BeginStop, PostStop, Release
<1>3. ASSUME NEW u \in Subs, Subscribe(u) PROVE FALSE
  BY <1>3 DEF Subscribe, IInv, TypeOK
<1>4. ASSUME NEW u \in Subs, Unsubscribe(u)
      PROVE  Queued(SubTask("unsubscribe", s))'
  <2>1. u = s /\ Posts(SubTask("unsubscribe", s))
    BY <1>4 DEF Unsubscribe, IInv, TypeOK
  <2> QED
    BY <1>0, <2>1 DEF Posts, Queued, ToSet
<1> QED
  BY <1>1, <1>2, <1>3, <1>4 DEF Application

LEMMA HandlersNeverSubscribe ==
  ASSUME SInv, AsioThread, ~DestroyInTerminalCallback
  PROVE  \A s \in Subs : observer'[s] = "live" => observer[s] = "live"
  BY AsioFacts, SubscriptionKeeps, StopKeeps, CompletionKeeps, MessageKeeps
  DEF SInv, AsioThread, HandlerKeeps

LEMMA OnlySubscribeAdds ==
  ASSUME AsioThread, ~DestroyInTerminalCallback, NEW s \in subs', s \notin subs
  PROVE  OnSubscribe(s)
<1> USE DEF ctxVars
<1>1. ASSUME NEW u \in Subs, RejectSubscribe(u) \/ OnSubscribe(u) \/ OnUnsubscribe(u)
      PROVE  OnSubscribe(s)
  BY <1>1 DEF RejectSubscribe, OnSubscribe, OnUnsubscribe, RemoveSub
<1>2. ~(RunStop \/ RunStopped \/ OnTimer)
  BY DEF RunStop, StopOnContext, RunStopped, OnTimer
<1>3. ASSUME NEW t \in Conns, Completions(t) PROVE FALSE
  BY <1>3 DEF Completions, OnResolved, OnTransportConnected, OnFailed,
     OnWriteFailed, FireDisconnected, OnTransportDisconnected
<1>4. ASSUME NEW t \in Conns, Messages(t) PROVE FALSE
  BY <1>4 DEF Messages, OnAck, OnPing, IgnoreMessage, OnNext, OnEnd,
     DestroyInOnNext, StopOnContext
<1> QED
  BY <1>1, <1>2, <1>3, <1>4 DEF AsioThread

LEMMA OutsideZInv == ASSUME ZInv, Application \/ Environment PROVE ZInv'
<1>1. SInv'
  BY OutsideSInv DEF ZInv
<1>2. Followed'
  BY OutsideFollowed
<1>3. NoZombieSubscription'
  <2> SUFFICES ASSUME NEW s \in subs', observer'[s] # "live"
               PROVE  Queued(SubTask("unsubscribe", s))'
    BY DEF NoZombieSubscription
  <2>1. s \in subs /\ s \in Subs
    BY OutsideFacts DEF ZInv, SInv, IInv, TypeOK
  <2>2. CASE observer[s] # "live"
    BY <2>1, <2>2, OutsideFacts DEF ZInv, SInv, NoZombieSubscription
  <2>3. CASE observer[s] = "live"
    BY <2>1, <2>3, LeavingPosts DEF ZInv, SInv
  <2> QED
    BY <2>2, <2>3
<1> QED
  BY <1>1, <1>2, <1>3 DEF ZInv

LEMMA AsioZInv == ASSUME ZInv, AsioThread PROVE ZInv'
<1> USE DEF ZInv
<1>0. SInv'
  BY AsioSInv
<1>1. CASE DestroyInTerminalCallback
  BY <1>0, <1>1 DEF DestroyInTerminalCallback, Followed, NoZombieSubscription,
     Queued, ctxVars
<1>2. CASE ~DestroyInTerminalCallback
  <2>1. PICK task, posts :
          /\ Appends(task, posts)
          /\ \A s \in Subs : task = SubTask("unsubscribe", s) => OnUnsubscribe(s)
    BY <1>2, AsioAppends DEF SInv
  <2>2. ready \in Seq(Tasks(created)) /\ posts \in Seq(Tasks(created)) /\ Runs(task, posts)
    BY <2>1 DEF Appends, SInv, IInv, TypeOK
  <2>3. \A s \in Subs : observer'[s] = "live" => observer[s] = "live"
    BY <1>2, HandlersNeverSubscribe
  <2>4. Followed'
    <3> SUFFICES ASSUME NEW s \in Subs, observer'[s] # "live",
                        NEW i \in 1..Len(ready'), ready'[i] = SubTask("subscribe", s)
                 PROVE  \E j \in (i+1)..Len(ready') : ready'[j] = SubTask("unsubscribe", s)
      BY DEF Followed
    <3>1. Len(ready) \in Nat \ {0} /\ Len(ready') \in Nat
      BY <2>2, RunsShifts, RunsType
    <3>2. i < Len(ready) /\ ready[i+1] = SubTask("subscribe", s)
      BY <2>1, <2>2, RunsShifts DEF Appends
    <3>3. CASE observer[s] = "live"
      <4>1. SubTask("unsubscribe", s) \in ToSet(posts)
        BY <2>1, <3>3 DEF Appends
      <4>2. PICK j \in Len(ready)..Len(ready') : ready'[j] = SubTask("unsubscribe", s)
        BY <2>2, <4>1, RunsShifts
      <4>3. j \in (i+1)..Len(ready')
        BY <3>1, <3>2
      <4> QED
        BY <4>2, <4>3
    <3>4. CASE observer[s] # "live"
      <4>1. i+1 \in 1..Len(ready)
        BY <3>1, <3>2
      <4>2. PICK j \in (i+2)..Len(ready) : ready[j] = SubTask("unsubscribe", s)
        <5>1. PICK j \in ((i+1)+1)..Len(ready) : ready[j] = SubTask("unsubscribe", s)
          BY <3>2, <3>4, <4>1 DEF Followed
        <5>2. j \in (i+2)..Len(ready)
          BY <3>1
        <5> QED
          BY <5>1, <5>2
      <4>3. j \in 2..Len(ready)
        BY <3>1
      <4>4. j-1 \in 1..Len(ready') /\ ready'[j-1] = SubTask("unsubscribe", s)
        BY <2>2, <4>2, <4>3, RunsShifts
      <4>5. j-1 \in (i+1)..Len(ready')
        BY <3>1, <4>4
      <4> QED
        BY <4>4, <4>5
    <3> QED
      BY <3>3, <3>4
  <2>5. NoZombieSubscription'
    <3> SUFFICES ASSUME NEW s \in subs', observer'[s] # "live"
                 PROVE  Queued(SubTask("unsubscribe", s))'
      BY DEF NoZombieSubscription
    <3>0. s \in Subs
      BY <1>0 DEF SInv, IInv, TypeOK
    <3>1. CASE observer[s] = "live"
      <4>1. SubTask("unsubscribe", s) \in ToSet(posts)
        BY <2>1, <3>0, <3>1 DEF Appends
      <4>2. PICK j \in Len(ready)..Len(ready') : ready'[j] = SubTask("unsubscribe", s)
        BY <2>2, <4>1, RunsShifts
      <4>3. Len(ready) \in Nat \ {0} /\ ready' \in Seq(Tasks(created))
        BY <2>2, RunsShifts, RunsType
      <4> QED
        BY <4>2, <4>3 DEF Queued, ToSet
    <3>2. CASE observer[s] # "live" /\ s \in subs
      <4>1. Queued(SubTask("unsubscribe", s))
        BY <3>2 DEF NoZombieSubscription
      <4>2. task # SubTask("unsubscribe", s)
        BY <2>1, <3>0 DEF OnUnsubscribe, RemoveSub
      <4> QED
        BY <2>2, <4>1, <4>2, RunsKeeps
    <3>3. CASE observer[s] # "live" /\ s \notin subs
      <4>1. OnSubscribe(s)
        BY <1>2, <3>3, OnlySubscribeAdds
      <4>2. PICK out : Runs(SubTask("subscribe", s), out)
        BY <4>1 DEF OnSubscribe
      <4>3. task = SubTask("subscribe", s)
        BY <2>2, <4>2 DEF Runs
      <4>4. Len(ready) \in Nat \ {0} /\ ready[1] = SubTask("subscribe", s)
        BY <2>2, <4>3, RunsShifts
      <4>5. PICK j \in (1+1)..Len(ready) : ready[j] = SubTask("unsubscribe", s)
        BY <3>0, <3>3, <4>4 DEF Followed
      <4>6. Queued(SubTask("unsubscribe", s))
        BY <2>2, <4>4, <4>5 DEF Queued, ToSet
      <4>7. SubTask("unsubscribe", s) # task
        BY <4>3 DEF SubTask
      <4> QED
        BY <2>2, <4>6, <4>7, RunsKeeps
    <3> QED
      BY <3>1, <3>2, <3>3
  <2> QED
    BY <1>0, <2>4, <2>5
<1> QED
  BY <1>1, <1>2

LEMMA AlwaysFollowed == Spec => []ZInv
<1>1. Init => ZInv
  <2> SUFFICES ASSUME Init PROVE ZInv
    OBVIOUS
  <2>1. SInv
    BY InitSInv
  <2>2. Followed /\ NoZombieSubscription
    BY DEF Init, Followed, NoZombieSubscription
  <2> QED
    BY <2>1, <2>2 DEF ZInv
<1>2. ZInv /\ [Next]_vars => ZInv'
  <2> SUFFICES ASSUME ZInv, [Next]_vars PROVE ZInv'
    OBVIOUS
  <2>1. CASE UNCHANGED vars
    <3>1. SInv'
      BY <2>1, NextSInv DEF ZInv
    <3> QED
      BY <2>1, <3>1 DEF ZInv, Followed, NoZombieSubscription, Queued, vars, ctxVars
  <2> QED
    BY <2>1, OutsideZInv, AsioZInv DEF Next
<1> QED
  BY <1>1, <1>2, PTL DEF Spec

\* Whatever Subscribe, Unsubscribe, terminal messages and reconnects overtake
\* each other, no subscription stays in _subs for an observer that is done.
THEOREM NoSubscriptionIsZombie == Spec => []NoZombieSubscription
<1>1. ZInv => NoZombieSubscription
  BY DEF ZInv
<1> QED
  BY <1>1, AlwaysFollowed, PTL

-----------------------------------------------------------------------------
(* WsLink implements its contract: every step is a step of WsLinkContract or     *)
(* changes nothing there.                                                      *)

\* What subscribers, the acknowledgement and the link's end have become, given
\* that no last word was added.
EndsFor(S, how) ==
  /\ observer' = Signal(S, how)
  /\ UNCHANGED <<everConnected, Stopping>>

LEMMA InitContract == Init => Contract!Init
<1> SUFFICES ASSUME Init PROVE Contract!Init
  OBVIOUS
<1>1. \A t \in Conns : \A m : ~Coming(t, m)
  BY DEF Init, Coming, Queued, ToSet
<1> QED
  BY <1>1 DEF Init, Contract!Init, LastWords, Stopping

\* No handler reads or writes what the connections hold.
LEMMA HandlersKeepHeld == ASSUME AsioThread PROVE UNCHANGED held
<1> USE DEF serverVars
<1>1. ASSUME NEW s \in Subs, RejectSubscribe(s) \/ OnSubscribe(s) \/ OnUnsubscribe(s)
      PROVE  UNCHANGED held
  BY <1>1 DEF RejectSubscribe, OnSubscribe, OnUnsubscribe
<1>2. RunStop \/ RunStopped \/ OnTimer => UNCHANGED held
  BY DEF RunStop, RunStopped, OnTimer
<1>3. ASSUME NEW t \in Conns, Completions(t) PROVE UNCHANGED held
  BY <1>3 DEF Completions, OnResolved, OnTransportConnected, OnFailed,
     OnWriteFailed
<1>4. ASSUME NEW t \in Conns, Messages(t) PROVE UNCHANGED held
  BY <1>4 DEF Messages, OnAck, OnPing, IgnoreMessage, OnNext, OnEnd,
     DestroyInOnNext
<1>5. DestroyInTerminalCallback => UNCHANGED held
  BY DEF DestroyInTerminalCallback
<1> QED
  BY <1>1, <1>2, <1>3, <1>4, <1>5 DEF AsioThread

\* Handlers only take messages off the queue, ...
LEMMA ComingInside ==
  ASSUME IInv, AsioThread, NEW t \in Conns, NEW m, Coming(t, m)'
  PROVE  Coming(t, m)
<1>1. UNCHANGED held
  BY HandlersKeepHeld
<1>2. CASE DestroyInTerminalCallback
  BY <1>1, <1>2 DEF DestroyInTerminalCallback, Coming, Queued
<1>3. CASE ~DestroyInTerminalCallback
  BY <1>1, <1>3, AsioFacts DEF Coming
<1> QED
  BY <1>2, <1>3

\* ... what others queue is no message but one that was held, ...
LEMMA QueuedOutside ==
  ASSUME IInv, Application \/ Environment, NEW t \in Conns, NEW m \in ServerMsgs
  PROVE  /\ Queued(MessageTask(t, m)) => Queued(MessageTask(t, m))'
         /\ Queued(MessageTask(t, m))' =>
              Queued(MessageTask(t, m)) \/ m \in ToSet(held[t])
<1>0. ready \in Seq(Tasks(created)) /\ created \in Nat
  BY BoundsAssumption DEF IInv, TypeOK
<1>1. /\ \A op, s : SubTask(op, s) # MessageTask(t, m)
      /\ \A op, u : ConnTask(op, u) # MessageTask(t, m)
      /\ \A op : Plain(op) # MessageTask(t, m)
      /\ \A u, n : MessageTask(u, n) = MessageTask(t, m) => u = t /\ n = m
  BY DEF SubTask, ConnTask, MessageTask, Plain
<1>2. \/ UNCHANGED ready
      \/ \E task : /\ Posts(task)
                   /\ task = MessageTask(t, m) => m \in ToSet(held[t])
  <2>1. CASE Application
    BY <1>1, <2>1 DEF Application, Subscribe, Unsubscribe, BeginStop, PostStop,
       Release
  <2>2. CASE Environment
    BY <1>1, <2>2, NetworkPosts DEF Environment, TimerExpires, ServerSends
  <2> QED
    BY <2>1, <2>2
<1>3. CASE UNCHANGED ready
  BY <1>3 DEF Queued
<1>4. ASSUME NEW task, Posts(task), task = MessageTask(t, m) => m \in ToSet(held[t])
      PROVE  /\ Queued(MessageTask(t, m)) => Queued(MessageTask(t, m))'
             /\ Queued(MessageTask(t, m))' =>
                  Queued(MessageTask(t, m)) \/ m \in ToSet(held[t])
  BY <1>0, <1>4 DEF Posts, Queued, ToSet
<1> QED
  BY <1>2, <1>3, <1>4

\* ... the network only takes away, ...
LEMMA ComingNetwork ==
  ASSUME IInv, NEW u \in Conns, Network(u),
         NEW t \in Conns, NEW m \in ServerMsgs, Coming(t, m)'
  PROVE  Coming(t, m)
<1>0. held \in [Conns -> Seq(ServerMsgs)]
  BY DEF IInv, TypeOK
<1>1. CASE Queued(MessageTask(t, m))'
  BY <1>1, QueuedOutside DEF Coming, Environment
<1>2. CASE m \in ToSet(held'[t])
  <2>1. CASE Reads(u)
    <3>1. held' = [held EXCEPT ![u] = Tail(held[u])] /\ held[u] # <<>>
      BY <2>1 DEF Reads
    <3>2. ToSet(Tail(held[u])) \subseteq ToSet(held[u])
      BY <1>0, <3>1 DEF ToSet
    <3> QED
      BY <1>0, <1>2, <3>1, <3>2 DEF Coming
  <2>2. CASE OperationAborts(u)
    BY <1>0, <1>2, <2>2 DEF OperationAborts, Coming, ToSet
  <2>3. CASE ~Reads(u) /\ ~OperationAborts(u)
    BY <1>2, <2>3 DEF Network, Resolves, ResolveFails, Connects,
       ConnectFails, Upgrades, UpgradeFails, Drops, Ends, Coming, serverVars
  <2> QED
    BY <2>1, <2>2, <2>3
<1> QED
  BY <1>1, <1>2 DEF Coming

\* ... and what comes, the server sent.
LEMMA ComingOutside ==
  ASSUME IInv, Application \/ Environment, NEW t \in Conns, NEW m \in ServerMsgs,
         Coming(t, m)'
  PROVE  Coming(t, m) \/ ServerSends(t, m)
<1>1. CASE Queued(MessageTask(t, m))'
  BY <1>1, QueuedOutside DEF Coming
<1>2. CASE m \in ToSet(held'[t])
  <2>0. held \in [Conns -> Seq(ServerMsgs)]
    BY DEF IInv, TypeOK
  <2>1. CASE Application
    BY <1>2, <2>1 DEF Application, Subscribe, Unsubscribe, BeginStop, PostStop,
       Release, Coming, serverVars
  <2>2. CASE TimerExpires
    BY <1>2, <2>2 DEF TimerExpires, Coming, serverVars
  <2>3. ASSUME NEW u \in Conns, Network(u) PROVE Coming(t, m)
    BY <2>3, ComingNetwork
  <2>4. ASSUME NEW u \in Conns, NEW n \in ServerMsgs, ServerSends(u, n)
        PROVE  Coming(t, m) \/ ServerSends(t, m)
    <3>1. held' = [held EXCEPT ![u] = Append(held[u], n)]
      BY <2>4 DEF ServerSends
    <3>2. ToSet(Append(held[u], n)) = ToSet(held[u]) \cup {n}
      BY <2>0, AppendSet
    <3> QED
      BY <1>2, <2>0, <2>4, <3>1, <3>2 DEF Coming
  <2> QED
    BY <2>1, <2>2, <2>3, <2>4 DEF Environment
<1> QED
  BY <1>1, <1>2 DEF Coming

\* Words that come are among the server's messages, of existing operations.
LEMMA WordType ==
  ASSUME NEW s \in Subs, NEW type \in {"next", "error", "complete"}
  PROVE  Msg(type, s) \in ServerMsgs /\ Msg(type, s).id = s /\ Msg(type, s).type = type
BY DEF ServerMsgs, Msg

LEMMA PostsLastWords ==
  ASSUME IInv, NEW task \in Tasks(created), Posts(task), UNCHANGED held,
         \A t, m : task # MessageTask(t, m)
  PROVE  LastWords' = LastWords
<1>1. ready \in Seq(Tasks(created))
  BY DEF IInv, TypeOK
<1>2. \A x : Queued(x)' <=> Queued(x) \/ x = task
  BY <1>1, PostsKeeps
<1> QED
  BY <1>2 DEF LastWords, Coming

LEMMA HandlerLastWords ==
  ASSUME IInv, AsioThread
  PROVE  LastWords' \subseteq LastWords
  BY ComingInside DEF LastWords

\* Each kind of change is a step of the contract.
LEMMA EndsInContract ==
  ASSUME NEW S \in SUBSET Subs, LastWords' \subseteq LastWords,
         \/ EndsFor(S, "completed") /\ (Stopping \/ S \subseteq LastWords)
         \/ EndsFor(S, "failed") /\ ~everConnected
  PROVE  Contract!Next
<1>1. ASSUME NEW how, EndsFor(S, how)
      PROVE  /\ Contract!End(S, how) /\ Contract!Used
             /\ UNCHANGED <<everConnected, Stopping>>
  BY <1>1 DEF EndsFor, Signal, Contract!End, Contract!Used
<1> QED
  BY <1>1 DEF Contract!Next, Contract!Complete, Contract!Fail

LEMMA CloseInContract ==
  ASSUME NEW S \in SUBSET Subs, LastWords' \subseteq LastWords,
         observer' = Signal(S, "completed"), Stopping' = TRUE,
         UNCHANGED everConnected
  PROVE  Contract!Next
<1>1. Contract!Close(S)
  BY DEF Contract!Close, Contract!End, Contract!Used, Signal
<1> QED
  BY <1>1 DEF Contract!Next

LEMMA LoseInContract ==
  ASSUME LastWords' \subseteq LastWords,
         UNCHANGED <<observer, everConnected, Stopping>>
  PROVE  Contract!Next
BY DEF Contract!Next, Contract!Lose, Contract!Used

LEMMA SignalNobody == ASSUME TypeOK PROVE observer = Signal({}, "completed")
BY DEF Signal, TypeOK

LEMMA ApplicationInContract ==
  ASSUME IInv, Application PROVE Contract!Next
<1> USE DEF ctxVars, lifeVars, serverVars
<1>0. ready \in Seq(Tasks(created)) /\ created \in Nat
  BY BoundsAssumption DEF IInv, TypeOK
<1>1. ASSUME NEW op \in {"subscribe", "unsubscribe"}, NEW s \in Subs,
             Posts(SubTask(op, s)), UNCHANGED held
      PROVE  LastWords' = LastWords
  <2>1. SubTask(op, s) \in Tasks(created) /\ \A t, m : SubTask(op, s) # MessageTask(t, m)
    BY DEF Tasks, SubTask, MessageTask
  <2> QED
    BY <1>1, <2>1, PostsLastWords
<1>2. UNCHANGED <<ready, held>> => LastWords' = LastWords
  BY DEF LastWords, Coming, Queued
<1>3. ASSUME NEW s \in Subs, Subscribe(s) PROVE Contract!Next
  <2>1. Contract!Subscribe(s)
    BY <1>1, <1>3 DEF Subscribe, Contract!Subscribe, Stopping
  <2> QED
    BY <2>1 DEF Contract!Next
<1>4. ASSUME NEW s \in Subs, Unsubscribe(s) PROVE Contract!Next
  <2>1. Contract!Unsubscribe(s)
    BY <1>1, <1>4 DEF Unsubscribe, Contract!Unsubscribe, Stopping
  <2> QED
    BY <2>1 DEF Contract!Next
<1>5. CASE BeginStop
  <2>1. UNCHANGED <<ready, held, observer, everConnected>> /\ Stopping' = TRUE
    BY <1>5 DEF BeginStop, Stopping
  <2>2. observer' = Signal({}, "completed")
    BY <2>1, SignalNobody DEF IInv
  <2> QED
    BY <1>2, <2>1, <2>2, CloseInContract
<1>6. CASE PostStop
  <2>1. Plain("stop") \in Tasks(created) /\ \A t, m : Plain("stop") # MessageTask(t, m)
    BY DEF Tasks, Plain, MessageTask
  <2>2. LastWords' = LastWords
    BY <1>6, <2>1, PostsLastWords DEF PostStop
  <2>3. UNCHANGED <<observer, everConnected, Stopping>>
    BY <1>6 DEF PostStop, Stopping
  <2> QED
    BY <2>2, <2>3, LoseInContract
<1>7. CASE Release
  BY <1>2, <1>7, LoseInContract DEF Release, Stopping
<1> QED
  BY <1>3, <1>4, <1>5, <1>6, <1>7 DEF Application

LEMMA ServerInContract ==
  ASSUME IInv, NEW t \in Conns, NEW m \in ServerMsgs, ServerSends(t, m)
  PROVE  Contract!Next
<1>1. UNCHANGED <<ready, observer, everConnected, Stopping>>
  BY DEF ServerSends, Stopping, ctxVars, lifeVars
<1>2. ASSUME NEW u \in Conns, NEW n
      PROVE  Coming(u, n)' <=> Coming(u, n) \/ (u = t /\ n = m)
  <2>1. held' = [held EXCEPT ![t] = Append(held[t], m)] /\ held \in [Conns -> Seq(ServerMsgs)]
    BY DEF ServerSends, IInv, TypeOK
  <2>2. ToSet(Append(held[t], m)) = ToSet(held[t]) \cup {m}
    BY <2>1, AppendSet
  <2> QED
    BY <1>1, <2>1, <2>2 DEF Coming, Queued
<1>3. \A type, s : Msg(type, s) = m => m.type = type /\ m.id = s
  BY DEF Msg
<1>4. CASE m.type \in {"complete", "error"}
  <2>1. m.id \in Subs /\ m = Msg(m.type, m.id)
    BY <1>4 DEF ServerMsgs, Msg
  <2>2. LastWords' = LastWords \cup {m.id}
    BY <1>2, <1>3, <1>4, <2>1 DEF LastWords
  <2>3. Contract!LastWord(m.id)
    BY <1>1, <2>2 DEF Contract!LastWord
  <2> QED
    BY <2>1, <2>3 DEF Contract!Next
<1>5. CASE m.type \notin {"complete", "error"}
  <2>1. LastWords' = LastWords
    BY <1>2, <1>3, <1>5 DEF LastWords
  <2> QED
    BY <1>1, <2>1, LoseInContract
<1> QED
  BY <1>4, <1>5

LEMMA EnvironmentInContract ==
  ASSUME IInv, Environment PROVE Contract!Next
<1>1. CASE TimerExpires \/ \E t \in Conns : Network(t)
  <2>1. UNCHANGED <<observer, everConnected, Stopping>>
    BY <1>1, NetworkPosts DEF TimerExpires, Stopping, ctxVars, lifeVars
  <2>2. CASE \E t \in Conns, m \in ServerMsgs : ServerSends(t, m)
    BY <2>2, ServerInContract
  <2>3. CASE ~\E t \in Conns, m \in ServerMsgs : ServerSends(t, m)
    <3>1. \A t \in Conns, m \in ServerMsgs : Coming(t, m)' => Coming(t, m)
      BY <1>1, <2>3, ComingOutside DEF Environment
    <3>2. LastWords' \subseteq LastWords
      BY <3>1, WordType DEF LastWords
    <3> QED
      BY <2>1, <3>2, LoseInContract
  <2> QED
    BY <2>2, <2>3
<1> QED
  BY <1>1, ServerInContract DEF Environment

LEMMA SubscriptionInContract ==
  ASSUME SInv, LastWords' \subseteq LastWords, NEW s \in Subs,
         RejectSubscribe(s) \/ OnSubscribe(s) \/ OnUnsubscribe(s)
  PROVE  Contract!Next
<1> USE DEF ctxVars, lifeVars, Stopping
<1>1. CASE RejectSubscribe(s)
  <2>1. UNCHANGED <<everConnected, Stopping>>
        /\ observer' = Signal({s}, IF initError THEN "failed" ELSE "completed")
    BY <1>1 DEF RejectSubscribe
  <2>2. CASE initError
    <3>1. ~everConnected /\ EndsFor({s}, "failed")
      BY <2>1, <2>2 DEF EndsFor, SInv, BadUrlInert
    <3> QED
      BY <3>1, EndsInContract
  <2>3. CASE ~initError
    <3>1. Stopping /\ EndsFor({s}, "completed")
      BY <1>1, <2>1, <2>3 DEF EndsFor, RejectSubscribe, Refuses
    <3> QED
      BY <3>1, EndsInContract
  <2> QED
    BY <2>2, <2>3
<1>2. CASE OnSubscribe(s) \/ OnUnsubscribe(s)
  BY <1>2, LoseInContract DEF OnSubscribe, OnUnsubscribe
<1> QED
  BY <1>1, <1>2

LEMMA StopInContract ==
  ASSUME SInv, LastWords' \subseteq LastWords, RunStop \/ RunStopped \/ OnTimer
  PROVE  Contract!Next
<1> USE DEF ctxVars, lifeVars
<1> TypeOK /\ subs \in SUBSET Subs
  BY DEF SInv, IInv, TypeOK
<1>1. CASE RunStop
  <2>1. /\ observer' = Signal(subs, "completed") /\ Stopping' = TRUE
        /\ UNCHANGED everConnected
    BY <1>1 DEF RunStop, StopOnContext, Stopping
  <2> QED
    BY <2>1, CloseInContract
<1>2. CASE RunStopped
  <2>1. UNCHANGED <<observer, everConnected>> /\ Stopping' = TRUE
    BY <1>2 DEF RunStopped, Stopping
  <2>2. observer' = Signal({}, "completed")
    BY <2>1, SignalNobody
  <2> QED
    BY <2>1, <2>2, CloseInContract
<1>3. CASE OnTimer
  BY <1>3, LoseInContract DEF OnTimer, Stopping
<1> QED
  BY <1>1, <1>2, <1>3

\* Only a link that was never accepted fails its subscribers.
LEMMA CompletionInContract ==
  ASSUME SInv, LastWords' \subseteq LastWords, NEW t \in Conns, Completions(t)
  PROVE  Contract!Next
<1> USE DEF ctxVars, lifeVars, Stopping
<1>1. subs \in SUBSET Subs
  BY DEF SInv, IInv, TypeOK
<1>2. CASE OnResolved(t) \/ OnTransportConnected(t)
  BY <1>2, LoseInContract DEF OnResolved, OnTransportConnected
<1>3. ASSUME NEW task, FireDisconnected(t, task) PROVE Contract!Next
  <2>1. UNCHANGED <<everConnected, Stopping>>
    BY <1>3 DEF FireDisconnected
  <2>2. CASE observer' = observer
    BY <2>1, <2>2, LoseInContract
  <2>3. CASE observer' # observer
    <3>1. ~everConnected /\ EndsFor(subs, "failed")
      BY <1>3, <2>1, <2>3 DEF FireDisconnected, OnTransportDisconnected, GivesUp,
         EndsFor
    <3> QED
      BY <1>1, <3>1, EndsInContract
  <2> QED
    BY <2>2, <2>3
<1> QED
  BY <1>2, <1>3 DEF Completions, OnFailed, OnWriteFailed

LEMMA MessageInContract ==
  ASSUME SInv, LastWords' \subseteq LastWords, NEW t \in Conns, Messages(t)
  PROVE  Contract!Next
<1> USE DEF ctxVars, lifeVars, Stopping
<1>1. subs \in SUBSET Subs /\ ready \in Seq(Tasks(created))
  BY DEF SInv, IInv, TypeOK
<1>2. CASE OnAck(t)
  <2>1. Contract!Accept
    BY <1>2 DEF OnAck, Connected, Contract!Accept, Contract!Used
  <2> QED
    BY <2>1 DEF Contract!Next
<1>3. CASE \/ OnPing(t)
           \/ \E m \in ServerMsgs : IgnoreMessage(t, m)
           \/ \E s \in Subs : OnNext(t, s)
  BY <1>3, LoseInContract DEF OnPing, IgnoreMessage, OnNext
<1>4. ASSUME NEW s \in Subs, NEW type, OnEnd(t, s, type) PROVE Contract!Next
  <2>1. PICK posts : Runs(MessageTask(t, Msg(type, s)), posts)
    BY <1>4 DEF OnEnd, Receives
  <2>2. Queued(MessageTask(t, Msg(type, s)))
    BY <1>1, <2>1 DEF Runs, Queued, ToSet
  <2>3. s \in LastWords
    BY <1>4, <2>2 DEF LastWords, Coming, OnEnd, EndedBy
  <2>4. EndsFor({s}, "completed")
    BY <1>4 DEF OnEnd, EndsFor
  <2> QED
    BY <2>3, <2>4, EndsInContract
<1>5. ASSUME NEW s \in Subs, NEW type, DestroyInOnNext(t, s, type)
      PROVE  Contract!Next
  <2>1. /\ observer' = Signal(subs, "completed") /\ Stopping' = TRUE
        /\ UNCHANGED everConnected
    BY <1>5 DEF DestroyInOnNext, StopOnContext
  <2> QED
    BY <1>1, <2>1, CloseInContract
<1> QED
  BY <1>2, <1>3, <1>4, <1>5 DEF Messages

LEMMA NextInContract ==
  ASSUME SInv, [Next]_vars PROVE [Contract!Next]_(Contract!contractVars)
<1>1. CASE UNCHANGED vars
  BY <1>1 DEF vars, ctxVars, lifeVars, serverVars, Contract!contractVars,
     LastWords, Coming, Queued, Stopping
<1>2. CASE Application \/ Environment
  BY <1>2, ApplicationInContract, EnvironmentInContract DEF SInv
<1>3. CASE AsioThread
  <2>1. LastWords' \subseteq LastWords
    BY <1>3, HandlerLastWords DEF SInv
  <2>2. CASE DestroyInTerminalCallback
    <3>1. UNCHANGED <<observer, everConnected>> /\ Stopping' = TRUE
      BY <2>2 DEF DestroyInTerminalCallback, ctxVars, Stopping
    <3>2. observer' = Signal({}, "completed")
      BY <3>1, SignalNobody DEF SInv, IInv
    <3> QED
      BY <2>1, <3>1, <3>2, CloseInContract
  <2> QED
    BY <1>3, <2>1, <2>2, SubscriptionInContract, StopInContract,
       CompletionInContract, MessageInContract DEF AsioThread
<1> QED
  BY <1>1, <1>2, <1>3 DEF Next

\* WsLink, with all its connections, retries and handlers, implements what
\* WsLinkContract promises a subscriber: one end, errors only while no server
\* ever accepted the link, completions only with a cause.
THEOREM LinkKeepsContract == Spec => KeepsContract
<1>1. SInv /\ [Next]_vars => [Contract!Next]_(Contract!contractVars)
  BY NextInContract
<1> QED
  BY <1>1, InitContract, SafetyInvariant, PTL
  DEF Spec, KeepsContract, Contract!Spec

\* After the first connection_ack no observer gets an error: a lost connection
\* is always retried.
THEOREM NoErrorAfterAck == Spec => NoErrorOnceConnected
<1>1. SInv /\ [Next]_vars =>
        [\A s \in Subs : observer'[s] = "failed" /\ observer[s] # "failed" =>
           ~everConnected]_vars
  <2> SUFFICES ASSUME SInv, [Next]_vars, NEW s \in Subs,
                      observer'[s] = "failed", observer[s] # "failed"
               PROVE  ~everConnected
    OBVIOUS
  <2>1. Contract!Next
    BY NextInContract DEF Contract!contractVars
  <2>2. ASSUME NEW S \in SUBSET Subs, Contract!Close(S) \/ Contract!Complete(S)
        PROVE  observer'[s] # "failed"
    BY <2>2 DEF Contract!Close, Contract!Complete, Contract!End
  <2>3. ASSUME NEW S \in SUBSET Subs, Contract!Fail(S) PROVE ~everConnected
    BY <2>3 DEF Contract!Fail
  <2>4. ASSUME NEW u \in Subs,
               \/ Contract!Subscribe(u) \/ Contract!Unsubscribe(u)
               \/ Contract!LastWord(u)
        PROVE  observer'[s] # "failed"
    BY <2>4 DEF Contract!Subscribe, Contract!Unsubscribe, Contract!LastWord,
       SInv, IInv, TypeOK
  <2>5. Contract!Accept \/ Contract!Lose => observer'[s] # "failed"
    BY DEF Contract!Accept, Contract!Lose
  <2> QED
    BY <2>1, <2>2, <2>3, <2>4, <2>5 DEF Contract!Next
<1> QED
  BY <1>1, SafetyInvariant, PTL DEF Spec, NoErrorOnceConnected

-----------------------------------------------------------------------------
(* What a stopping link does not do *)

LEMMA StoppingStopsConnecting ==
  ASSUME [Next]_vars, Stopping PROVE created' = created
<1> USE DEF connVars, lifeVars, ctxVars
<1>1. CASE UNCHANGED vars
  BY <1>1 DEF vars
<1>2. CASE Application
  BY <1>2 DEF Application, Subscribe, Unsubscribe, BeginStop, PostStop, Release
<1>3. CASE Environment
  BY <1>3 DEF Environment, Network, Resolves, ResolveFails, Connects,
     ConnectFails, Upgrades, UpgradeFails, Reads, OperationAborts, Ends, Drops,
     TimerExpires, ServerSends
<1>4. ASSUME NEW u \in Subs, RejectSubscribe(u) \/ OnSubscribe(u) \/ OnUnsubscribe(u)
      PROVE  created' = created
  BY <1>4 DEF RejectSubscribe, OnSubscribe, OnUnsubscribe, Refuses
<1>5. CASE RunStop \/ RunStopped \/ OnTimer
  BY <1>5 DEF RunStop, RunStopped, OnTimer, MayReconnect
<1>6. ASSUME NEW t \in Conns, Completions(t) PROVE created' = created
  BY <1>6 DEF Completions, OnResolved, OnTransportConnected, OnFailed,
     OnWriteFailed, FireDisconnected
<1>7. ASSUME NEW t \in Conns, Messages(t) PROVE created' = created
  BY <1>7 DEF Messages, OnAck, OnPing, IgnoreMessage, OnNext, OnEnd,
     DestroyInOnNext
<1>8. CASE DestroyInTerminalCallback
  BY <1>8 DEF DestroyInTerminalCallback
<1> QED
  BY <1>1, <1>2, <1>3, <1>4, <1>5, <1>6, <1>7, <1>8 DEF Next, AsioThread

\* Neither a queued Subscribe nor an expired timer starts a connection once
\* ~WsLink has raised _stopping.
THEOREM StoppedLinkStaysDown == Spec => NoConnectWhenStopping
<1>1. [Next]_vars => [Stopping => created' = created]_vars
  BY StoppingStopsConnecting
<1> QED
  BY <1>1, PTL DEF Spec, NoConnectWhenStopping


-----------------------------------------------------------------------------
(***************************************************************************)
(* When an expired timer's handler runs before anything that was queued     *)
(* later (~LateTimer): what the sockets and the chains of the transports say *)
(* about each other, the one connection that follows, and what goes over it. *)
(***************************************************************************)

-----------------------------------------------------------------------------
(* The invariant *)

ChainOps == {"resolved", "connected", "failed", "message"}

\* Each transport waits for one handler of its chain at most, and an expired
\* timer's handler is the next to run.
OneEach ==
  \A i, j \in 1..Len(ready) :
    /\ ready[i].op \in ChainOps /\ ready[j].op \in ChainOps
    /\ ready[i].conn = ready[j].conn
    => i = j
TimerFirst ==
  \A i \in 1..Len(ready) : ready[i] = Plain("timer") => i = 1

QInv == OneEach /\ TimerFirst

\* The connection callback of transport t was queued and has run or failed.
Past(t) == chain[t] \in {"reading", "delivered", "failing", "ended"}

NoneWaits(t) ==
  /\ \A op \in {"resolved", "connected", "failed"} : ~Queued(ConnTask(op, t))
  /\ \A m : ~Queued(MessageTask(t, m))

ChainsMatch ==
  \A t \in Conns :
    /\ \A op \in {"resolved", "connected"} : Queued(ConnTask(op, t)) => chain[t] = op
    /\ Queued(ConnTask("failed", t)) => chain[t] = "failing"
    /\ \A m : Queued(MessageTask(t, m)) => chain[t] = "delivered"

WritesMatch ==
  \A t \in Conns :
    Queued(ConnTask("writeFailed", t)) => Past(t) /\ sock[t] = "closed"

SocketsMatch ==
  \A t \in Conns :
    /\ chain[t] \in {"unused", "resolving", "resolved"} => sock[t] = "none"
    /\ chain[t] \in {"connecting", "upgrading", "connected", "reading", "delivered"} =>
         sock[t] # "none"
    /\ chain[t] = "ended" => fired[t]
    /\ sent[t] # <<>> => Past(t)

\* A transport that reported its end is closed for good, and every other one is
\* the current one.
FiredMatch ==
  \A t \in Conns :
    /\ fired[t] => Past(t) /\ sock[t] = "closed"
    /\ t <= created /\ t # transport => fired[t]

StateMatch ==
  /\ timer \/ Queued(Plain("timer")) => state = "Reconnecting"
  /\ ~(timer /\ Queued(Plain("timer")))
  /\ transport # None => (fired[transport] => Stopping)
  /\ state = "Connected" =>
       /\ Past(transport)
       /\ sock[transport] = "closed" \/ chain[transport] \in {"reading", "delivered"}

CInv == /\ IInv /\ QInv
        /\ ChainsMatch /\ WritesMatch /\ SocketsMatch /\ FiredMatch /\ StateMatch

\* What the server sent is read by a chain that reads, ...
HeldMatch ==
  \A t \in Conns, m \in ServerMsgs :
    Coming(t, m) => chain[t] \in {"connected", "reading", "delivered"}

\* ... to its end before the next connection is made.
TimerDrained ==
  Queued(Plain("timer")) => \A t \in Conns : chain[t] \notin {"reading", "delivered"}

\* A connection is acknowledged once, ...
Ack == Bare("connection_ack")
AcksOnce ==
  \A t \in Conns :
    /\ \A i, j \in 1..Len(held[t]) : held[t][i] = Ack /\ held[t][j] = Ack => i = j
    /\ Queued(MessageTask(t, Ack)) => Ack \notin ToSet(held[t])

\* ... in reply to connection_init, which is all the client said until then; so
\* nobody else reports the end of a connection whose ack is coming.
Said1(t) == \/ acked[t] /\ Len(sent[t]) = 1
            \/ sent[t] = <<>> /\ sock[t] = "closed"
AckAwaited(t) ==
  /\ ~fired[t] /\ ~Queued(ConnTask("writeFailed", t))
  /\ chain[t] \in {"reading", "delivered"}
  /\ state = "Connecting" /\ Said1(t)
AcksFirst ==
  \A t \in Conns :
    /\ Coming(t, Ack) => AckAwaited(t)
    /\ ~acked[t] => Len(sent[t]) <= 1
    /\ t = transport /\ state = "Connected" =>
         acked[t] \/ (sent[t] = <<>> /\ sock[t] = "closed")

HInv == HeldMatch /\ TimerDrained /\ AcksOnce /\ AcksFirst

TInv == CInv /\ HInv

LEMMA InitTInv == Init => TInv
<1> SUFFICES ASSUME Init PROVE TInv
  OBVIOUS
<1>1. IInv
  BY InitIInv
<1>2. QInv
  BY DEF Init, QInv, OneEach, TimerFirst
<1>3. \A x : ~Queued(x)
  BY DEF Init, Queued, ToSet
<1>4. ChainsMatch /\ WritesMatch /\ SocketsMatch /\ FiredMatch /\ StateMatch
  BY <1>3 DEF Init, ChainsMatch, WritesMatch, SocketsMatch, FiredMatch, StateMatch,
     Past, Conns, None
<1>5. \A t \in Conns : held[t] = <<>> /\ sent[t] = <<>> /\ \A m : ~Coming(t, m)
  BY <1>3 DEF Init, Coming, ToSet
<1>6. HInv
  BY <1>3, <1>5 DEF Init, HInv, HeldMatch, TimerDrained, AcksOnce, AcksFirst
<1> QED
  BY <1>1, <1>2, <1>4, <1>6 DEF TInv, CInv

-----------------------------------------------------------------------------
(* The queue *)

LEMMA TaskShape ==
  ASSUME NEW n, NEW x \in Tasks(n)
  PROVE  /\ x.op \in ChainOps \ {"message"} => x = ConnTask(x.op, x.conn)
         /\ x.op = "writeFailed" => x = ConnTask(x.op, x.conn)
         /\ x.op = "message" => x = MessageTask(x.conn, x.msg)
<1>1. CASE x \in [op : {"message"}, conn : 1..n, msg : ServerMsgs]
  BY <1>1 DEF MessageTask, ChainOps
<1>2. CASE x \in [op : {"resolved", "connected", "failed", "writeFailed"}, conn : 1..n]
  BY <1>2 DEF ConnTask, ChainOps
<1>3. CASE \/ x \in [op : {"subscribe", "unsubscribe"}, sub : Subs]
           \/ x \in [op : {"stop", "stopped", "timer"}]
  BY <1>3 DEF ChainOps
<1> QED
  BY <1>1, <1>2, <1>3 DEF Tasks

\* The fields of the handlers, and that they tell the kinds apart.
LEMMA TaskFields ==
  /\ \A op, t : ConnTask(op, t).op = op /\ ConnTask(op, t).conn = t
  /\ \A t, m : MessageTask(t, m).op = "message" /\ MessageTask(t, m).conn = t
  /\ \A op : Plain(op).op = op
  /\ \A op, s : SubTask(op, s).op = op
BY DEF ConnTask, MessageTask, Plain, SubTask

\* What running a handler leaves of the chains' handlers.
LEMMA RunsQueue ==
  ASSUME NEW T, ready \in Seq(T), NEW task, NEW posts \in Seq(T),
         Runs(task, posts), QInv,
         \A x \in ToSet(posts) : x.op \notin ChainOps /\ x # Plain("timer")
  PROVE  /\ QInv'
         /\ \A x : Queued(x)' /\ x.op \in ChainOps /\ task.op \in ChainOps =>
              x.conn # task.conn
         /\ ~Queued(Plain("timer"))'
<1>1. Len(ready) \in Nat \ {0} /\ Len(ready') \in Nat /\ ready[1] = task
  BY RunsShifts, RunsType
<1>2. ASSUME NEW i \in 1..Len(ready'),
             ready'[i].op \in ChainOps \/ ready'[i] = Plain("timer")
      PROVE  i < Len(ready) /\ i+1 \in 2..Len(ready) /\ ready'[i] = ready[i+1]
  <2>1. i < Len(ready) /\ ready'[i] = ready[i+1]
    BY <1>2, RunsShifts
  <2> QED
    BY <1>1, <2>1
<1>3. OneEach'
  <2> SUFFICES ASSUME NEW i \in 1..Len(ready'), NEW j \in 1..Len(ready'),
                      ready'[i].op \in ChainOps, ready'[j].op \in ChainOps,
                      ready'[i].conn = ready'[j].conn
               PROVE  i = j
    BY DEF OneEach
  <2>1. i+1 \in 1..Len(ready) /\ j+1 \in 1..Len(ready)
        /\ ready'[i] = ready[i+1] /\ ready'[j] = ready[j+1]
    BY <1>2
  <2>2. i+1 = j+1
    BY <2>1 DEF QInv, OneEach
  <2> QED
    BY <2>2
<1>5. \A i \in 1..Len(ready') : ready'[i] # Plain("timer")
  <2> SUFFICES ASSUME NEW i \in 1..Len(ready'), ready'[i] = Plain("timer")
               PROVE  FALSE
    OBVIOUS
  <2>1. i+1 \in 2..Len(ready) /\ ready[i+1] = Plain("timer")
    BY <1>2
  <2>2. i+1 \in 1..Len(ready) /\ i+1 # 1
    BY <2>1
  <2> QED
    BY <2>1, <2>2 DEF QInv, TimerFirst
<1>6. ready' \in Seq(T)
  BY RunsType
<1>7. ASSUME NEW x, Queued(x)', x.op \in ChainOps
      PROVE  \E k \in 2..Len(ready) : ready[k] = x
  <2>1. PICK i \in 1..Len(ready') : ready'[i] = x
    BY <1>6, <1>7 DEF Queued, ToSet
  <2>2. i+1 \in 2..Len(ready) /\ ready[i+1] = x
    BY <1>2, <1>7, <2>1
  <2> QED
    BY <2>2
<1>8. ASSUME NEW x, Queued(x)', x.op \in ChainOps, task.op \in ChainOps
      PROVE  x.conn # task.conn
  <2>1. PICK k \in 2..Len(ready) : ready[k] = x
    BY <1>7, <1>8
  <2>2. k \in 1..Len(ready) /\ 1 \in 1..Len(ready) /\ k # 1
    BY <1>1
  <2> QED
    BY <1>1, <1>8, <2>1, <2>2 DEF QInv, OneEach
<1>10. ~Queued(Plain("timer"))'
  BY <1>5, <1>6 DEF Queued, ToSet
<1>11. QInv'
  BY <1>3, <1>5 DEF QInv, TimerFirst
<1> QED
  BY <1>8, <1>10, <1>11

\* What a handler of the link does to the queue.
QStep(task) ==
  /\ QInv'
  /\ Queued(task)
  /\ ~Queued(Plain("timer"))'
  /\ \A op, t : Queued(ConnTask(op, t))' =>
       \/ Queued(ConnTask(op, t))
       \/ op = "writeFailed" /\ t = transport /\ ~Open(t) /\ Sending
  /\ \A t, m : Queued(MessageTask(t, m))' => Queued(MessageTask(t, m))
  /\ \A op \in {"resolved", "connected", "failed"}, t \in Conns :
       task = ConnTask(op, t) => NoneWaits(t)'
  /\ \A t \in Conns : \A m : task = MessageTask(t, m) => NoneWaits(t)'

LEMMA HandlerQueue ==
  ASSUME TInv, AsioThread, ~DestroyInTerminalCallback,
         NEW task, NEW out, Runs(task, out)
  PROVE  QStep(task)
<1>0. ready \in Seq(Tasks(created)) /\ IInv
  BY DEF TInv, CInv, IInv, TypeOK
<1>1. PICK posts : Appends(task, posts)
  <2>1. PICK x, posts : Appends(x, posts)
    BY <1>0, AsioAppends
  <2>2. x = task
    BY <2>1 DEF Appends, Runs
  <2> QED
    BY <2>1, <2>2
<1>2. posts \in Seq(Tasks(created)) /\ Runs(task, posts)
  BY <1>1 DEF Appends
<1>3. \A x \in ToSet(posts) : x \in Tasks(created)
  BY <1>2 DEF ToSet
<1>4. \A x \in ToSet(posts) : x.op \notin ChainOps /\ x # Plain("timer")
  BY <1>1, <1>3, TaskShape DEF Appends, ChainOps
<1>5. /\ QInv'
      /\ \A x : Queued(x)' /\ x.op \in ChainOps /\ task.op \in ChainOps =>
           x.conn # task.conn
      /\ ~Queued(Plain("timer"))'
  BY <1>0, <1>2, <1>4, RunsQueue DEF TInv, CInv
<1>6. \A x : Queued(x)' => Queued(x) \/ x \in ToSet(posts)
  BY <1>0, <1>2, RunsAdds
<1>7. Queued(task)
  BY <1>0, <1>2 DEF Runs, Queued, ToSet
<1>8. ASSUME NEW t, task.op \in ChainOps, task.conn = t PROVE NoneWaits(t)'
  BY <1>5, <1>8, TaskFields DEF NoneWaits, ChainOps
<1>9. \A op \in {"resolved", "connected", "failed"}, t \in Conns :
        task = ConnTask(op, t) => NoneWaits(t)'
  BY <1>8, TaskFields DEF ChainOps
<1>10. \A t \in Conns : \A m : task = MessageTask(t, m) => NoneWaits(t)'
  BY <1>8, TaskFields DEF ChainOps
<1> QED
  BY <1>1, <1>5, <1>6, <1>7, <1>9, <1>10 DEF QStep, Appends

\* What queueing a handler from outside needs.
LEMMA PostsQueue ==
  ASSUME NEW T, ready \in Seq(T), NEW task \in T, Posts(task), QInv,
         task.op \in ChainOps =>
           \A x : Queued(x) /\ x.op \in ChainOps => x.conn # task.conn,
         task = Plain("timer") => ready = <<>>
  PROVE  QInv'
<1>1. /\ Len(ready) \in Nat /\ Len(ready') = Len(ready) + 1
      /\ \A i \in 1..Len(ready) : ready'[i] = ready[i]
      /\ ready'[Len(ready) + 1] = task
  BY DEF Posts
<1>2. \A i \in 1..Len(ready') : i \in 1..Len(ready) \/ i = Len(ready) + 1
  BY <1>1
<1>3. \A i \in 1..Len(ready) : Queued(ready[i])
  BY DEF Queued, ToSet
<1>4. OneEach'
  BY <1>1, <1>2, <1>3 DEF QInv, OneEach
<1>6. TimerFirst'
  <2> SUFFICES ASSUME NEW i \in 1..Len(ready'), ready'[i] = Plain("timer")
               PROVE  i = 1
    BY DEF TimerFirst
  <2>1. CASE i \in 1..Len(ready)
    BY <1>1, <2>1 DEF QInv, TimerFirst
  <2>2. CASE i = Len(ready) + 1
    <3>1. ready = <<>>
      BY <1>1, <2>2
    <3> QED
      BY <2>2, <3>1
  <2> QED
    BY <1>2, <2>1, <2>2
<1> QED
  BY <1>4, <1>6 DEF QInv

-----------------------------------------------------------------------------
(* The handlers *)

\* What a transport that has connected once keeps.
Kept(t) ==
  /\ Past(t) => Past(t)'
  /\ sock[t] = "closed" => sock'[t] = "closed"
  /\ fired[t] => fired'[t]

LEMMA UnusedTransport ==
  ASSUME TInv, NEW t \in Conns, t > created
  PROVE  /\ chain[t] = "unused" /\ sock[t] = "none" /\ sent[t] = <<>> /\ ~fired[t]
         /\ \A op : ~Queued(ConnTask(op, t))
         /\ \A m : ~Queued(MessageTask(t, m))
<1>1. chain[t] = "unused"
  BY DEF TInv, CInv, IInv, TypeOK
<1>2. ready \in Seq(Tasks(created)) /\ created \in Nat
  BY BoundsAssumption DEF TInv, CInv, IInv, TypeOK
<1>3. ASSUME NEW x, Queued(x), x.op \in ChainOps \cup {"writeFailed"}
      PROVE  x.conn # t
  <2>1. x \in Tasks(created)
    BY <1>2, <1>3 DEF Queued, ToSet
  <2>2. x.conn \in 1..created
    BY <1>3, <2>1 DEF Tasks, ChainOps
  <2> QED
    BY <1>2, <2>2
<1>4. \A m : ~Queued(MessageTask(t, m))
  BY <1>3, TaskFields DEF ChainOps
<1>5. ASSUME NEW op, Queued(ConnTask(op, t)) PROVE FALSE
  <2>1. ConnTask(op, t) \in Tasks(created)
    BY <1>2, <1>5 DEF Queued, ToSet
  <2>2. t \in 1..created
    BY <2>1 DEF ConnTask, Tasks
  <2> QED
    BY <1>2, <2>2
<1> QED
  BY <1>1, <1>4, <1>5 DEF TInv, CInv, SocketsMatch, FiredMatch, Past

\* A context that sends has a transport that has connected.
LEMMA SendingPast ==
  ASSUME TInv, Sending, NEW u, u = transport
  PROVE  /\ u \in Conns /\ u # None
         /\ Past(u) \/ Past(u)'
         /\ ~Open(u) => sock[u] = "closed"
<1> USE DEF TInv, CInv, IInv
<1>1. u \in Conns /\ u # None
  BY BoundsAssumption DEF Sending, TransportMatchesState, TypeOK, None, Conns
<1>2. CASE state = "Connected"
  BY <1>1, <1>2 DEF StateMatch, SocketsMatch, Open, Past, TypeOK
<1>3. ASSUME state = "Connecting", NEW t \in Conns, OnAck(t)
      PROVE  Past(u) /\ (~Open(u) => sock[u] = "closed")
  <2>1. Queued(MessageTask(t, Ack))
    BY <1>3 DEF OnAck, Receives, Runs, Queued, ToSet, TypeOK, Ack
  <2>2. chain[t] = "delivered" /\ ~fired[t]
    BY <2>1 DEF ChainsMatch, HInv, AcksFirst, AckAwaited, Coming
  <2>3. t = u
    BY <2>2 DEF FiredMatch, TypeOK, Conns
  <2> QED
    BY <1>1, <2>2, <2>3 DEF Past, Open, SocketsMatch, TypeOK
<1>4. ASSUME state = "Connecting", NEW t \in Conns, OnTransportConnected(t)
      PROVE  Past(u)' /\ (~Open(u) => sock[u] = "closed")
  <2>1. Queued(ConnTask("connected", t))
    BY <1>4 DEF OnTransportConnected, Runs, Queued, ToSet, TypeOK
  <2>2. chain[t] = "connected" /\ ~fired[t]
    BY <2>1 DEF ChainsMatch, FiredMatch, Past
  <2>3. t = u
    BY <2>2 DEF FiredMatch, TypeOK, Conns
  <2>4. chain'[t] = "reading"
    BY <1>4 DEF OnTransportConnected, TypeOK
  <2> QED
    BY <1>1, <2>2, <2>3, <2>4 DEF Past, Open, SocketsMatch, TypeOK
<1> QED
  BY <1>1, <1>2, <1>3, <1>4 DEF Sending

\* ConnectTransport starts the next transport when there is none.
LEMMA ConnectKeeps ==
  ASSUME TInv, ConnectTransport, transport = None, NEW t \in Conns
  PROVE  \/ /\ t # created + 1 /\ chain'[t] = chain[t]
            /\ fired[t] \/ t > created'
         \/ /\ t = created + 1 /\ t = transport'
            /\ chain[t] = "unused" /\ chain'[t] = "resolving" /\ t > created
  BY BoundsAssumption DEF ConnectTransport, TInv, CInv, IInv, TypeOK, FiredMatch, Conns, None

\* The parts of TInv that are about the transports, as a handler leaves them.
ChainStep(t) ==
  /\ Kept(t)
  /\ \/ chain'[t] = chain[t]
     \/ chain[t] = "unused"
     \/ NoneWaits(t)'
  /\ chain'[t] \in {"unused", "resolving", "resolved"} => sock'[t] = "none"
  /\ chain'[t] \in {"connecting", "upgrading", "connected", "reading", "delivered"} =>
       sock'[t] # "none"
  /\ chain'[t] = "ended" => fired'[t]
  /\ sent'[t] # <<>> => Past(t)'
  /\ fired'[t] => Past(t)' /\ sock'[t] = "closed"
  /\ t <= created' /\ t # transport' => fired'[t]

LEMMA WireChain ==
  ASSUME TInv, NEW out, out # <<>> => Sending, sent' = Wire(transport, out),
         NEW t \in Conns, sent'[t] # <<>>
  PROVE  Past(t) \/ Past(t)'
<1>1. CASE sent[t] # <<>>
  BY <1>1 DEF TInv, CInv, SocketsMatch
<1>2. CASE sent[t] = <<>>
  <2>1. out # <<>> /\ t = transport
    BY <1>2 DEF Wire, TInv, CInv, IInv, TypeOK
  <2> QED
    BY <2>1, SendingPast
<1> QED
  BY <1>1, <1>2

\* Handlers that neither start, end nor replace a transport.
LEMMA QuietStep ==
  ASSUME TInv, NEW task, QStep(task), NEW t \in Conns,
         UNCHANGED <<transport, created, fired>>,
         \/ chain'[t] = chain[t]
         \/ chain[t] = "delivered" /\ chain'[t] = "reading" /\ NoneWaits(t)',
         sock'[t] = sock[t] \/ (sock[t] = "open" /\ sock'[t] = "closed"),
         sent'[t] # <<>> => Past(t) \/ Past(t)'
  PROVE  ChainStep(t)
<1>1. Kept(t)
  BY DEF Kept, Past
<1>3. /\ chain'[t] \in {"unused", "resolving", "resolved"} => sock'[t] = "none"
      /\ chain'[t] \in {"connecting", "upgrading", "connected", "reading", "delivered"} =>
           sock'[t] # "none"
      /\ chain'[t] = "ended" => fired'[t]
  BY DEF TInv, CInv, SocketsMatch
<1>4. fired'[t] => Past(t)' /\ sock'[t] = "closed"
  BY <1>1 DEF Kept, TInv, CInv, FiredMatch
<1>5. t <= created' /\ t # transport' => fired'[t]
  BY DEF TInv, CInv, FiredMatch
<1> QED
  BY <1>1, <1>3, <1>4, <1>5 DEF ChainStep, Kept

\* Handlers that start a transport.
LEMMA ConnectStep ==
  ASSUME TInv, NEW task, QStep(task), NEW t \in Conns,
         ConnectTransport, transport = None, UNCHANGED <<sock, fired, sent>>
  PROVE  ChainStep(t)
<1>1. CASE chain'[t] = chain[t] /\ (fired[t] \/ t > created')
  <2>1. Kept(t)
    BY <1>1 DEF Kept, Past
  <2>2. /\ chain'[t] \in {"unused", "resolving", "resolved"} => sock'[t] = "none"
        /\ chain'[t] \in {"connecting", "upgrading", "connected", "reading", "delivered"} =>
             sock'[t] # "none"
        /\ chain'[t] = "ended" => fired'[t]
    BY <1>1 DEF TInv, CInv, SocketsMatch
  <2>3. sent'[t] # <<>> => Past(t)'
    BY <1>1 DEF TInv, CInv, SocketsMatch, Past
  <2>4. fired'[t] => Past(t)' /\ sock'[t] = "closed"
    BY <1>1 DEF TInv, CInv, FiredMatch, Past
  <2>5. t <= created' /\ t # transport' => fired'[t]
    BY <1>1, BoundsAssumption DEF TInv, CInv, IInv, TypeOK, ConnectTransport, Conns
  <2> QED
    BY <1>1, <2>1, <2>2, <2>3, <2>4, <2>5 DEF ChainStep
<1>2. CASE /\ t = transport' /\ chain[t] = "unused" /\ chain'[t] = "resolving"
           /\ t > created
  <2>1. sock[t] = "none" /\ sent[t] = <<>> /\ ~fired[t]
    BY <1>2, UnusedTransport
  <2> QED
    BY <1>2, <2>1 DEF ChainStep, Kept, Past
<1> QED
  BY <1>1, <1>2, ConnectKeeps

\* What StateMatch needs of handlers that leave the connection state alone.
LEMMA SameState ==
  ASSUME TInv, NEW task, QStep(task), \A t \in Conns : ChainStep(t),
         UNCHANGED <<state, transport, timer, fired>>, Stopping => Stopping',
         \A t \in Conns : chain[t] \in {"reading", "delivered"} =>
           chain'[t] \in {"reading", "delivered"}
  PROVE  StateMatch'
<1>1. transport # None => transport \in Conns
  BY BoundsAssumption DEF TInv, CInv, IInv, TypeOK, None, Conns
<1>2. state = "Connected" => transport # None
  BY DEF TInv, CInv, IInv, TransportMatchesState
<1> QED
  BY <1>1, <1>2 DEF StateMatch, TInv, CInv, QStep, ChainStep, Kept, Past

HStep == (\A t \in Conns : ChainStep(t)) /\ StateMatch'

LEMMA SubscriptionHStep ==
  ASSUME TInv, AsioThread, ~DestroyInTerminalCallback, NEW s \in Subs,
         RejectSubscribe(s) \/ OnSubscribe(s) \/ OnUnsubscribe(s)
  PROVE  HStep
<1> USE DEF ctxVars, lifeVars, connVars
<1>1. PICK task : QStep(task)
  BY HandlerQueue DEF RejectSubscribe, OnSubscribe, OnUnsubscribe
<1>2. CASE RejectSubscribe(s)
  <2>1. ASSUME NEW t \in Conns PROVE ChainStep(t)
    <3>1. sent[t] # <<>> => Past(t)
      BY DEF TInv, CInv, SocketsMatch
    <3> QED
      BY <1>1, <1>2, <3>1, QuietStep DEF RejectSubscribe
  <2> QED
    BY <1>1, <1>2, <2>1, SameState DEF HStep, RejectSubscribe, Stopping
<1>3. CASE OnSubscribe(s) /\ state # "Idle"
  <2>1. PICK out : (out # <<>> => Sending) /\ sent' = Wire(transport, out)
    BY <1>3 DEF OnSubscribe, SendsNow, Sending
  <2>2. UNCHANGED <<state, transport, created, chain, timer, sock, fired, stopper>>
    BY <1>3 DEF OnSubscribe
  <2>3. \A t \in Conns : ChainStep(t)
    BY <1>1, <2>1, <2>2, WireChain, QuietStep
  <2> QED
    BY <1>1, <2>2, <2>3, SameState DEF HStep, Stopping
<1>4. CASE OnSubscribe(s) /\ state = "Idle"
  <2>1. /\ ConnectTransport /\ UNCHANGED <<sock, fired, timer, stopper>>
        /\ state' = "Connecting"
    BY <1>4 DEF OnSubscribe
  <2>2. transport = None
    BY <1>4 DEF TInv, CInv, IInv, TransportMatchesState
  <2>3. sent' = sent
    BY <1>4 DEF OnSubscribe, SendsNow, Wire
  <2>4. \A t \in Conns : ChainStep(t)
    BY <1>1, <2>1, <2>2, <2>3, ConnectStep
  <2>5. transport' = created + 1 /\ transport' \in Conns
    BY <2>1, BoundsAssumption DEF ConnectTransport, TInv, CInv, IInv, TypeOK, Conns
  <2>6. ~fired'[transport']
    BY <2>1, <2>5, UnusedTransport DEF TInv, CInv, IInv, TypeOK
  <2>7. ~timer' /\ ~Queued(Plain("timer"))'
    BY <1>1, <1>4, <2>1 DEF QStep, TInv, CInv, StateMatch
  <2> QED
    BY <2>1, <2>4, <2>6, <2>7 DEF HStep, StateMatch
<1>5. CASE OnUnsubscribe(s)
  <2>1. PICK out : (out # <<>> => Sending) /\ sent' = Wire(transport, out)
    BY <1>5 DEF OnUnsubscribe, TellsServer, Sending
  <2>2. UNCHANGED <<transport, created, chain, sock, fired, stopper>>
    BY <1>5 DEF OnUnsubscribe
  <2>3. \A t \in Conns : ChainStep(t)
    BY <1>1, <2>1, <2>2, WireChain, QuietStep
  <2>4. CASE UNCHANGED <<state, timer>>
    BY <1>1, <2>2, <2>3, <2>4, SameState DEF HStep, Stopping
  <2>5. CASE state = "Reconnecting" /\ state' = "Idle" /\ timer' = FALSE
    <3>1. transport' = None
      BY <2>2, <2>5 DEF TInv, CInv, IInv, TransportMatchesState
    <3> QED
      BY <1>1, <2>3, <2>5, <3>1 DEF HStep, StateMatch, QStep
  <2> QED
    BY <1>5, <2>4, <2>5 DEF OnUnsubscribe, GoIdle
<1> QED
  BY <1>2, <1>3, <1>4, <1>5

\* StopOnContext.
LEMMA StoppedHStep ==
  ASSUME TInv, NEW task, QStep(task), StopOnContext, Stopping',
         UNCHANGED <<state, transport, created, fired, sent>>,
         \A t \in Conns :
           \/ chain'[t] = chain[t]
           \/ chain[t] = "delivered" /\ chain'[t] = "reading" /\ NoneWaits(t)'
  PROVE  HStep
<1>1. ASSUME NEW t \in Conns
      PROVE  sock'[t] = sock[t] \/ (sock[t] = "open" /\ sock'[t] = "closed")
  BY DEF StopOnContext, CloseTransport
<1>2. ASSUME NEW t \in Conns PROVE sent'[t] # <<>> => Past(t)
  BY DEF TInv, CInv, SocketsMatch
<1>3. \A t \in Conns : ChainStep(t)
  BY <1>1, <1>2, QuietStep
<1>4. ~timer' /\ ~Queued(Plain("timer"))'
  BY DEF StopOnContext, QStep
<1>5. state' = "Connected" =>
        /\ Past(transport)'
        /\ (sock[transport] = "closed")' \/ (chain[transport] \in {"reading", "delivered"})'
  <2>1. state = "Connected" => transport \in Conns
    BY BoundsAssumption DEF TInv, CInv, IInv, TransportMatchesState, TypeOK, None, Conns
  <2> QED
    BY <1>3, <2>1 DEF TInv, CInv, StateMatch, ChainStep, Kept, Past
<1> QED
  BY <1>3, <1>4, <1>5 DEF HStep, StateMatch

LEMMA StopHStep ==
  ASSUME TInv, AsioThread, ~DestroyInTerminalCallback,
         RunStop \/ RunStopped \/ OnTimer
  PROVE  HStep
<1> USE DEF ctxVars, lifeVars, connVars
<1>0. \A t \in Conns : sent[t] # <<>> => Past(t)
  BY DEF TInv, CInv, SocketsMatch
<1>1. CASE RunStop
  <2>1. PICK task : QStep(task)
    BY <1>1, HandlerQueue DEF RunStop
  <2> QED
    BY <1>1, <2>1, StoppedHStep DEF RunStop, Stopping
<1>2. CASE RunStopped
  <2>1. PICK task : QStep(task)
    BY <1>2, HandlerQueue DEF RunStopped
  <2>2. \A t \in Conns : ChainStep(t)
    BY <1>0, <1>2, <2>1, QuietStep DEF RunStopped
  <2> QED
    BY <1>2, <2>1, <2>2, SameState DEF HStep, RunStopped, Stopping
<1>3. CASE OnTimer
  <2>1. QStep(Plain("timer"))
    BY <1>3, HandlerQueue DEF OnTimer
  <2>2. state = "Reconnecting" /\ ~timer
    BY <2>1 DEF QStep, TInv, CInv, StateMatch
  <2>3. transport = None
    BY <2>2 DEF TInv, CInv, IInv, TransportMatchesState
  <2>4. CASE MayReconnect
    <3>1. ConnectTransport /\ UNCHANGED <<sock, fired, timer, sent>> /\ state' = "Connecting"
      BY <1>3, <2>4 DEF OnTimer
    <3>2. \A t \in Conns : ChainStep(t)
      BY <2>1, <2>3, <3>1, ConnectStep
    <3>3. transport' = created + 1 /\ transport' \in Conns
      BY <3>1, BoundsAssumption DEF ConnectTransport, TInv, CInv, IInv, TypeOK, Conns
    <3>4. ~fired'[transport']
      BY <3>1, <3>3, UnusedTransport DEF TInv, CInv, IInv, TypeOK
    <3> QED
      BY <2>1, <2>2, <3>1, <3>2, <3>4 DEF HStep, StateMatch, QStep
  <2>5. CASE ~MayReconnect
    <3>1. UNCHANGED <<state, transport, created, chain, timer, sock, fired, sent, stopper>>
      BY <1>3, <2>5 DEF OnTimer
    <3>2. \A t \in Conns : ChainStep(t)
      BY <1>0, <2>1, <3>1, QuietStep
    <3> QED
      BY <2>1, <3>1, <3>2, SameState DEF HStep, Stopping
  <2> QED
    BY <2>4, <2>5
<1> QED
  BY <1>1, <1>2, <1>3

\* A transport reports its end to a context that still has it, or to nobody.
LEMMA FireFacts ==
  ASSUME TInv, NEW u \in Conns, u <= created, NEW task, FireDisconnected(u, task)
  PROVE  /\ fired' = [fired EXCEPT ![u] = TRUE] /\ created' = created
         /\ stopper' = stopper
         /\ \/ /\ u = transport /\ transport' = None
               /\ state' \in {"Idle", "Reconnecting"}
               /\ timer' => state' = "Reconnecting"
            \/ /\ UNCHANGED <<transport, state, timer>>
               /\ fired[u] \/ Stopping
<1> USE DEF lifeVars
<1>1. fired' = [fired EXCEPT ![u] = TRUE] /\ created' = created /\ stopper' = stopper
  BY DEF FireDisconnected
<1>2. CASE MayFireDisconnected(u) /\ OnTransportDisconnected(task)
  <2>1. u = transport
    BY <1>2 DEF MayFireDisconnected, TInv, CInv, FiredMatch
  <2>2. transport' = None
    BY <1>2 DEF OnTransportDisconnected, ResetTransport
  <2>3. timer => state = "Reconnecting"
    BY DEF TInv, CInv, StateMatch
  <2>4. state' \in {"Idle", "Reconnecting"} /\ (timer' => state' = "Reconnecting")
    BY <1>2, <2>3 DEF OnTransportDisconnected, GivesUp, ScheduleReconnect
  <2> QED
    BY <1>1, <2>1, <2>2, <2>4
<1>3. CASE ~MayFireDisconnected(u) /\ UNCHANGED <<transport, state, timer>>
  BY <1>1, <1>3 DEF MayFireDisconnected
<1> QED
  BY <1>2, <1>3 DEF FireDisconnected

\* StateMatch after a transport reported its end.
LEMMA FiredState ==
  ASSUME TInv, NEW u \in Conns, u <= created, NEW task,
         FireDisconnected(u, task), QStep(task), \A t \in Conns : ChainStep(t),
         \A t \in Conns : t # u => chain'[t] = chain[t],
         sock'[u] = "closed"
  PROVE  StateMatch'
<1>1. ~Queued(Plain("timer"))'
  BY DEF QStep
<1>2. fired \in [Conns -> BOOLEAN]
  BY DEF TInv, CInv, IInv, TypeOK
<1>3. /\ timer' => state' = "Reconnecting"
  BY FireFacts DEF TInv, CInv, StateMatch
<1>4. transport' # None => (fired'[transport'] => Stopping')
  <2>1. CASE transport' = transport /\ (fired[u] \/ Stopping)
    <3>1. fired' = [fired EXCEPT ![u] = TRUE] /\ (Stopping => Stopping')
      BY FireFacts DEF Stopping
    <3>2. CASE Stopping
      BY <3>1, <3>2
    <3>3. CASE fired[u]
      <4>1. fired' = fired
        BY <1>2, <3>1, <3>3
      <4> QED
        BY <2>1, <3>1, <4>1 DEF TInv, CInv, StateMatch
    <3> QED
      BY <2>1, <3>2, <3>3
  <2> QED
    BY <2>1, FireFacts
<1>5. state' = "Connected" =>
        /\ Past(transport)'
        /\ (sock[transport] = "closed")' \/ (chain[transport] \in {"reading", "delivered"})'
  <2>1. state' = "Connected" => state = "Connected" /\ transport' = transport
    BY FireFacts
  <2>2. state = "Connected" => transport \in Conns
    BY BoundsAssumption DEF TInv, CInv, IInv, TransportMatchesState, TypeOK, None, Conns
  <2> QED
    BY <2>1, <2>2 DEF TInv, CInv, StateMatch, ChainStep, Kept, Past
<1> QED
  BY <1>1, <1>3, <1>4, <1>5 DEF StateMatch

LEMMA CompletionHStep ==
  ASSUME TInv, AsioThread, ~DestroyInTerminalCallback, NEW u \in Conns, Completions(u)
  PROVE  HStep
<1> USE DEF ctxVars, lifeVars
<1>0. /\ chain \in [Conns -> Chains] /\ fired \in [Conns -> BOOLEAN]
      /\ sock \in [Conns -> {"none", "open", "closed"}]
      /\ sent \in [Conns -> Seq(ClientMsgs)] /\ created \in Nat
  BY BoundsAssumption DEF TInv, CInv, IInv, TypeOK
<1>1. CASE OnResolved(u)
  <2>1. QStep(ConnTask("resolved", u))
    BY <1>1, HandlerQueue DEF OnResolved
  <2>2. chain[u] = "resolved" /\ NoneWaits(u)'
    BY <2>1 DEF QStep, TInv, CInv, ChainsMatch
  <2>3. /\ chain' = [chain EXCEPT ![u] = "connecting"]
        /\ sock' = [sock EXCEPT ![u] = "open"]
        /\ UNCHANGED <<state, transport, timer, created, fired, sent, stopper>>
    BY <1>1 DEF OnResolved
  <2>4. sock[u] = "none" /\ ~fired[u] /\ sent[u] = <<>> /\ u <= created
    BY <1>0, <2>2, UnusedTransport DEF TInv, CInv, SocketsMatch, FiredMatch, Past, Conns
  <2>5. ASSUME NEW t \in Conns PROVE ChainStep(t)
    <3>1. CASE t = u
      BY <1>0, <2>2, <2>3, <2>4, <3>1 DEF ChainStep, Kept, Past, TInv, CInv, FiredMatch
    <3>2. CASE t # u
      <4>1. sent[t] # <<>> => Past(t)
        BY DEF TInv, CInv, SocketsMatch
      <4> QED
        BY <1>0, <2>1, <2>3, <3>2, <4>1, QuietStep
    <3> QED
      BY <3>1, <3>2
  <2>6. \A t \in Conns : chain[t] \in {"reading", "delivered"} =>
          chain'[t] \in {"reading", "delivered"}
    BY <1>0, <2>2, <2>3
  <2> QED
    BY <2>1, <2>3, <2>5, <2>6, SameState DEF HStep, Stopping
<1>2. CASE OnTransportConnected(u)
  <2>1. QStep(ConnTask("connected", u))
    BY <1>2, HandlerQueue DEF OnTransportConnected
  <2>2. chain[u] = "connected" /\ NoneWaits(u)'
    BY <2>1 DEF QStep, TInv, CInv, ChainsMatch
  <2>3. /\ chain' = [chain EXCEPT ![u] = "reading"]
        /\ UNCHANGED <<state, transport, timer, created, sock, fired, stopper>>
    BY <1>2 DEF OnTransportConnected
  <2>4. PICK out : (out # <<>> => Sending) /\ sent' = Wire(transport, out)
    BY <1>2 DEF OnTransportConnected, Sending
  <2>5. sock[u] # "none" /\ ~fired[u] /\ u <= created
    BY <1>0, <2>2, UnusedTransport DEF TInv, CInv, SocketsMatch, FiredMatch, Past, Conns
  <2>6. ASSUME NEW t \in Conns PROVE ChainStep(t)
    <3>1. CASE t = u
      BY <1>0, <2>2, <2>3, <2>5, <3>1 DEF ChainStep, Kept, Past, TInv, CInv, FiredMatch
    <3>2. CASE t # u
      <4>1. sent'[t] # <<>> => Past(t) \/ Past(t)'
        BY <2>4, WireChain
      <4> QED
        BY <1>0, <2>1, <2>3, <3>2, <4>1, QuietStep
    <3> QED
      BY <3>1, <3>2
  <2>7. \A t \in Conns : chain[t] \in {"reading", "delivered"} =>
          chain'[t] \in {"reading", "delivered"}
    BY <1>0, <2>2, <2>3
  <2> QED
    BY <2>1, <2>3, <2>6, <2>7, SameState DEF HStep, Stopping
<1>3. CASE OnFailed(u)
  <2> DEFINE task == ConnTask("failed", u)
  <2>0. FireDisconnected(u, task) /\ \E out : Runs(task, out)
    BY <1>3 DEF OnFailed, FireDisconnected, OnTransportDisconnected
  <2>1. QStep(task)
    BY <2>0, HandlerQueue
  <2>2. chain[u] = "failing" /\ NoneWaits(u)' /\ u <= created
    BY <1>0, <2>1, UnusedTransport DEF QStep, TInv, CInv, ChainsMatch, Conns
  <2>3. /\ chain' = [chain EXCEPT ![u] = "ended"]
        /\ sock' = [sock EXCEPT ![u] = "closed"]
        /\ sent' = [sent EXCEPT ![u] = <<>>]
    BY <1>3 DEF OnFailed, Breaks
  <2> HIDE DEF task
  <2>4. /\ fired' = [fired EXCEPT ![u] = TRUE] /\ created' = created
        /\ transport' = transport \/ u = transport
    BY <2>0, <2>2, FireFacts
  <2>5. ASSUME NEW t \in Conns PROVE ChainStep(t)
    <3>1. CASE t = u
      BY <1>0, <2>2, <2>3, <2>4, <3>1 DEF ChainStep, Kept, Past, NoneWaits
    <3>2. CASE t # u
      <4>1. /\ chain'[t] = chain[t] /\ sock'[t] = sock[t] /\ sent'[t] = sent[t]
            /\ fired'[t] = fired[t]
        BY <1>0, <2>3, <2>4, <3>2
      <4>2. fired'[t] => Past(t)' /\ sock'[t] = "closed"
        BY <4>1 DEF TInv, CInv, FiredMatch, Past
      <4>3. t <= created' /\ t # transport' => fired'[t]
        BY <2>4, <3>2, <4>1 DEF TInv, CInv, FiredMatch
      <4> QED
        BY <4>1, <4>2, <4>3 DEF ChainStep, Kept, Past, TInv, CInv, SocketsMatch
    <3> QED
      BY <3>1, <3>2
  <2>6. StateMatch'
    BY <1>0, <2>0, <2>1, <2>2, <2>3, <2>5, FiredState
  <2> QED
    BY <2>5, <2>6 DEF HStep
<1>4. CASE OnWriteFailed(u)
  <2> DEFINE task == ConnTask("writeFailed", u)
  <2>0. /\ FireDisconnected(u, task) /\ \E out : Runs(task, out)
        /\ UNCHANGED <<chain, sock, sent>>
    BY <1>4 DEF OnWriteFailed, FireDisconnected, OnTransportDisconnected
  <2>1. QStep(task)
    BY <2>0, HandlerQueue
  <2>2. Past(u) /\ sock[u] = "closed" /\ u <= created
    BY <1>0, <2>1, UnusedTransport DEF QStep, TInv, CInv, WritesMatch, Conns
  <2> HIDE DEF task
  <2>3. /\ fired' = [fired EXCEPT ![u] = TRUE] /\ created' = created
        /\ transport' = transport \/ u = transport
    BY <2>0, <2>2, FireFacts
  <2>4. ASSUME NEW t \in Conns PROVE ChainStep(t)
    <3>1. fired'[t] => Past(t)' /\ sock'[t] = "closed"
      BY <1>0, <2>0, <2>2, <2>3 DEF TInv, CInv, FiredMatch, Past
    <3>2. t <= created' /\ t # transport' => fired'[t]
      BY <1>0, <2>3 DEF TInv, CInv, FiredMatch
    <3>3. fired[t] => fired'[t]
      BY <1>0, <2>3
    <3> QED
      BY <2>0, <3>1, <3>2, <3>3 DEF ChainStep, Kept, Past, TInv, CInv, SocketsMatch
  <2>5. StateMatch'
    BY <2>0, <2>1, <2>2, <2>4, FiredState
  <2> QED
    BY <2>4, <2>5 DEF HStep
<1> QED
  BY <1>1, <1>2, <1>3, <1>4 DEF Completions

LEMMA MessageHStep ==
  ASSUME TInv, AsioThread, ~DestroyInTerminalCallback, NEW u \in Conns, Messages(u)
  PROVE  HStep
<1> USE DEF ctxVars, lifeVars
<1>0. /\ chain \in [Conns -> Chains] /\ sent \in [Conns -> Seq(ClientMsgs)]
  BY DEF TInv, CInv, IInv, TypeOK
<1>1. ASSUME NEW m, NEW posts, Receives(u, m, posts)
      PROVE  /\ QStep(MessageTask(u, m))
             /\ chain[u] = "delivered" /\ NoneWaits(u)'
             /\ chain' = [chain EXCEPT ![u] = "reading"]
  <2>1. QStep(MessageTask(u, m)) /\ chain' = [chain EXCEPT ![u] = "reading"]
    BY <1>1, HandlerQueue DEF Receives
  <2> QED
    BY <2>1 DEF QStep, TInv, CInv, ChainsMatch
<1>2. \A t \in Conns : sent[t] # <<>> => Past(t)
  BY DEF TInv, CInv, SocketsMatch
<1>3. ASSUME NEW m, NEW posts, Receives(u, m, posts),
             UNCHANGED <<transport, created, sock, fired>>,
             \A t \in Conns : sent'[t] # <<>> => Past(t) \/ Past(t)'
      PROVE  /\ \A t \in Conns : ChainStep(t)
             /\ UNCHANGED <<state, timer, stopper>> => StateMatch'
  <2>1. ASSUME NEW t \in Conns
        PROVE  \/ chain'[t] = chain[t]
               \/ chain[t] = "delivered" /\ chain'[t] = "reading" /\ NoneWaits(t)'
    <3>1. CASE t = u
      BY <1>0, <1>1, <1>3, <3>1
    <3>2. CASE t # u
      BY <1>0, <1>1, <1>3, <3>2
    <3> QED
      BY <3>1, <3>2
  <2>2. \A t \in Conns : ChainStep(t)
    BY <1>1, <1>3, <2>1, QuietStep
  <2> QED
    BY <1>1, <1>3, <2>1, <2>2, SameState DEF Stopping
<1>4. CASE OnAck(u)
  <2>1. PICK order \in SetToSeqs(subs) :
          LET out == [i \in DOMAIN order |-> Msg("subscribe", order[i])] IN
          /\ sent' = Wire(transport, out)
          /\ Receives(u, Bare("connection_ack"), WriteErrors(transport, out))
    BY <1>4 DEF OnAck
  <2> DEFINE out == [i \in DOMAIN order |-> Msg("subscribe", order[i])]
  <2>2. sent' = Wire(transport, out)
        /\ Receives(u, Bare("connection_ack"), WriteErrors(transport, out))
    BY <2>1
  <2> HIDE DEF out
  <2>3. /\ Sending /\ state = "Connecting" /\ state' = "Connected"
        /\ UNCHANGED <<transport, created, sock, fired, timer, stopper>>
    BY <1>4 DEF OnAck, Sending, Connected
  <2>4. \A t \in Conns : sent'[t] # <<>> => Past(t) \/ Past(t)'
    BY <2>2, <2>3, WireChain
  <2>5. \A t \in Conns : ChainStep(t)
    BY <1>3, <2>2, <2>3, <2>4
  <2>6. Queued(MessageTask(u, Bare("connection_ack"))) /\ chain'[u] = "reading"
        /\ ~Queued(Plain("timer"))'
    BY <1>0, <1>1, <2>2 DEF QStep
  <2>7. ~fired[u] /\ u <= created
    BY <2>6, UnusedTransport DEF TInv, CInv, HInv, AcksFirst, AckAwaited, Coming, Ack,
       IInv, TypeOK, Conns
  <2>8. u = transport
    BY <2>7 DEF TInv, CInv, FiredMatch
  <2>9. ~timer'
    BY <2>3 DEF TInv, CInv, StateMatch
  <2> QED
    BY <2>3, <2>5, <2>6, <2>7, <2>8, <2>9 DEF HStep, StateMatch, Past
<1>5. CASE OnPing(u)
  BY <1>2, <1>3, <1>5 DEF OnPing, HStep
<1>6. ASSUME NEW m \in ServerMsgs, IgnoreMessage(u, m) PROVE HStep
  BY <1>2, <1>3, <1>6 DEF IgnoreMessage, HStep
<1>7. ASSUME NEW s \in Subs, OnNext(u, s) PROVE HStep
  BY <1>2, <1>3, <1>7 DEF OnNext, HStep
<1>8. ASSUME NEW s \in Subs, NEW type, OnEnd(u, s, type) PROVE HStep
  BY <1>2, <1>3, <1>8 DEF OnEnd, HStep
<1>9. ASSUME NEW s \in Subs, NEW type, DestroyInOnNext(u, s, type) PROVE HStep
  <2>1. PICK posts : Receives(u, Msg(type, s), posts)
    BY <1>9 DEF DestroyInOnNext
  <2>2. /\ StopOnContext /\ stopper' = "returned"
        /\ UNCHANGED <<state, transport, created, fired, sent>>
    BY <1>9 DEF DestroyInOnNext
  <2>3. Stopping'
    BY <2>2 DEF Stopping
  <2>4. ASSUME NEW t \in Conns
        PROVE  \/ chain'[t] = chain[t]
               \/ chain[t] = "delivered" /\ chain'[t] = "reading" /\ NoneWaits(t)'
    <3>1. CASE t = u
      BY <1>0, <1>1, <2>1, <3>1
    <3>2. CASE t # u
      BY <1>0, <1>1, <2>1, <3>2
    <3> QED
      BY <3>1, <3>2
  <2> QED
    BY <1>1, <2>1, <2>2, <2>3, <2>4, StoppedHStep
<1> QED
  BY <1>4, <1>5, <1>6, <1>7, <1>8, <1>9 DEF Messages

LEMMA AsioCInv == ASSUME TInv, AsioThread PROVE CInv'
<1>0. IInv'
  BY NextIInv DEF TInv, CInv, Next
<1>1. CASE DestroyInTerminalCallback
  <2>1. UNCHANGED <<ready, state, transport, timer, created, chain, sock, fired, sent>>
        /\ Stopping'
    BY <1>1 DEF DestroyInTerminalCallback, Stopping, ctxVars, connVars
  <2> QED
    BY <1>0, <2>1 DEF TInv, CInv, QInv, OneEach, TimerFirst, ChainsMatch, WritesMatch,
       SocketsMatch, FiredMatch, StateMatch, Past, Queued
<1>2. CASE ~DestroyInTerminalCallback
  <2>1. PICK task : QStep(task)
    <3>1. PICK task, posts : Appends(task, posts)
      BY <1>2, AsioAppends DEF TInv, CInv
    <3> QED
      BY <1>2, <3>1, HandlerQueue DEF Appends
  <2>2. HStep
    BY <1>2, SubscriptionHStep, StopHStep, CompletionHStep, MessageHStep
    DEF AsioThread
  <2>3. ASSUME NEW t \in Conns
        PROVE  /\ \A op \in {"resolved", "connected"} :
                    Queued(ConnTask(op, t))' => chain'[t] = op
               /\ Queued(ConnTask("failed", t))' => chain'[t] = "failing"
               /\ \A m : Queued(MessageTask(t, m))' => chain'[t] = "delivered"
    <3>1. CASE chain'[t] = chain[t]
      BY <2>1, <3>1 DEF QStep, TInv, CInv, ChainsMatch
    <3>2. CASE chain[t] = "unused"
      BY <2>1, <3>2 DEF QStep, TInv, CInv, ChainsMatch
    <3>3. CASE NoneWaits(t)'
      BY <3>3 DEF NoneWaits
    <3> QED
      BY <2>2, <3>1, <3>2, <3>3 DEF HStep, ChainStep
  <2>4. ASSUME NEW t \in Conns, Queued(ConnTask("writeFailed", t))'
        PROVE  Past(t)' /\ sock'[t] = "closed"
    <3>1. CASE Queued(ConnTask("writeFailed", t))
      BY <2>2, <3>1 DEF HStep, ChainStep, Kept, TInv, CInv, WritesMatch
    <3>2. CASE t = transport /\ ~Open(t) /\ Sending
      <4>1. (Past(t) \/ Past(t)') /\ sock[t] = "closed"
        BY <3>2, SendingPast
      <4> QED
        BY <2>2, <4>1 DEF HStep, ChainStep, Kept
    <3> QED
      BY <2>1, <2>4, <3>1, <3>2 DEF QStep
  <2>5. SocketsMatch' /\ FiredMatch'
    BY <2>2 DEF HStep, ChainStep, SocketsMatch, FiredMatch
  <2> QED
    BY <1>0, <2>1, <2>2, <2>3, <2>4, <2>5
    DEF TInv, CInv, QStep, HStep, ChainsMatch, WritesMatch
<1> QED
  BY <1>1, <1>2

-----------------------------------------------------------------------------
(* The application, the network, the timer and the server *)

\* What queueing one handler adds.
LEMMA PostsAdds ==
  ASSUME TInv, NEW task \in Tasks(created), Posts(task)
  PROVE  \A x : Queued(x)' <=> Queued(x) \/ x = task
<1>1. ready \in Seq(Tasks(created))
  BY DEF TInv, CInv, IInv, TypeOK
<1> QED
  BY <1>1, PostsKeeps

\* Handlers that have nothing to do with a transport.
LEMMA PlainPost ==
  ASSUME TInv, NEW task \in Tasks(created), Posts(task),
         task.op \notin ChainOps \cup {"writeFailed", "timer"},
         UNCHANGED <<state, transport, timer, created, chain, sock, fired, sent>>,
         Stopping => Stopping', IInv'
  PROVE  CInv'
<1>1. ready \in Seq(Tasks(created))
  BY DEF TInv, CInv, IInv, TypeOK
<1>2. task # Plain("timer")
  BY TaskFields
<1>3. QInv'
  BY <1>1, <1>2, PostsQueue DEF TInv, CInv, ChainOps
<1>4. /\ \A op, t : op \in ChainOps \cup {"writeFailed"} =>
           (Queued(ConnTask(op, t))' <=> Queued(ConnTask(op, t)))
      /\ \A t, m : Queued(MessageTask(t, m))' <=> Queued(MessageTask(t, m))
      /\ Queued(Plain("timer"))' <=> Queued(Plain("timer"))
  BY <1>2, PostsAdds, TaskFields DEF ChainOps
<1> QED
  BY <1>3, <1>4 DEF TInv, CInv, ChainsMatch, WritesMatch, SocketsMatch, FiredMatch,
     StateMatch, Past, ChainOps

LEMMA SilentCInv ==
  ASSUME TInv, IInv', Stopping => Stopping',
         UNCHANGED <<ready, state, transport, timer, created, chain, sock, fired, sent>>
  PROVE  CInv'
  BY DEF TInv, CInv, QInv, OneEach, TimerFirst, ChainsMatch, WritesMatch,
     SocketsMatch, FiredMatch, StateMatch, Past, Queued

LEMMA ApplicationCInv == ASSUME TInv, Application PROVE CInv'
<1> USE DEF ctxVars, lifeVars, connVars
<1>0. IInv'
  BY ApplicationIInv DEF TInv, CInv
<1>1. ASSUME NEW s \in Subs, Subscribe(s) \/ Unsubscribe(s) PROVE CInv'
  <2>1. PICK op \in {"subscribe", "unsubscribe"} : Posts(SubTask(op, s))
    BY <1>1 DEF Subscribe, Unsubscribe
  <2>2. SubTask(op, s) \in Tasks(created) /\ SubTask(op, s).op = op
    BY DEF SubTask, Tasks
  <2>3. UNCHANGED <<state, transport, timer, created, chain, sock, fired, sent, stopper>>
    BY <1>1 DEF Subscribe, Unsubscribe
  <2> QED
    BY <1>0, <2>1, <2>2, <2>3, PlainPost DEF ChainOps, Stopping
<1>2. CASE BeginStop \/ Release
  BY <1>0, <1>2, SilentCInv DEF BeginStop, Release, Stopping
<1>3. CASE PostStop
  <2>1. Plain("stop") \in Tasks(created) /\ Plain("stop").op = "stop"
    BY DEF Plain, Tasks
  <2> QED
    BY <1>0, <1>3, <2>1, PlainPost DEF PostStop, ChainOps, Stopping
<1> QED
  BY <1>1, <1>2, <1>3 DEF Application

\* A transport whose chain goes on to wait for its handler.
LEMMA ChainPost ==
  ASSUME TInv, IInv', NEW t \in Conns, NEW task \in Tasks(created), Posts(task),
         task.op \in ChainOps, task.conn = t,
         chain[t] \notin {"unused", "resolved", "connected", "failing", "delivered", "ended"},
         \/ /\ task \in {ConnTask("resolved", t), ConnTask("connected", t)}
            /\ chain' = [chain EXCEPT ![t] = task.op]
            /\ task.op = "resolved" <=> chain[t] = "resolving"
            /\ task.op = "connected" => chain[t] = "upgrading"
         \/ /\ task = ConnTask("failed", t) /\ chain' = [chain EXCEPT ![t] = "failing"]
            /\ chain[t] = "reading" => sock[t] = "closed"
         \/ /\ task.op = "message" /\ chain' = [chain EXCEPT ![t] = "delivered"]
            /\ chain[t] = "reading"
            /\ \E m : task = MessageTask(t, m),
         UNCHANGED <<state, transport, timer, created, sock, fired, sent, stopper>>
  PROVE  CInv'
<1>0. /\ ready \in Seq(Tasks(created)) /\ chain \in [Conns -> Chains]
      /\ created \in Nat
  BY BoundsAssumption DEF TInv, CInv, IInv, TypeOK
<1>1. ASSUME NEW x, Queued(x), x.op \in ChainOps PROVE x.conn # t
  <2>1. x \in Tasks(created)
    BY <1>0, <1>1 DEF Queued, ToSet
  <2>2. x.op \in ChainOps \ {"message"} => x = ConnTask(x.op, x.conn)
    BY <2>1, TaskShape
  <2>3. x.op = "message" => x = MessageTask(x.conn, x.msg)
    BY <2>1, TaskShape
  <2> QED
    BY <1>1, <2>2, <2>3 DEF TInv, CInv, ChainsMatch, ChainOps
<1>3. task # Plain("timer")
  BY TaskFields DEF ChainOps
<1>4. QInv'
  BY <1>0, <1>1, <1>3, PostsQueue DEF TInv, CInv
<1>5. /\ \A op, u : Queued(ConnTask(op, u))' =>
           Queued(ConnTask(op, u)) \/ task = ConnTask(op, u)
      /\ \A u, m : Queued(MessageTask(u, m))' =>
           Queued(MessageTask(u, m)) \/ task = MessageTask(u, m)
      /\ Queued(Plain("timer"))' <=> Queued(Plain("timer"))
  BY <1>3, PostsAdds
<1>6. ChainsMatch'
  <2> SUFFICES ASSUME NEW u \in Conns
               PROVE  /\ \A op \in {"resolved", "connected"} :
                           Queued(ConnTask(op, u))' => chain'[u] = op
                      /\ Queued(ConnTask("failed", u))' => chain'[u] = "failing"
                      /\ \A m : Queued(MessageTask(u, m))' => chain'[u] = "delivered"
    BY DEF ChainsMatch
  <2>1. CASE u # t
    <3>1. chain'[u] = chain[u]
      BY <1>0, <2>1
    <3> QED
      BY <1>5, <2>1, <3>1, TaskFields DEF TInv, CInv, ChainsMatch
  <2>2. CASE u = t
    <3>1. /\ \A op \in {"resolved", "connected", "failed"} : ~Queued(ConnTask(op, u))
          /\ \A m : ~Queued(MessageTask(u, m))
      BY <1>1, <2>2, TaskFields DEF ChainOps
    <3> QED
      BY <1>0, <1>5, <2>2, <3>1, TaskFields DEF ChainOps
  <2> QED
    BY <2>1, <2>2
<1>7. ASSUME NEW u \in Conns, Past(u) PROVE Past(u)'
  <2>1. CASE u # t
    BY <1>0, <1>7, <2>1 DEF Past
  <2>2. CASE u = t
    <3>1. chain[t] = "reading"
      BY <1>7, <2>2 DEF Past
    <3>2. task \notin {ConnTask("resolved", t), ConnTask("connected", t)}
      BY <3>1, TaskFields
    <3> QED
      BY <1>0, <2>2, <3>2 DEF Past
  <2> QED
    BY <2>1, <2>2
<1>8. \A u : Queued(ConnTask("writeFailed", u))' => Queued(ConnTask("writeFailed", u))
  BY <1>5, TaskFields DEF ChainOps
<1>9. WritesMatch'
  BY <1>7, <1>8 DEF TInv, CInv, WritesMatch
<1>10. ASSUME NEW u \in Conns, u # t PROVE chain'[u] = chain[u]
  BY <1>0, <1>10
<1>11. SocketsMatch'
  <2>1. ASSUME NEW u \in Conns
        PROVE  /\ chain'[u] \in {"unused", "resolving", "resolved"} => sock'[u] = "none"
               /\ chain'[u] \in {"connecting", "upgrading", "connected", "reading",
                                "delivered"} =>
                    sock'[u] # "none"
               /\ chain'[u] = "ended" => fired'[u]
    <3>1. CASE u # t
      BY <1>10, <3>1 DEF TInv, CInv, SocketsMatch
    <3>2. CASE u = t
      BY <1>0, <3>2, TaskFields DEF TInv, CInv, SocketsMatch, Chains
    <3> QED
      BY <3>1, <3>2
  <2>2. \A u \in Conns : sent'[u] # <<>> => Past(u)'
    BY <1>7 DEF TInv, CInv, SocketsMatch
  <2> QED
    BY <2>1, <2>2 DEF SocketsMatch
<1>12. FiredMatch'
  BY <1>7 DEF TInv, CInv, FiredMatch
<1>13. StateMatch'
  <2>1. ASSUME state' = "Connected"
        PROVE  /\ Past(transport)'
               /\ \/ (sock[transport] = "closed")'
                  \/ (chain[transport] \in {"reading", "delivered"})'
    <3>1. transport \in Conns /\ Past(transport)
      BY <2>1, BoundsAssumption
      DEF TInv, CInv, IInv, TransportMatchesState, TypeOK, None, Conns, StateMatch
    <3>2. Past(transport)'
      BY <1>7, <3>1
    <3>3. CASE transport # t
      BY <1>10, <2>1, <3>1, <3>2, <3>3 DEF TInv, CInv, StateMatch
    <3>4. CASE transport = t
      <4>1. chain[t] = "reading"
        BY <3>1, <3>4 DEF Past
      <4>2. sock[t] = "closed" \/ chain'[t] = "delivered"
        BY <1>0, <4>1, TaskFields
      <4> QED
        BY <3>2, <3>4, <4>2
    <3> QED
      BY <3>3, <3>4
  <2> QED
    BY <1>5, <2>1 DEF TInv, CInv, StateMatch, Stopping
<1> QED
  BY <1>4, <1>6, <1>9, <1>11, <1>12, <1>13 DEF TInv, CInv

\* The TCP connection of t breaks.
LEMMA DropsCInv ==
  ASSUME TInv, IInv', NEW t \in Conns, Drops(t) PROVE CInv'
<1> USE DEF ctxVars, lifeVars
<1>0. /\ ready \in Seq(Tasks(created)) /\ sent \in [Conns -> Seq(ClientMsgs)]
      /\ sock \in [Conns -> {"none", "open", "closed"}]
  BY DEF TInv, CInv, IInv, TypeOK
<1>1. /\ Open(t) /\ t \in 1..created
      /\ sock' = [sock EXCEPT ![t] = "closed"] /\ sent' = [sent EXCEPT ![t] = <<>>]
      /\ UNCHANGED <<state, transport, timer, created, chain, fired, stopper>>
  BY DEF Drops, Breaks, Open, TInv, CInv, IInv, TypeOK, Conns
<1>2. CASE UNCHANGED ready
  <2>1. \A x : Queued(x)' <=> Queued(x)
    BY <1>2 DEF Queued
  <2> QED
    BY <1>0, <1>1, <1>2, <2>1
    DEF TInv, CInv, QInv, OneEach, TimerFirst, ChainsMatch, WritesMatch,
        SocketsMatch, FiredMatch, StateMatch, Past, Open, Stopping
<1>3. CASE WriteOutstanding(t) /\ Posts(ConnTask("writeFailed", t))
  <2>0. sent[t] # <<>>
    BY <1>0, <1>3 DEF WriteOutstanding
  <2>1. /\ ConnTask("writeFailed", t) \in Tasks(created)
        /\ ConnTask("writeFailed", t) # Plain("timer")
    BY <1>1, TaskFields DEF ConnTask, Tasks
  <2>2. Past(t)
    BY <2>0 DEF TInv, CInv, SocketsMatch
  <2>3. \A x : Queued(x)' <=> Queued(x) \/ x = ConnTask("writeFailed", t)
    BY <1>3, <2>1, PostsAdds
  <2>4. QInv'
    <3>1. ConnTask("writeFailed", t).op = "writeFailed"
      BY TaskFields
    <3> QED
      BY <1>0, <1>3, <2>1, <3>1, PostsQueue DEF TInv, CInv, ChainOps
  <2>5. /\ \A op, u : op # "writeFailed" =>
             (Queued(ConnTask(op, u))' <=> Queued(ConnTask(op, u)))
        /\ \A u, m : Queued(MessageTask(u, m))' <=> Queued(MessageTask(u, m))
        /\ Queued(Plain("timer"))' <=> Queued(Plain("timer"))
        /\ \A u : Queued(ConnTask("writeFailed", u))' =>
             Queued(ConnTask("writeFailed", u)) \/ u = t
    BY <2>1, <2>3, TaskFields
  <2>6. ChainsMatch' /\ WritesMatch'
    BY <1>0, <1>1, <2>2, <2>5 DEF TInv, CInv, ChainsMatch, WritesMatch, Past
  <2>7. SocketsMatch' /\ FiredMatch' /\ StateMatch'
    BY <1>0, <1>1, <2>5 DEF TInv, CInv, SocketsMatch, FiredMatch, StateMatch, Past, Open,
       Stopping
  <2> QED
    BY <2>4, <2>6, <2>7 DEF TInv, CInv
<1> QED
  BY <1>2, <1>3 DEF Drops

\* The WebSocket upgrade of t begins.
LEMMA ConnectsCInv ==
  ASSUME TInv, IInv', NEW t \in Conns, Connects(t) PROVE CInv'
<1> USE DEF ctxVars, lifeVars
<1>1. /\ chain[t] = "connecting" /\ chain' = [chain EXCEPT ![t] = "upgrading"]
      /\ UNCHANGED <<ready, state, transport, timer, created, sock, fired, sent, stopper>>
  BY DEF Connects
<1>2. chain'[t] = "upgrading" /\ \A u \in Conns : u # t => chain'[u] = chain[u]
  BY <1>1 DEF TInv, CInv, IInv, TypeOK
<1>3. QInv'
  BY <1>1 DEF TInv, CInv, QInv, OneEach, TimerFirst
<1>4. \A x : Queued(x)' <=> Queued(x)
  BY <1>1 DEF Queued
<1>5. ChainsMatch'
  BY <1>1, <1>2, <1>4 DEF TInv, CInv, ChainsMatch
<1>6. \A u \in Conns : Past(u)' <=> Past(u)
  BY <1>1, <1>2 DEF Past
<1>7. WritesMatch' /\ FiredMatch'
  BY <1>1, <1>4, <1>6 DEF TInv, CInv, WritesMatch, FiredMatch
<1>8. SocketsMatch'
  BY <1>1, <1>2, <1>6 DEF TInv, CInv, SocketsMatch
<1>9. transport # None => transport \in Conns
  BY BoundsAssumption DEF TInv, CInv, IInv, TypeOK, None, Conns
<1>10. state = "Connected" => transport # None
  BY DEF TInv, CInv, IInv, TransportMatchesState
<1>11. StateMatch'
  BY <1>1, <1>2, <1>4, <1>6, <1>9, <1>10 DEF TInv, CInv, StateMatch, Stopping
<1> QED
  BY <1>3, <1>5, <1>7, <1>8, <1>11 DEF TInv, CInv

LEMMA EnvironmentCInv ==
  ASSUME ~LateTimer, TInv, Environment PROVE CInv'
<1> USE DEF ctxVars, lifeVars, connVars
<1>0. IInv' /\ created \in Nat /\ ready \in Seq(Tasks(created))
  BY EnvironmentIInv, BoundsAssumption DEF TInv, CInv, IInv, TypeOK
<1>1. CASE TimerExpires
  <2>1. /\ ready = <<>> /\ timer /\ ~timer' /\ Posts(Plain("timer"))
        /\ UNCHANGED <<state, transport, created, chain, sock, fired, sent, stopper>>
    BY <1>1 DEF TimerExpires
  <2>2. Plain("timer") \in Tasks(created)
    BY DEF Plain, Tasks
  <2>3. QInv'
    BY <1>0, <2>1, <2>2, TaskFields, PostsQueue DEF TInv, CInv, ChainOps
  <2>4. /\ \A op, u : op # "timer" => (Queued(ConnTask(op, u))' <=> Queued(ConnTask(op, u)))
        /\ \A u, m : Queued(MessageTask(u, m))' <=> Queued(MessageTask(u, m))
    BY <2>1, <2>2, PostsAdds, TaskFields
  <2> QED
    BY <1>0, <2>1, <2>3, <2>4 DEF TInv, CInv, ChainsMatch, WritesMatch, SocketsMatch,
       FiredMatch, StateMatch, Past, Stopping
<1>2. ASSUME NEW t \in Conns,
             NEW from \in {"resolving", "connecting", "upgrading", "reading"},
             NEW op \in {"resolved", "connected", "failed"},
             chain[t] = from, Posts(ConnTask(op, t)),
             chain' = [chain EXCEPT ![t] = IF op = "failed" THEN "failing" ELSE op],
             op = "resolved" <=> (from = "resolving" /\ op # "failed"),
             op = "connected" => from = "upgrading",
             from = "reading" => op = "failed" /\ sock[t] = "closed",
             UNCHANGED <<state, transport, timer, created, sock, fired, sent, stopper>>
      PROVE  CInv'
  <2>2. t \in 1..created
    BY <1>0, <1>2 DEF TInv, CInv, IInv, TypeOK, Conns
  <2>3. ConnTask(op, t) \in Tasks(created)
    BY <2>2 DEF ConnTask, Tasks
  <2> DEFINE task == ConnTask(op, t)
  <2>4. task.op = op /\ task.conn = t
    BY TaskFields
  <2>5. /\ task \in Tasks(created) /\ Posts(task) /\ task.op \in ChainOps
        /\ chain[t] \notin {"unused", "resolved", "connected", "failing", "delivered", "ended"}
    BY <1>2, <2>3, <2>4 DEF ChainOps
  <2>6. \/ /\ task \in {ConnTask("resolved", t), ConnTask("connected", t)}
           /\ chain' = [chain EXCEPT ![t] = task.op]
           /\ task.op = "resolved" <=> chain[t] = "resolving"
           /\ task.op = "connected" => chain[t] = "upgrading"
        \/ /\ task = ConnTask("failed", t) /\ chain' = [chain EXCEPT ![t] = "failing"]
           /\ chain[t] = "reading" => sock[t] = "closed"
    <3>1. CASE op = "failed"
      BY <1>2, <3>1
    <3>2. CASE op # "failed"
      BY <1>2, <2>4, <3>2
    <3> QED
      BY <3>1, <3>2
  <2>7. UNCHANGED <<state, transport, timer, created, sock, fired, sent, stopper>>
    BY <1>2
  <2> HIDE DEF task
  <2> QED
    BY <1>0, <2>4, <2>5, <2>6, <2>7, ChainPost
<1>3. ASSUME NEW t \in Conns, Resolves(t) \/ ResolveFails(t) PROVE CInv'
  BY <1>2, <1>3 DEF Resolves, ResolveFails, Ends
<1>4. ASSUME NEW t \in Conns, ConnectFails(t) \/ Upgrades(t) \/ UpgradeFails(t)
      PROVE  CInv'
  BY <1>2, <1>4 DEF ConnectFails, Upgrades, UpgradeFails, Ends
<1>5. ASSUME NEW t \in Conns, OperationAborts(t) PROVE CInv'
  BY <1>2, <1>5 DEF OperationAborts
<1>6. ASSUME NEW t \in Conns, Reads(t) PROVE CInv'
  <2> DEFINE task == MessageTask(t, Head(held[t]))
  <2>1. /\ chain[t] = "reading" /\ held[t] # <<>>
        /\ chain' = [chain EXCEPT ![t] = "delivered"] /\ Posts(task)
        /\ UNCHANGED <<state, transport, timer, created, sock, fired, sent, stopper>>
    BY <1>6 DEF Reads
  <2>2. t \in 1..created
    BY <1>0, <2>1 DEF TInv, CInv, IInv, TypeOK, Conns
  <2>3. Head(held[t]) \in ServerMsgs
    BY <2>1 DEF TInv, CInv, IInv, TypeOK
  <2>4. /\ task \in Tasks(created) /\ task.op = "message" /\ task.conn = t
        /\ task.op \in ChainOps /\ \E n : task = MessageTask(t, n)
    BY <2>2, <2>3 DEF MessageTask, Tasks, ChainOps
  <2> HIDE DEF task
  <2> QED
    BY <1>0, <2>1, <2>4, ChainPost
<1>7. ASSUME NEW t \in Conns, NEW m \in ServerMsgs, ServerSends(t, m)
      PROVE  CInv'
  BY <1>0, <1>7, SilentCInv DEF ServerSends, Stopping
<1> QED
  BY <1>0, <1>1, <1>3, <1>4, <1>5, <1>6, <1>7, DropsCInv, ConnectsCInv
  DEF Environment, Network

-----------------------------------------------------------------------------
(* What the server sent, and its acknowledgements *)

LEMMA AckType == Ack \in ServerMsgs
BY DEF Ack, Bare, ServerMsgs

\* Steps that have nothing to do with a transport.
LEMMA SilentHInv ==
  ASSUME TInv,
         UNCHANGED <<state, transport, chain, sock, fired, sent, acked, held>>,
         Queued(Plain("timer"))' => Queued(Plain("timer")),
         \A t \in Conns :
           /\ \A m \in ServerMsgs : Queued(MessageTask(t, m))' => Queued(MessageTask(t, m))
           /\ Queued(ConnTask("writeFailed", t))' => Queued(ConnTask("writeFailed", t))
  PROVE  HInv'
<1>1. \A t \in Conns, m \in ServerMsgs : Coming(t, m)' => Coming(t, m)
  BY DEF Coming
<1>2. HeldMatch' /\ TimerDrained'
  BY <1>1 DEF TInv, HInv, HeldMatch, TimerDrained
<1>3. AcksOnce'
  BY AckType DEF TInv, HInv, AcksOnce
<1>4. AcksFirst'
  BY <1>1, AckType DEF TInv, HInv, AcksFirst, AckAwaited, Said1
<1> QED
  BY <1>2, <1>3, <1>4 DEF HInv

LEMMA ApplicationHInv == ASSUME TInv, Application PROVE HInv'
<1> USE DEF ctxVars, lifeVars, connVars, serverVars
<1>0. ready \in Seq(Tasks(created)) /\ created \in Nat
  BY BoundsAssumption DEF TInv, CInv, IInv, TypeOK
<1>1. UNCHANGED <<state, transport, chain, sock, fired, sent, acked, held>>
  BY DEF Application, Subscribe, Unsubscribe, BeginStop, PostStop, Release
<1>2. \/ UNCHANGED ready
      \/ \E op \in {"subscribe", "unsubscribe"}, s \in Subs : Posts(SubTask(op, s))
      \/ Posts(Plain("stop"))
  BY DEF Application, Subscribe, Unsubscribe, BeginStop, PostStop, Release
<1> DEFINE Late(x) == \/ x = Plain("timer")
                      \/ \E t, m : x = MessageTask(t, m)
                      \/ \E t : x = ConnTask("writeFailed", t)
<1>3. ASSUME NEW x, Late(x), Queued(x)' PROVE Queued(x)
  <2>1. CASE UNCHANGED ready
    BY <1>3, <2>1 DEF Queued
  <2>2. ASSUME NEW task \in Tasks(created), Posts(task), x # task PROVE Queued(x)
    BY <1>3, <2>2, PostsAdds
  <2>3. ASSUME NEW op \in {"subscribe", "unsubscribe"}, NEW s \in Subs,
               Posts(SubTask(op, s))
        PROVE  Queued(x)
    <3>1. SubTask(op, s) \in Tasks(created)
      BY DEF SubTask, Tasks
    <3>2. x # SubTask(op, s)
      BY <1>3 DEF SubTask, Plain, MessageTask, ConnTask
    <3> QED
      BY <2>2, <2>3, <3>1, <3>2
  <2>4. CASE Posts(Plain("stop"))
    <3>1. Plain("stop") \in Tasks(created)
      BY DEF Plain, Tasks
    <3>2. x # Plain("stop")
      BY <1>3 DEF Plain, MessageTask, ConnTask
    <3> QED
      BY <2>2, <2>4, <3>1, <3>2
  <2> QED
    BY <1>2, <2>1, <2>3, <2>4
<1>4. /\ Queued(Plain("timer"))' => Queued(Plain("timer"))
      /\ \A t \in Conns :
           /\ \A m \in ServerMsgs : Queued(MessageTask(t, m))' => Queued(MessageTask(t, m))
           /\ Queued(ConnTask("writeFailed", t))' => Queued(ConnTask("writeFailed", t))
  BY <1>3
<1> QED
  BY <1>1, <1>4, SilentHInv

\* The timer's handler is only queued when there is nothing left to read.
LEMMA TimerHInv == ASSUME ~LateTimer, TInv, TimerExpires PROVE HInv'
<1>1. /\ ready = <<>> /\ Drained /\ timer /\ Posts(Plain("timer"))
      /\ UNCHANGED <<state, transport, chain, sock, fired, sent, acked, held>>
  BY DEF TimerExpires, lifeVars, connVars, serverVars
<1>2. Plain("timer") \in Tasks(created)
  BY DEF Plain, Tasks
<1>3. \A x : Queued(x)' <=> Queued(x) \/ x = Plain("timer")
  BY <1>1, <1>2, PostsAdds
<1>4. \A t \in Conns, m \in ServerMsgs : Coming(t, m)' => Coming(t, m)
  BY <1>1, <1>3, TaskFields DEF Coming
<1>5. \A t \in Conns : chain[t] \notin {"reading", "delivered"}
  <2> SUFFICES ASSUME NEW t \in Conns, t <= created
               PROVE  chain[t] \notin {"reading", "delivered"}
    BY BoundsAssumption DEF TInv, CInv, IInv, TypeOK, Conns
  <2>1. transport = None
    BY <1>1 DEF TInv, CInv, StateMatch, IInv, TransportMatchesState
  <2>2. t # transport
    BY <2>1 DEF None, Conns
  <2>3. sock[t] = "closed"
    BY <2>2 DEF TInv, CInv, FiredMatch
  <2> QED
    BY <1>1, <2>3 DEF Drained
<1>6. HeldMatch' /\ TimerDrained'
  BY <1>1, <1>4, <1>5 DEF TInv, HInv, HeldMatch, TimerDrained
<1>7. AcksOnce'
  BY <1>1, <1>3, TaskFields DEF TInv, HInv, AcksOnce
<1>8. AcksFirst'
  BY <1>1, <1>3, <1>4, AckType, TaskFields
  DEF TInv, HInv, AcksFirst, AckAwaited, Said1
<1> QED
  BY <1>6, <1>7, <1>8 DEF HInv

\* A transport that connects holds nothing yet, one that reads hands over what is
\* held, one that aborts holds nothing any more, and one that breaks in front of
\* its ack has no write outstanding.
LEMMA NetworkHInv == ASSUME TInv, CInv', NEW t \in Conns, Network(t) PROVE HInv'
<1> USE DEF ctxVars, lifeVars
<1>0. /\ chain \in [Conns -> Chains] /\ acked \in [Conns -> BOOLEAN]
      /\ sock \in [Conns -> {"none", "open", "closed"}]
      /\ sent \in [Conns -> Seq(ClientMsgs)] /\ held \in [Conns -> Seq(ServerMsgs)]
      /\ ready \in Seq(Tasks(created)) /\ created \in Nat
  BY BoundsAssumption DEF TInv, CInv, IInv, TypeOK
<1>1. \A u \in Conns, m \in ServerMsgs : Coming(u, m)' => Coming(u, m)
  BY ComingNetwork DEF TInv, CInv
<1>2. UNCHANGED <<state, transport, fired>>
  BY NetworkPosts DEF TInv, CInv
<1> DEFINE Early == chain[t] \in {"resolving", "connecting", "upgrading"}
<1> DEFINE Goes == /\ chain' = [chain EXCEPT ![t] = chain'[t]]
                   /\ chain'[t] \notin {"reading", "delivered"}
                   /\ UNCHANGED <<sock, sent, acked>>
<1>3. \/ Early /\ Goes /\ UNCHANGED held
      \/ Reads(t)
      \/ OperationAborts(t)
      \/ Drops(t)
  <2>1. ASSUME NEW from, NEW to, NEW op, Ends(t, from, to, op)
        PROVE  /\ chain[t] = from /\ chain' = [chain EXCEPT ![t] = to]
               /\ chain'[t] = to /\ UNCHANGED <<sock, sent, acked, held>>
    BY <1>0, <2>1 DEF Ends, serverVars
  <2>2. CASE Resolves(t) \/ ResolveFails(t)
    BY <2>1, <2>2 DEF Resolves, ResolveFails
  <2>3. CASE ConnectFails(t) \/ Upgrades(t) \/ UpgradeFails(t)
    BY <2>1, <2>3 DEF ConnectFails, Upgrades, UpgradeFails
  <2>4. CASE Connects(t)
    BY <1>0, <2>4 DEF Connects, serverVars
  <2> QED
    BY <2>2, <2>3, <2>4 DEF Network
<1>4. ASSUME OperationAborts(t), NEW m \in ServerMsgs PROVE ~Coming(t, m)'
  <2>1. held'[t] = <<>> /\ chain'[t] = "failing"
    BY <1>0, <1>4 DEF OperationAborts
  <2>2. ~Queued(MessageTask(t, m))'
    BY <2>1 DEF CInv, ChainsMatch
  <2> QED
    BY <2>1, <2>2 DEF Coming, ToSet
<1>5. ASSUME Early, NEW m \in ServerMsgs PROVE ~Coming(t, m)'
  BY <1>1, <1>5 DEF TInv, HInv, HeldMatch
<1>6. \A u \in Conns : u # t =>
        /\ chain'[u] = chain[u] /\ sock'[u] = sock[u] /\ sent'[u] = sent[u]
        /\ acked'[u] = acked[u] /\ held'[u] = held[u]
  BY <1>0, <1>3 DEF Reads, OperationAborts, Drops, Breaks
<1>7. chain[t] \in {"reading", "delivered"} =>
        chain'[t] \in {"reading", "delivered"} \/ OperationAborts(t)
  BY <1>0, <1>3 DEF Reads, Drops
<1>8. ASSUME ~Early, ~OperationAborts(t)
      PROVE  chain'[t] \in {"reading", "delivered"} \/ chain'[t] = chain[t]
  BY <1>0, <1>3, <1>8 DEF Reads, Drops
<1>9. HeldMatch'
  <2> SUFFICES ASSUME NEW u \in Conns, NEW m \in ServerMsgs, Coming(u, m)'
               PROVE  chain'[u] \in {"connected", "reading", "delivered"}
    BY DEF HeldMatch
  <2>1. chain[u] \in {"connected", "reading", "delivered"}
    BY <1>1 DEF TInv, HInv, HeldMatch
  <2>2. CASE u = t
    BY <1>4, <1>5, <1>8, <2>1, <2>2
  <2> QED
    BY <1>6, <2>1, <2>2
<1>10. Queued(Plain("timer"))' => Queued(Plain("timer"))
  <2>1. CASE UNCHANGED ready
    BY <2>1 DEF Queued
  <2>2. ASSUME NEW task, Posts(task), task # Plain("timer")
        PROVE  Queued(Plain("timer"))' => Queued(Plain("timer"))
    BY <1>0, <2>2 DEF Posts, Queued, ToSet
  <2>3. /\ \A op \in {"resolved", "connected", "failed", "writeFailed"} :
             ConnTask(op, t) # Plain("timer")
        /\ \A m : MessageTask(t, m) # Plain("timer")
    BY DEF ConnTask, MessageTask, Plain
  <2> QED
    BY <2>1, <2>2, <2>3, NetworkPosts DEF TInv, CInv
<1>11. TimerDrained'
  <2>1. chain'[t] \in {"reading", "delivered"} => chain[t] \in {"reading", "delivered"}
    BY <1>0, <1>3 DEF Reads, Drops, OperationAborts
  <2> QED
    BY <1>6, <1>10, <2>1 DEF TInv, HInv, TimerDrained
<1>12. AcksOnce'
  <2>1. CASE Reads(t)
    <3>1. /\ held[t] # <<>> /\ held' = [held EXCEPT ![t] = Tail(held[t])]
          /\ Posts(MessageTask(t, Head(held[t]))) /\ chain[t] = "reading"
      BY <2>1 DEF Reads
    <3>2. ~Queued(MessageTask(t, Ack))
      BY <3>1 DEF TInv, CInv, ChainsMatch
    <3>3. \A u : Queued(MessageTask(u, Ack))' =>
            Queued(MessageTask(u, Ack)) \/ (u = t /\ Head(held[t]) = Ack)
      <4>1. \A u : MessageTask(t, Head(held[t])) = MessageTask(u, Ack) =>
              u = t /\ Head(held[t]) = Ack
        BY DEF MessageTask
      <4> QED
        BY <1>0, <3>1, <4>1 DEF Posts, Queued, ToSet
    <3>4. /\ Len(held[t]) \in Nat /\ Len(Tail(held[t])) = Len(held[t]) - 1
          /\ Tail(held[t]) \in Seq(ServerMsgs)
          /\ \A i \in 1..(Len(held[t]) - 1) :
               i + 1 \in 1..Len(held[t]) /\ Tail(held[t])[i] = held[t][i+1]
          /\ 1 \in 1..Len(held[t]) /\ Head(held[t]) = held[t][1]
      BY <1>0, <3>1
    <3>5. \A i, j \in 1..Len(held[t]) : held[t][i] = Ack /\ held[t][j] = Ack => i = j
      BY DEF TInv, HInv, AcksOnce
    <3>6. \A i, j \in 1..Len(Tail(held[t])) :
            Tail(held[t])[i] = Ack /\ Tail(held[t])[j] = Ack => i = j
      <4> SUFFICES ASSUME NEW i \in 1..Len(Tail(held[t])), NEW j \in 1..Len(Tail(held[t])),
                          Tail(held[t])[i] = Ack, Tail(held[t])[j] = Ack
                   PROVE  i = j
        OBVIOUS
      <4>1. i + 1 = j + 1
        BY <3>4, <3>5
      <4> QED
        BY <4>1
    <3>7. Head(held[t]) = Ack => Ack \notin ToSet(Tail(held[t]))
      <4> SUFFICES ASSUME Head(held[t]) = Ack, NEW i \in 1..Len(Tail(held[t])),
                          Tail(held[t])[i] = Ack
                   PROVE  FALSE
        BY <3>4 DEF ToSet
      <4>1. i + 1 \in 1..Len(held[t]) /\ held[t][i+1] = Ack /\ i + 1 # 1
        BY <3>4
      <4> QED
        BY <3>4, <3>5, <4>1
    <3>8. held'[t] = Tail(held[t]) /\ \A u \in Conns : u # t => held'[u] = held[u]
      BY <1>0, <3>1
    <3>9. ASSUME NEW u \in Conns
          PROVE  /\ \A i, j \in 1..Len(held'[u]) :
                      held'[u][i] = Ack /\ held'[u][j] = Ack => i = j
                 /\ Queued(MessageTask(u, Ack))' => Ack \notin ToSet(held'[u])
      <4>1. CASE u = t
        <5>1. held'[u] = Tail(held[t])
          BY <3>8, <4>1
        <5>2. \A i, j \in 1..Len(held'[u]) : held'[u][i] = Ack /\ held'[u][j] = Ack => i = j
          BY <3>6, <5>1
        <5>3. Queued(MessageTask(u, Ack))' => Ack \notin ToSet(held'[u])
          BY <3>2, <3>3, <3>7, <4>1, <5>1
        <5> QED
          BY <5>2, <5>3
      <4>2. CASE u # t
        <5>1. held'[u] = held[u] /\ (Queued(MessageTask(u, Ack))' => Queued(MessageTask(u, Ack)))
          BY <3>3, <3>8, <4>2
        <5> QED
          BY <5>1 DEF TInv, HInv, AcksOnce
      <4> QED
        BY <4>1, <4>2
    <3> QED
      BY <3>9 DEF AcksOnce
  <2>2. CASE ~Reads(t)
    <3>1. \A u \in Conns : Queued(MessageTask(u, Ack))' => Queued(MessageTask(u, Ack))
      <4>1. \/ UNCHANGED ready
            \/ \E op \in {"resolved", "connected", "failed", "writeFailed"} :
                 Posts(ConnTask(op, t))
        BY <2>2 DEF Network, Resolves, ResolveFails, Connects, ConnectFails,
           Upgrades, UpgradeFails, OperationAborts, Drops, Ends
      <4>2. \A op, u : ConnTask(op, t) # MessageTask(u, Ack)
        BY DEF ConnTask, MessageTask
      <4>3. CASE UNCHANGED ready
        BY <4>3 DEF Queued
      <4>4. ASSUME NEW task, Posts(task), \A u : task # MessageTask(u, Ack)
            PROVE  \A u : Queued(MessageTask(u, Ack))' => Queued(MessageTask(u, Ack))
        BY <1>0, <4>4 DEF Posts, Queued, ToSet
      <4> QED
        BY <4>1, <4>2, <4>3, <4>4
    <3>2. \A u \in Conns : held'[u] = held[u] \/ held'[u] = <<>>
      BY <1>0, <1>3, <2>2 DEF OperationAborts, Drops
    <3>3. ASSUME NEW u \in Conns
          PROVE  /\ \A i, j \in 1..Len(held'[u]) :
                      held'[u][i] = Ack /\ held'[u][j] = Ack => i = j
                 /\ Queued(MessageTask(u, Ack))' => Ack \notin ToSet(held'[u])
      <4>1. CASE held'[u] = held[u]
        BY <3>1, <4>1 DEF TInv, HInv, AcksOnce
      <4>2. CASE held'[u] = <<>>
        BY <4>2 DEF ToSet
      <4> QED
        BY <3>2, <4>1, <4>2
    <3> QED
      BY <3>3 DEF AcksOnce
  <2> QED
    BY <2>1, <2>2
<1>13. ASSUME NEW u \in Conns, Coming(u, Ack)' PROVE AckAwaited(u)'
  <2>1. AckAwaited(u)
    BY <1>1, <1>13, AckType DEF TInv, HInv, AcksFirst
  <2>2. chain'[u] \in {"reading", "delivered"}
    BY <1>4, <1>6, <1>7, <1>13, <2>1, AckType DEF AckAwaited
  <2>3. Said1(u)'
    <3>1. CASE u = t /\ Drops(t)
      BY <1>0, <3>1 DEF Drops, Breaks, Said1
    <3>2. CASE ~(u = t /\ Drops(t))
      BY <1>3, <1>6, <2>1, <3>2 DEF AckAwaited, Said1, Reads, OperationAborts
    <3> QED
      BY <3>1, <3>2
  <2>4. ~Queued(ConnTask("writeFailed", u))'
    <3>1. CASE UNCHANGED ready
      BY <2>1, <3>1 DEF AckAwaited, Queued
    <3>2. ASSUME NEW task, Posts(task), task # ConnTask("writeFailed", u)
          PROVE  ~Queued(ConnTask("writeFailed", u))'
      BY <1>0, <2>1, <3>2 DEF AckAwaited, Posts, Queued, ToSet
    <3>3. CASE Drops(t)
      <4>1. CASE u = t
        <5>1. Open(t) /\ Said1(t)
          BY <2>1, <3>3, <4>1 DEF Drops, AckAwaited
        <5>2. ~WriteOutstanding(t)
          <6>1. acked[t] /\ Len(sent[t]) = 1
            BY <5>1 DEF Open, Said1
          <6> QED
            BY <6>1 DEF WriteOutstanding
        <5> QED
          BY <3>1, <3>3, <5>2 DEF Drops
      <4>2. CASE u # t
        <5>1. ConnTask("writeFailed", t) # ConnTask("writeFailed", u)
          BY <4>2 DEF ConnTask
        <5> QED
          BY <3>1, <3>2, <3>3, <5>1 DEF Drops
      <4> QED
        BY <4>1, <4>2
    <3>4. CASE ~Drops(t)
      <4>1. \/ UNCHANGED ready
            \/ \E op \in {"resolved", "connected", "failed"} : Posts(ConnTask(op, t))
            \/ \E m : Posts(MessageTask(t, m))
        BY <3>4 DEF Network, Resolves, ResolveFails, Connects, ConnectFails,
           Upgrades, UpgradeFails, Reads, OperationAborts, Ends
      <4>2. /\ \A op \in {"resolved", "connected", "failed"} :
                 ConnTask(op, t) # ConnTask("writeFailed", u)
            /\ \A m : MessageTask(t, m) # ConnTask("writeFailed", u)
        BY DEF ConnTask, MessageTask
      <4> QED
        BY <3>1, <3>2, <4>1, <4>2
    <3> QED
      BY <3>3, <3>4
  <2> QED
    BY <1>2, <2>1, <2>2, <2>3, <2>4 DEF AckAwaited
<1>14. ASSUME NEW u \in Conns
       PROVE  /\ ~acked'[u] => Len(sent'[u]) <= 1
              /\ u = transport' /\ state' = "Connected" =>
                   acked'[u] \/ (sent'[u] = <<>> /\ sock'[u] = "closed")
  <2>1. CASE u = t /\ Drops(t)
    BY <1>0, <2>1 DEF Drops, Breaks
  <2>2. CASE ~(u = t /\ Drops(t))
    <3>1. UNCHANGED <<sent[u], acked[u], sock[u]>>
      BY <1>3, <1>6, <2>2 DEF Reads, OperationAborts
    <3> QED
      BY <1>2, <3>1 DEF TInv, HInv, AcksFirst
  <2> QED
    BY <2>1, <2>2
<1> QED
  BY <1>9, <1>11, <1>12, <1>13, <1>14 DEF HInv, AcksFirst

\* The server acknowledges an open connection once, after connection_init.
LEMMA ServerHInv ==
  ASSUME TInv, NEW t \in Conns, NEW m \in ServerMsgs, ServerSends(t, m)
  PROVE  HInv'
<1> USE DEF ctxVars, lifeVars, connVars
<1>0. /\ acked \in [Conns -> BOOLEAN]
      /\ sent \in [Conns -> Seq(ClientMsgs)] /\ held \in [Conns -> Seq(ServerMsgs)]
      /\ sock \in [Conns -> {"none", "open", "closed"}] /\ created \in Nat
  BY BoundsAssumption DEF TInv, CInv, IInv, TypeOK
<1>1. /\ UNCHANGED <<ready, state, transport, chain, sock, fired, sent>>
      /\ acked' = [acked EXCEPT ![t] = acked[t] \/ m.type = "connection_ack"]
      /\ held' = [held EXCEPT ![t] = Append(held[t], m)]
      /\ Open(t) /\ ServerMay(t, m)
  BY DEF ServerSends
<1>2. \A x : Queued(x)' <=> Queued(x)
  BY <1>1 DEF Queued
<1>3. /\ held'[t] = Append(held[t], m) /\ ToSet(held'[t]) = ToSet(held[t]) \cup {m}
      /\ \A u \in Conns : u # t => held'[u] = held[u]
  BY <1>0, <1>1, AppendSet
<1>4. \A u \in Conns, n \in ServerMsgs :
        Coming(u, n)' => Coming(u, n) \/ (u = t /\ n = m)
  BY <1>2, <1>3 DEF Coming
<1>5. HeldMatch'
  BY <1>1, <1>4 DEF TInv, HInv, HeldMatch, Open
<1>6. TimerDrained'
  BY <1>1, <1>2 DEF TInv, HInv, TimerDrained
<1>7. m = Ack => m.type = "connection_ack"
  BY DEF Ack, Bare
<1>8. ASSUME m = Ack
      PROVE  ~acked[t] /\ sent[t] # <<>> /\ ~Coming(t, Ack) /\ Len(sent[t]) = 1
  <2>1. Bare("connection_init") \in ToSet(sent[t]) /\ ~acked[t]
    BY <1>1, <1>7, <1>8 DEF ServerMay
  <2>2. sent[t] # <<>>
    BY <2>1 DEF ToSet
  <2>3. ~Coming(t, Ack)
    BY <2>1, <2>2 DEF TInv, HInv, AcksFirst, AckAwaited, Said1
  <2>4. Len(sent[t]) = 1
    <3> DEFINE n == Len(sent[t])
    <3>1. n \in Nat /\ n # 0
      BY <1>0, <2>2
    <3>2. n <= 1
      BY <2>1 DEF TInv, HInv, AcksFirst
    <3> HIDE DEF n
    <3>3. n = 1
      BY <3>1, <3>2
    <3> QED
      BY <3>3 DEF n
  <2> QED
    BY <2>1, <2>2, <2>3, <2>4
<1>9. AcksOnce'
  <2>1. CASE m # Ack
    <3>1. \A i \in 1..Len(held'[t]) : held'[t][i] = Ack =>
            i \in 1..Len(held[t]) /\ held[t][i] = Ack
      BY <1>0, <1>3, <2>1
    <3>2. ASSUME NEW u \in Conns
          PROVE  /\ \A i, j \in 1..Len(held'[u]) :
                      held'[u][i] = Ack /\ held'[u][j] = Ack => i = j
                 /\ Queued(MessageTask(u, Ack))' => Ack \notin ToSet(held'[u])
      <4>1. CASE u = t
        <5>1. Queued(MessageTask(u, Ack))' => Ack \notin ToSet(held'[u])
          BY <1>2, <1>3, <2>1, <4>1 DEF TInv, HInv, AcksOnce
        <5>2. \A i, j \in 1..Len(held[t]) : held[t][i] = Ack /\ held[t][j] = Ack => i = j
          BY DEF TInv, HInv, AcksOnce
        <5>3. \A i, j \in 1..Len(held'[u]) : held'[u][i] = Ack /\ held'[u][j] = Ack => i = j
          BY <3>1, <4>1, <5>2
        <5> QED
          BY <5>1, <5>3
      <4>2. CASE u # t
        BY <1>2, <1>3, <4>2 DEF TInv, HInv, AcksOnce
      <4> QED
        BY <4>1, <4>2
    <3> QED
      BY <3>2 DEF AcksOnce
  <2>2. CASE m = Ack
    <3>1. Ack \notin ToSet(held[t]) /\ ~Queued(MessageTask(t, Ack))
      BY <1>8, <2>2 DEF Coming
    <3>2. \A i \in 1..Len(held[t]) : held[t][i] # Ack
      BY <1>0, <3>1 DEF ToSet
    <3>3. \A i \in 1..Len(held'[t]) : held'[t][i] = Ack => i = Len(held[t]) + 1
      BY <1>0, <1>3, <3>2
    <3> QED
      BY <1>2, <1>3, <3>1, <3>3 DEF TInv, HInv, AcksOnce
  <2> QED
    BY <2>1, <2>2
<1>10. acked'[t] = (acked[t] \/ m.type = "connection_ack")
       /\ \A u \in Conns : u # t => acked'[u] = acked[u]
  BY <1>0, <1>1
<1>11. ASSUME NEW u \in Conns, Coming(u, Ack)' PROVE AckAwaited(u)'
  <2>1. CASE Coming(u, Ack)
    <3>1. AckAwaited(u)
      BY <2>1 DEF TInv, HInv, AcksFirst
    <3> QED
      BY <1>1, <1>2, <1>10, <3>1 DEF AckAwaited, Said1
  <2>2. CASE u = t /\ m = Ack
    <3>1. sock[t] = "open" /\ ~fired[t] /\ ~Queued(ConnTask("writeFailed", t))
      BY <1>1 DEF Open, TInv, CInv, FiredMatch, WritesMatch
    <3>2. Past(t) /\ t <= created
      BY <1>0, <1>8, <2>2 DEF TInv, CInv, SocketsMatch, Past, IInv, TypeOK, Conns
    <3>3. chain[t] \in {"reading", "delivered"}
      BY <1>1, <3>2 DEF Past, Open
    <3>4. t = transport
      BY <3>1, <3>2 DEF TInv, CInv, FiredMatch
    <3>5. state \in {"Connecting", "Connected"}
      BY <3>4 DEF TInv, CInv, IInv, TransportMatchesState, None, Conns
    <3>6. state # "Connected"
      BY <1>8, <2>2, <3>4 DEF TInv, HInv, AcksFirst
    <3>7. acked'[t] /\ Len(sent'[t]) = 1
      BY <1>1, <1>7, <1>8, <1>10, <2>2
    <3> QED
      BY <1>1, <1>2, <2>2, <3>1, <3>3, <3>5, <3>6, <3>7 DEF AckAwaited, Said1
  <2> QED
    BY <1>4, <1>11, <2>1, <2>2, AckType
<1>12. \A u \in Conns : acked[u] => acked'[u]
  BY <1>10
<1>13. AcksFirst'
  BY <1>1, <1>11, <1>12 DEF TInv, HInv, AcksFirst
<1> QED
  BY <1>5, <1>6, <1>9, <1>13 DEF HInv

LEMMA OutsideHInv ==
  ASSUME ~LateTimer, TInv, CInv', Application \/ Environment PROVE HInv'
  BY ApplicationHInv, TimerHInv, NetworkHInv, ServerHInv DEF Environment

\* A chain that reads goes on to read when a handler runs.
LEMMA ReadersStay ==
  ASSUME TInv, AsioThread, ~DestroyInTerminalCallback, NEW t \in Conns
  PROVE  /\ chain[t] \in {"connected", "reading", "delivered"} =>
              chain'[t] \in {"connected", "reading", "delivered"}
         /\ chain[t] \in {"reading", "delivered"} => chain'[t] \in {"reading", "delivered"}
<1> USE DEF ctxVars, lifeVars, connVars
<1>0. chain \in [Conns -> Chains] /\ created \in Nat
  BY BoundsAssumption DEF TInv, CInv, IInv, TypeOK
<1>1. ASSUME NEW s \in Subs, RejectSubscribe(s) \/ OnUnsubscribe(s)
      PROVE  UNCHANGED chain
  BY <1>1 DEF RejectSubscribe, OnUnsubscribe
<1>2. RunStop \/ RunStopped => UNCHANGED chain
  BY DEF RunStop, RunStopped
<1>3. ConnectTransport => chain'[t] = chain[t] \/ chain[t] = "unused"
  BY <1>0 DEF ConnectTransport, TInv, CInv, IInv, TypeOK
<1>4. ASSUME NEW s \in Subs, OnSubscribe(s)
      PROVE  chain'[t] = chain[t] \/ chain[t] = "unused"
  BY <1>3, <1>4 DEF OnSubscribe
<1>5. OnTimer => chain'[t] = chain[t] \/ chain[t] = "unused"
  BY <1>3 DEF OnTimer
<1>6. ASSUME NEW op \in {"resolved", "connected", "failed"}, NEW u \in Conns,
             NEW out, Runs(ConnTask(op, u), out)
      PROVE  op = "failed" => chain[u] = "failing"
  <2>1. Queued(ConnTask(op, u))
    BY <1>6, HandlerQueue DEF QStep
  <2> QED
    BY <2>1 DEF TInv, CInv, ChainsMatch
<1>7. ASSUME NEW u \in Conns, OnFailed(u)
      PROVE  chain[u] = "failing" /\ chain' = [chain EXCEPT ![u] = "ended"]
  <2>1. \E out : Runs(ConnTask("failed", u), out)
    BY <1>7 DEF OnFailed, FireDisconnected, OnTransportDisconnected
  <2> QED
    BY <1>6, <1>7, <2>1 DEF OnFailed
<1>8. ASSUME NEW u \in Conns, OnResolved(u)
      PROVE  chain[u] = "resolved" /\ chain' = [chain EXCEPT ![u] = "connecting"]
  <2>1. Queued(ConnTask("resolved", u))
    BY <1>8, HandlerQueue DEF QStep, OnResolved
  <2> QED
    BY <1>8, <2>1 DEF TInv, CInv, ChainsMatch, OnResolved
<1>9. ASSUME NEW u \in Conns, OnTransportConnected(u) \/ Messages(u)
      PROVE  chain' = [chain EXCEPT ![u] = "reading"]
  BY <1>9 DEF OnTransportConnected, Messages, OnAck, OnPing, IgnoreMessage, OnNext,
     OnEnd, DestroyInOnNext, Receives
<1>10. ASSUME NEW u \in Conns, OnWriteFailed(u) PROVE UNCHANGED chain
  BY <1>10 DEF OnWriteFailed
<1>11. ASSUME NEW u \in Conns, Completions(u) \/ Messages(u)
       PROVE  /\ chain[t] \in {"connected", "reading", "delivered"} =>
                   chain'[t] \in {"connected", "reading", "delivered"}
              /\ chain[t] \in {"reading", "delivered"} =>
                   chain'[t] \in {"reading", "delivered"}
  BY <1>0, <1>7, <1>8, <1>9, <1>10, <1>11 DEF Completions
<1> QED
  BY <1>1, <1>2, <1>4, <1>5, <1>11 DEF AsioThread

\* An ack that is still to come is the current transport's, and its handlers do
\* not send.
LEMMA AckStillComes ==
  ASSUME TInv, AsioThread, ~DestroyInTerminalCallback, NEW t \in Conns,
         Coming(t, Ack)'
  PROVE  /\ Coming(t, Ack) /\ AckAwaited(t) /\ t = transport
         /\ ~Sending
         /\ \A u \in Conns : ~OnAck(u)
<1>1. Coming(t, Ack)
  BY ComingInside DEF TInv, CInv
<1>2. \A u \in Conns : Coming(u, Ack) => AckAwaited(u)
  BY DEF TInv, HInv, AcksFirst
<1>3. \A u \in Conns : u <= created /\ ~fired[u] => u = transport
  BY DEF TInv, CInv, FiredMatch
<1>4. \A u \in Conns : chain[u] # "unused" => u <= created
  BY BoundsAssumption DEF TInv, CInv, IInv, TypeOK, Conns
<1>5. AckAwaited(t) /\ t = transport
  BY <1>1, <1>2, <1>3, <1>4 DEF AckAwaited
<1>6. ASSUME NEW u \in Conns, OnAck(u) PROVE FALSE
  <2>1. QStep(MessageTask(u, Ack))
    BY <1>6, HandlerQueue DEF OnAck, Receives, Ack
  <2>2. Queued(MessageTask(u, Ack)) /\ ~Queued(MessageTask(u, Ack))'
    BY <2>1 DEF QStep, NoneWaits
  <2>3. u = t
    BY <1>2, <1>3, <1>4, <1>5, <2>2 DEF Coming, AckAwaited
  <2>4. Ack \notin ToSet(held'[u])
    BY <2>2, HandlersKeepHeld DEF TInv, HInv, AcksOnce
  <2> QED
    BY <2>2, <2>3, <2>4 DEF Coming
<1>7. ASSUME NEW u \in Conns, OnTransportConnected(u) PROVE FALSE
  <2>1. Queued(ConnTask("connected", u))
    BY <1>7, HandlerQueue DEF QStep, OnTransportConnected
  <2>2. chain[u] = "connected" /\ ~fired[u]
    BY <2>1 DEF TInv, CInv, ChainsMatch, FiredMatch, Past
  <2> QED
    BY <1>3, <1>4, <1>5, <2>2 DEF AckAwaited
<1>8. ~Sending
  BY <1>5, <1>6, <1>7 DEF Sending, AckAwaited
<1> QED
  BY <1>1, <1>5, <1>6, <1>8

\* What handlers do to the connection that waits for its ack.
LEMMA AckAwaitedStep ==
  ASSUME TInv, AsioThread, ~DestroyInTerminalCallback, NEW t \in Conns,
         AckAwaited(t), t = transport, ~Sending, \A u \in Conns : ~OnAck(u)
  PROVE  /\ state' = "Connecting" /\ ~fired'[t]
         /\ sent'[t] = sent[t] /\ acked'[t] = acked[t]
<1> USE DEF ctxVars, lifeVars, connVars, serverVars
<1>0. /\ fired \in [Conns -> BOOLEAN] /\ acked \in [Conns -> BOOLEAN]
      /\ sent \in [Conns -> Seq(ClientMsgs)] /\ created \in Nat
  BY BoundsAssumption DEF TInv, CInv, IInv, TypeOK
<1>1. /\ state = "Connecting" /\ ~fired[t] /\ chain[t] \in {"reading", "delivered"}
      /\ ~Queued(ConnTask("writeFailed", t))
  BY DEF AckAwaited
<1>2. ASSUME NEW s \in Subs, RejectSubscribe(s) \/ OnSubscribe(s) \/ OnUnsubscribe(s)
      PROVE  UNCHANGED <<state, fired, sent, acked>>
  BY <1>1, <1>2 DEF RejectSubscribe, OnSubscribe, OnUnsubscribe, SendsNow,
     TellsServer, GoIdle, Wire
<1>3. RunStop \/ RunStopped => UNCHANGED <<state, fired, sent, acked>>
  BY DEF RunStop, RunStopped
<1>4. ~OnTimer
  <2>1. OnTimer => Queued(Plain("timer"))
    BY HandlerQueue DEF QStep, OnTimer
  <2> QED
    BY <1>1, <2>1 DEF TInv, CInv, StateMatch
<1>5. ASSUME NEW u \in Conns, OnResolved(u) PROVE UNCHANGED <<state, fired, sent, acked>>
  BY <1>5 DEF OnResolved
<1>6. ASSUME NEW u \in Conns PROVE ~OnTransportConnected(u)
  BY <1>1 DEF Sending
<1>7. ASSUME NEW u \in Conns, NEW op \in {"failed", "writeFailed"},
             FireDisconnected(u, ConnTask(op, u))
      PROVE  u # t /\ state' = state /\ fired'[t] = fired[t]
  <2>1. \E out : Runs(ConnTask(op, u), out)
    BY <1>7 DEF FireDisconnected, OnTransportDisconnected
  <2>2. Queued(ConnTask(op, u))
    BY <2>1, HandlerQueue DEF QStep
  <2>3. u # t
    BY <1>1, <2>2 DEF TInv, CInv, ChainsMatch
  <2>4. u <= created
    BY <1>0, <2>2, UnusedTransport DEF Conns
  <2> QED
    BY <1>0, <1>7, <2>3, <2>4, FireFacts
<1>8. ASSUME NEW u \in Conns, OnFailed(u)
      PROVE  /\ state' = "Connecting" /\ ~fired'[t]
             /\ sent'[t] = sent[t] /\ acked'[t] = acked[t]
  <2>1. u # t /\ state' = state /\ fired'[t] = fired[t]
    BY <1>7, <1>8 DEF OnFailed
  <2> QED
    BY <1>0, <1>1, <1>8, <2>1 DEF OnFailed, Breaks
<1>9. ASSUME NEW u \in Conns, OnWriteFailed(u)
      PROVE  /\ state' = "Connecting" /\ ~fired'[t]
             /\ sent'[t] = sent[t] /\ acked'[t] = acked[t]
  <2>1. state' = state /\ fired'[t] = fired[t]
    BY <1>7, <1>9 DEF OnWriteFailed
  <2> QED
    BY <1>1, <1>9, <2>1 DEF OnWriteFailed
<1>10. ASSUME NEW u \in Conns, Messages(u) PROVE UNCHANGED <<state, fired, sent, acked>>
  <2>1. \E m \in ServerMsgs : IgnoreMessage(u, m)
    BY <1>1, <1>10 DEF Messages, OnPing, OnNext, OnEnd, DestroyInOnNext, Dispatches
  <2> QED
    BY <2>1 DEF IgnoreMessage
<1> QED
  BY <1>1, <1>2, <1>3, <1>4, <1>5, <1>6, <1>8, <1>9, <1>10 DEF AsioThread, Completions

\* What goes out: connection_init on a fresh connection, everything else on an
\* acknowledged one.
LEMMA SentStep ==
  ASSUME TInv, AsioThread, ~DestroyInTerminalCallback, NEW t \in Conns
  PROVE  \/ sent'[t] = <<>> /\ sock'[t] = "closed" /\ ~acked'[t]
         \/ /\ acked'[t] = acked[t]
            /\ \/ sent'[t] = sent[t]
               \/ Open(t) /\ acked[t]
               \/ Len(sent'[t]) = 1 /\ state' = "Connecting"
<1> USE DEF ctxVars, lifeVars, connVars, serverVars
<1>0. /\ acked \in [Conns -> BOOLEAN] /\ sent \in [Conns -> Seq(ClientMsgs)]
      /\ sock \in [Conns -> {"none", "open", "closed"}] /\ created \in Nat
  BY BoundsAssumption DEF TInv, CInv, IInv, TypeOK
<1>1. ASSUME NEW out, sent' = Wire(transport, out), Open(transport) => acked[transport],
             UNCHANGED acked
      PROVE  sent'[t] = sent[t] \/ (Open(t) /\ acked[t])
  BY <1>0, <1>1 DEF Wire
<1>2. state = "Connected" /\ Open(transport) => acked[transport]
  <2>1. state = "Connected" => transport \in Conns
    BY BoundsAssumption DEF TInv, CInv, IInv, TransportMatchesState, TypeOK, None, Conns
  <2> QED
    BY <2>1 DEF TInv, HInv, AcksFirst, Open
<1>3. ASSUME NEW s \in Subs, RejectSubscribe(s) PROVE UNCHANGED <<sent, acked>>
  BY <1>3 DEF RejectSubscribe
<1>4. ASSUME NEW s \in Subs, OnSubscribe(s) \/ OnUnsubscribe(s)
      PROVE  acked' = acked /\ (sent'[t] = sent[t] \/ (Open(t) /\ acked[t]))
  <2>1. PICK out : sent' = Wire(transport, out) /\ (out # <<>> => state = "Connected")
    BY <1>4 DEF OnSubscribe, OnUnsubscribe, SendsNow, TellsServer
  <2>2. acked' = acked
    BY <1>4 DEF OnSubscribe, OnUnsubscribe
  <2>3. CASE out = <<>>
    BY <2>1, <2>2, <2>3 DEF Wire
  <2>4. CASE out # <<>>
    BY <1>1, <1>2, <2>1, <2>2, <2>4
  <2> QED
    BY <2>2, <2>3, <2>4
<1>5. RunStop \/ RunStopped \/ OnTimer => UNCHANGED <<sent, acked>>
  BY DEF RunStop, RunStopped, OnTimer
<1>6. ASSUME NEW u \in Conns, OnResolved(u) \/ OnWriteFailed(u)
      PROVE  UNCHANGED <<sent, acked>>
  BY <1>6 DEF OnResolved, OnWriteFailed
<1>7. ASSUME NEW u \in Conns, OnFailed(u)
      PROVE  \/ sent'[t] = <<>> /\ sock'[t] = "closed" /\ ~acked'[t]
             \/ acked'[t] = acked[t] /\ sent'[t] = sent[t]
  BY <1>0, <1>7 DEF OnFailed, Breaks
<1>8. ASSUME NEW u \in Conns, OnTransportConnected(u)
      PROVE  /\ acked' = acked
             /\ sent'[t] = sent[t] \/ (Len(sent'[t]) = 1 /\ state' = "Connecting")
  <2>1. Queued(ConnTask("connected", u))
    BY <1>8, HandlerQueue DEF QStep, OnTransportConnected
  <2>2. chain[u] = "connected" /\ ~fired[u] /\ sent[u] = <<>>
    BY <2>1 DEF TInv, CInv, ChainsMatch, FiredMatch, SocketsMatch, Past
  <2>3. u = transport
    BY <2>2, BoundsAssumption DEF TInv, CInv, IInv, TypeOK, FiredMatch, Conns
  <2>4. acked' = acked /\ state' = state
    BY <1>8 DEF OnTransportConnected
  <2>5. CASE sent' = sent
    BY <2>4, <2>5
  <2>6. CASE sent' # sent
    <3>1. /\ state = "Connecting"
          /\ sent' = [sent EXCEPT ![u] = sent[u] \o <<Bare("connection_init")>>]
      BY <1>8, <2>3, <2>6 DEF OnTransportConnected, Wire
    <3>2. sent[u] \o <<Bare("connection_init")>> = <<Bare("connection_init")>>
      BY <2>2
    <3>3. t = u => Len(sent'[t]) = 1
      BY <1>0, <3>1, <3>2
    <3> QED
      BY <1>0, <2>4, <3>1, <3>3
  <2> QED
    BY <2>5, <2>6
<1>9. ASSUME NEW u \in Conns, OnAck(u)
      PROVE  acked' = acked /\ (sent'[t] = sent[t] \/ (Open(t) /\ acked[t]))
  <2>1. Queued(MessageTask(u, Ack))
    BY <1>9, HandlerQueue DEF QStep, OnAck, Receives, Ack
  <2>2. AckAwaited(u)
    BY <2>1 DEF TInv, HInv, AcksFirst, Coming
  <2>3. u = transport
    BY <2>2, BoundsAssumption DEF AckAwaited, TInv, CInv, IInv, TypeOK, FiredMatch, Conns
  <2>4. Open(transport) => acked[transport]
    BY <2>2, <2>3 DEF AckAwaited, Said1, Open
  <2>5. \E out : sent' = Wire(transport, out)
    BY <1>9 DEF OnAck
  <2>6. acked' = acked
    BY <1>9 DEF OnAck
  <2> QED
    BY <1>1, <2>4, <2>5, <2>6
<1>10. ASSUME NEW u \in Conns, Messages(u), ~OnAck(u) PROVE UNCHANGED <<sent, acked>>
  BY <1>10 DEF Messages, OnPing, OnNext, OnEnd, DestroyInOnNext, IgnoreMessage
<1> QED
  BY <1>3, <1>4, <1>5, <1>6, <1>7, <1>8, <1>9, <1>10 DEF AsioThread, Completions

\* A handler that finds or makes the context Connected has its ack.
LEMMA ConnectedBefore ==
  ASSUME TInv, AsioThread, ~DestroyInTerminalCallback, NEW t \in Conns,
         t = transport', state' = "Connected"
  PROVE  acked[t] \/ (sent[t] = <<>> /\ sock[t] = "closed")
<1> USE DEF ctxVars, lifeVars, connVars
<1>1. CASE state = "Connected" /\ transport' = transport
  BY <1>1 DEF TInv, HInv, AcksFirst
<1>2. ASSUME NEW u \in Conns, OnAck(u)
      PROVE  acked[t] \/ (sent[t] = <<>> /\ sock[t] = "closed")
  <2>1. Queued(MessageTask(u, Ack))
    BY <1>2, HandlerQueue DEF QStep, OnAck, Receives, Ack
  <2>2. AckAwaited(u)
    BY <2>1 DEF TInv, HInv, AcksFirst, Coming
  <2>3. u = transport /\ transport' = transport
    BY <1>2, <2>2, BoundsAssumption
    DEF OnAck, AckAwaited, TInv, CInv, IInv, TypeOK, FiredMatch, Conns
  <2> QED
    BY <2>2, <2>3 DEF AckAwaited, Said1
<1>3. ASSUME NEW u \in Conns, OnFailed(u) \/ OnWriteFailed(u)
      PROVE  state = "Connected" /\ transport' = transport
  <2>1. PICK op \in {"failed", "writeFailed"} : FireDisconnected(u, ConnTask(op, u))
    BY <1>3 DEF OnFailed, OnWriteFailed
  <2>2. \E out : Runs(ConnTask(op, u), out)
    BY <2>1 DEF FireDisconnected, OnTransportDisconnected
  <2>3. Queued(ConnTask(op, u))
    BY <2>2, HandlerQueue DEF QStep
  <2>4. u <= created
    BY <2>3, UnusedTransport, BoundsAssumption DEF TInv, CInv, IInv, TypeOK, Conns
  <2> QED
    BY <2>1, <2>4, FireFacts
<1>4. ASSUME NEW u \in Conns, OnResolved(u) \/ OnTransportConnected(u)
      PROVE  state = "Connected" /\ transport' = transport
  BY <1>4 DEF OnResolved, OnTransportConnected
<1>5. ASSUME NEW u \in Conns, Messages(u), ~OnAck(u)
      PROVE  state = "Connected" /\ transport' = transport
  BY <1>5 DEF Messages, OnPing, OnNext, OnEnd, DestroyInOnNext, IgnoreMessage
<1>6. ASSUME NEW s \in Subs, RejectSubscribe(s) \/ OnSubscribe(s) \/ OnUnsubscribe(s)
      PROVE  state = "Connected" /\ transport' = transport
  BY <1>6 DEF RejectSubscribe, OnSubscribe, OnUnsubscribe, GoIdle
<1>7. RunStop \/ RunStopped \/ OnTimer => state = "Connected" /\ transport' = transport
  BY DEF RunStop, RunStopped, OnTimer
<1> QED
  BY <1>1, <1>2, <1>3, <1>4, <1>5, <1>6, <1>7 DEF AsioThread, Completions

LEMMA AsioHInv == ASSUME TInv, AsioThread PROVE HInv'
<1>1. UNCHANGED held
  BY HandlersKeepHeld
<1>2. CASE DestroyInTerminalCallback
  <2>1. UNCHANGED <<ready, state, transport, chain, sock, fired, sent, acked, held>>
    BY <1>2 DEF DestroyInTerminalCallback, ctxVars, connVars, serverVars
  <2> QED
    BY <2>1, SilentHInv DEF Queued
<1>3. CASE ~DestroyInTerminalCallback
  <2>1. PICK task : QStep(task)
    <3>1. PICK task, posts : Appends(task, posts)
      BY <1>3, AsioAppends DEF TInv, CInv
    <3> QED
      BY <1>3, <3>1, HandlerQueue DEF Appends
  <2>2. \A t \in Conns, m \in ServerMsgs : Coming(t, m)' => Coming(t, m)
    BY ComingInside DEF TInv, CInv
  <2>3. HeldMatch'
    BY <1>3, <2>2, ReadersStay DEF TInv, HInv, HeldMatch
  <2>4. TimerDrained'
    BY <2>1 DEF QStep, TimerDrained
  <2>5. AcksOnce'
    BY <1>1, <2>1 DEF QStep, TInv, HInv, AcksOnce
  <2>6. HStep
    BY <1>3, SubscriptionHStep, StopHStep, CompletionHStep, MessageHStep
    DEF AsioThread
  <2>7. \A t \in Conns : sock[t] = "closed" => sock'[t] = "closed"
    BY <2>6 DEF HStep, ChainStep, Kept
  <2>8. ASSUME NEW t \in Conns, Coming(t, Ack)' PROVE AckAwaited(t)'
    <3>1. /\ AckAwaited(t) /\ t = transport /\ ~Sending
          /\ \A u \in Conns : ~OnAck(u)
      BY <1>3, <2>8, AckStillComes
    <3>2. /\ state' = "Connecting" /\ ~fired'[t]
          /\ sent'[t] = sent[t] /\ acked'[t] = acked[t]
      BY <1>3, <3>1, AckAwaitedStep
    <3>3. chain'[t] \in {"reading", "delivered"}
      BY <1>3, <3>1, ReadersStay DEF AckAwaited
    <3>4. ~Queued(ConnTask("writeFailed", t))'
      BY <2>1, <3>1 DEF QStep, AckAwaited
    <3> QED
      BY <2>7, <3>1, <3>2, <3>3, <3>4 DEF AckAwaited, Said1
  <2>9. ASSUME NEW t \in Conns, ~acked'[t] PROVE Len(sent'[t]) <= 1
    <3>1. CASE sent'[t] = <<>>
      BY <3>1
    <3>2. CASE acked'[t] = acked[t] /\ sent'[t] = sent[t]
      BY <2>9, <3>2 DEF TInv, HInv, AcksFirst
    <3>3. CASE Len(sent'[t]) = 1
      BY <3>3
    <3>4. \/ sent'[t] = <<>>
          \/ acked'[t] = acked[t] /\ sent'[t] = sent[t]
          \/ Len(sent'[t]) = 1
      BY <1>3, <2>9, SentStep
    <3> QED
      BY <3>1, <3>2, <3>3, <3>4
  <2>10. ASSUME NEW t \in Conns, t = transport', state' = "Connected"
         PROVE  acked'[t] \/ (sent'[t] = <<>> /\ sock'[t] = "closed")
    <3>1. CASE sent'[t] = <<>> /\ sock'[t] = "closed"
      BY <3>1
    <3>2. CASE /\ acked'[t] = acked[t]
               /\ sent'[t] = sent[t] \/ (Open(t) /\ acked[t])
      <4>1. acked[t] \/ (sent[t] = <<>> /\ sock[t] = "closed")
        BY <1>3, <2>10, ConnectedBefore
      <4> QED
        BY <2>7, <3>2, <4>1 DEF Open
    <3> QED
      BY <1>3, <2>10, <3>1, <3>2, SentStep
  <2> QED
    BY <2>3, <2>4, <2>5, <2>8, <2>9, <2>10 DEF HInv, AcksFirst
<1> QED
  BY <1>2, <1>3

LEMMA TimelyInvariant ==
  ASSUME ~LateTimer PROVE Spec => []TInv
<1>1. TInv /\ [Next]_vars => TInv'
  <2> SUFFICES ASSUME TInv, [Next]_vars PROVE TInv'
    OBVIOUS
  <2>1. CASE UNCHANGED vars
    <3>1. IInv'
      BY NextIInv DEF TInv, CInv
    <3>2. /\ UNCHANGED <<ready, state, transport, timer, created, chain, sock, fired,
                         sent, acked, held, stopper>>
      BY <2>1 DEF vars, ctxVars, lifeVars, connVars, serverVars
    <3>3. CInv'
      BY <3>1, <3>2, SilentCInv DEF Stopping
    <3>4. HInv'
      BY <3>2, SilentHInv DEF Queued
    <3> QED
      BY <3>3, <3>4 DEF TInv
  <2>2. CASE Application \/ Environment
    BY <2>2, ApplicationCInv, EnvironmentCInv, OutsideHInv DEF TInv
  <2>3. CASE AsioThread
    BY <2>3, AsioCInv, AsioHInv DEF TInv
  <2> QED
    BY <2>1, <2>2, <2>3 DEF Next
<1> QED
  BY <1>1, InitTInv, PTL DEF Spec

-----------------------------------------------------------------------------
(* What follows *)

\* Only the current transport has an open socket: every other one has reported
\* its end, and the first report closed it.
LEMMA OnlyCurrentOpen ==
  ASSUME TInv, NEW t \in Conns, sock[t] = "open"
  PROVE  t = transport
<1>1. t <= created
  BY BoundsAssumption DEF TInv, CInv, IInv, TypeOK, SocketsMatch, Conns
<1> QED
  BY <1>1 DEF TInv, CInv, FiredMatch

\* A link has one connection at a time, however often it reconnects and whatever
\* its transports still have to report.
THEOREM OneConnection ==
  ASSUME ~LateTimer PROVE Spec => []SingleConnection
<1>1. TInv => SingleConnection
  <2> SUFFICES ASSUME TInv PROVE SingleConnection
    OBVIOUS
  <2> DEFINE opened == {t \in Conns : sock[t] = "open"}
  <2>1. opened \subseteq {transport}
    BY OnlyCurrentOpen
  <2>2. IsFiniteSet({transport}) /\ Cardinality({transport}) = 1
    BY FS_Singleton
  <2>3. Cardinality(opened) <= 1
    BY <2>1, <2>2, FS_Subset
  <2> QED
    BY <2>3 DEF SingleConnection
<1> QED
  BY <1>1, TimelyInvariant, PTL

\* The link never sends on a transport that has not connected yet or that has
\* reported its end.
THEOREM LinkSendsInTime ==
  ASSUME ~LateTimer PROVE Spec => []SendsAreTimely
<1>1. TInv => SendsAreTimely
  <2> SUFFICES ASSUME TInv PROVE SendsAreTimely
    OBVIOUS
  <2>1. ASSUME state = "Connected"
        PROVE  /\ chain[transport] \in {"reading", "delivered", "failing", "ended"}
               /\ fired[transport] \/ chain[transport] = "ended" => Stopping
    <3>1. transport \in Conns /\ transport # None
      BY <2>1, BoundsAssumption
      DEF TInv, CInv, IInv, TransportMatchesState, TypeOK, None, Conns
    <3> QED
      BY <2>1, <3>1 DEF TInv, CInv, StateMatch, SocketsMatch, Past
  <2>2. ASSUME NEW t \in Conns, ready # <<>>, Head(ready) = ConnTask("connected", t)
        PROVE  t = transport
    <3>1. Queued(ConnTask("connected", t))
      BY <2>2 DEF Queued, ToSet, TInv, CInv, IInv, TypeOK
    <3>2. chain[t] = "connected"
      BY <3>1 DEF TInv, CInv, ChainsMatch
    <3>3. ~fired[t]
      BY <3>2 DEF TInv, CInv, FiredMatch, Past
    <3>4. t <= created
      BY <3>2, BoundsAssumption DEF TInv, CInv, IInv, TypeOK, Conns
    <3> QED
      BY <3>3, <3>4 DEF TInv, CInv, FiredMatch
  <2> QED
    BY <2>1, <2>2 DEF SendsAreTimely
<1> QED
  BY <1>1, TimelyInvariant, PTL

\* ~WsLink leaves no socket open: the only open one is the current transport's,
\* which StopOnContext closes.
THEOREM StopLeavesNothingOpen ==
  ASSUME ~LateTimer PROVE Spec => StopClosesSockets
<1>1. TInv /\ Settled /\ [Next]_vars =>
        [ stopper \notin {"ran", "returned"} /\ stopper' \in {"ran", "returned"}
            /\ ~dangling' => \A t \in Conns : sock'[t] # "open" ]_vars
  <2> SUFFICES ASSUME TInv, Settled, [Next]_vars,
                      stopper \notin {"ran", "returned"},
                      stopper' \in {"ran", "returned"}, ~dangling',
                      NEW t \in Conns
               PROVE  sock'[t] # "open"
    OBVIOUS
  <2> USE DEF ctxVars, lifeVars, connVars
  <2>1. CASE StopOnContext
    BY <2>1, OnlyCurrentOpen DEF StopOnContext, CloseTransport
  <2>2. ~RunStopped
    <3>1. RunStopped => Queued(Plain("stopped"))
      BY DEF RunStopped, Runs, Queued, ToSet, TInv, CInv, IInv, TypeOK
    <3> QED
      BY <3>1 DEF Settled
  <2>3. ~UNCHANGED stopper
    OBVIOUS
  <2>4. ~Application
    BY DEF Application, Subscribe, Unsubscribe, BeginStop, PostStop, Release
  <2>5. ~Environment
    BY <2>3 DEF Environment, TimerExpires, Network, Resolves, ResolveFails,
       Connects, ConnectFails, Upgrades, UpgradeFails, Reads, OperationAborts,
       Drops, Ends, ServerSends
  <2>6. ~UNCHANGED vars
    BY <2>3 DEF vars
  <2>7. ~DestroyInTerminalCallback
    BY DEF DestroyInTerminalCallback
  <2>8. ASSUME NEW s \in Subs PROVE ~(RejectSubscribe(s) \/ OnSubscribe(s) \/ OnUnsubscribe(s))
    BY <2>3 DEF RejectSubscribe, OnSubscribe, OnUnsubscribe
  <2>9. ~OnTimer
    BY <2>3 DEF OnTimer
  <2>10. ASSUME NEW u \in Conns PROVE ~Completions(u)
    BY <2>3 DEF Completions, OnResolved, OnTransportConnected, OnFailed,
       OnWriteFailed, FireDisconnected
  <2>11. ASSUME NEW u \in Conns, Messages(u) PROVE StopOnContext
    BY <2>3, <2>11 DEF Messages, OnAck, OnPing, IgnoreMessage, OnNext, OnEnd,
       DestroyInOnNext
  <2>12. RunStop => StopOnContext
    BY DEF RunStop
  <2> QED
    BY <2>1, <2>2, <2>4, <2>5, <2>6, <2>7, <2>8, <2>9, <2>10, <2>11, <2>12
    DEF Next, AsioThread
<1> QED
  BY <1>1, TimelyInvariant, AlwaysSettled, PTL DEF Spec, StopClosesSockets

-----------------------------------------------------------------------------
(* What goes over each connection: the invariant *)

\* The one Subscribe of s has been handled.
Started(s) == observer[s] # "new" /\ ~Queued(SubTask("subscribe", s))

SubscribeOnce ==
  \A s \in Subs : \A i, j \in 1..Len(ready) :
    ready[i] = SubTask("subscribe", s) /\ ready[j] = SubTask("subscribe", s) => i = j

\* Whoever the context, a connection or a message knows has been subscribed.
OnlyStarted ==
  \A s \in Subs :
    /\ observer[s] = "new" => ~Queued(SubTask("subscribe", s))
    /\ s \in subs => Started(s)
    /\ \A t \in Conns :
         /\ s \in SubscribedOn(t) => Started(s)
         /\ \A m \in ServerMsgs :
              m.id = s /\ Coming(t, m) => Started(s)

\* WireProtocol on one connection, which is also never acknowledged before
\* something was sent on it.
Wired(t) ==
  /\ \A i, j \in DOMAIN sent[t] :
       /\ sent[t][i].type = "connection_init" <=> i = 1
       /\ sent[t][i].type = "subscribe" => acked[t]
       /\ sent[t][i].type = "subscribe" /\ sent[t][i] = sent[t][j] => i = j
  /\ acked[t] => sent[t] # <<>>

\* An event comes on the connection of a Connected context; on an older one it
\* is for a subscription that is gone, unless the context has yet to reconnect.
EventsMatch ==
  \A t \in Conns :
    /\ t = transport /\ state = "Connecting" => SubscribedOn(t) = {}
    /\ \A m \in ServerMsgs : m.id \in Subs /\ Coming(t, m) =>
         /\ t = transport => state = "Connected"
         /\ t # transport /\ m.id \in subs => state = "Reconnecting"

ReleasedLast == ~alive => Stopping

PInv == /\ SubscribeOnce /\ OnlyStarted
        /\ \A t \in Conns : Wired(t)
        /\ EventsMatch /\ ReleasedLast /\ AllSubscribed /\ NoOrphanOperation

LEMMA InitPInv == Init => PInv
<1> SUFFICES ASSUME Init PROVE PInv
  OBVIOUS
<1>1. (\A x : ~Queued(x)) /\ \A t \in Conns : \A m : ~Coming(t, m)
  BY DEF Init, Queued, Coming, ToSet
<1>2. \A t \in Conns : SubscribedOn(t) = {} /\ ~Open(t)
  BY DEF Init, SubscribedOn, Open, ToSet
<1>3. SubscribeOnce /\ OnlyStarted /\ ReleasedLast
  BY <1>1, <1>2 DEF Init, SubscribeOnce, OnlyStarted, ReleasedLast
<1>4. \A t \in Conns : Wired(t)
  BY DEF Init, Wired
<1>5. EventsMatch /\ AllSubscribed /\ NoOrphanOperation
  BY <1>1, <1>2 DEF Init, EventsMatch, AllSubscribed, NoOrphanOperation
<1> QED
  BY <1>3, <1>4, <1>5 DEF PInv

-----------------------------------------------------------------------------
(* What a step does to the connections *)

\* What the context sends after the ack: each subscribe once on a connection, of
\* a member of _subs.
Operations(t, out) ==
  /\ out \in Seq(ClientMsgs)
  /\ \A i \in 1..Len(out) : out[i].type \in {"subscribe", "complete"}
  /\ \A i, j \in 1..Len(out) : out[i].type = "subscribe" /\ out[i] = out[j] => i = j
  /\ \A s \in Subs : Msg("subscribe", s) \in ToSet(out) =>
       s \in subs' /\ s \notin SubscribedOn(t)

Keeps(t) == sent'[t] = sent[t] /\ (acked'[t] = acked[t] \/ (acked'[t] /\ sent[t] # <<>>))
Forgets(t) == sent'[t] = <<>> /\ ~acked'[t] /\ sock'[t] = "closed"
Inits(t) == sent[t] = <<>> /\ acked'[t] = acked[t]
            /\ sent'[t] = <<Bare("connection_init")>>
Adds(t) == /\ t = transport /\ acked[t] /\ acked'[t] /\ state' = "Connected"
           /\ \E out : sent'[t] = sent[t] \o out /\ Operations(t, out)

\* No connection comes back, and what the server ended stays ended while it is up.
Ages(t) ==
  /\ sock'[t] = "open" => sock[t] = "open" \/ chain[t] = "resolved"
  /\ chain[t] \in {"failing", "ended"} => chain'[t] \in {"failing", "ended"}
  /\ over[t] \subseteq over'[t] \/ sock'[t] = "closed"

ConnStep(t) == (Keeps(t) \/ Forgets(t) \/ Inits(t) \/ Adds(t)) /\ Ages(t)

Stays == UNCHANGED <<state, transport>>
Starts == /\ transport = None /\ transport' = created + 1 /\ state' = "Connecting"
          /\ state = "Idle" \/ Queued(Plain("timer"))
Acks == /\ state = "Connecting" /\ state' = "Connected" /\ UNCHANGED <<transport, subs>>
        /\ sock'[transport] = "open" => acked[transport]
        /\ Open(transport)' => subs \subseteq SubscribedOn(transport)'
Loses == transport' = None /\ state' \in {"Idle", "Reconnecting"}

Moves == (\A t \in Conns : ConnStep(t)) /\ (Stays \/ Starts \/ Acks \/ Loses)

LEMMA WiredNext ==
  ASSUME TInv, NEW t \in Conns, Wired(t), ConnStep(t)
  PROVE  Wired(t)'
<1>0. sent[t] \in Seq(ClientMsgs)
  BY DEF TInv, CInv, IInv, TypeOK
<1>1. CASE Keeps(t)
  BY <1>1 DEF Keeps, Wired
<1>2. CASE Forgets(t)
  BY <1>2 DEF Forgets, Wired
<1>3. CASE Inits(t)
  <2>1. sent'[t] = <<Bare("connection_init")>> /\ ~acked'[t]
    BY <1>3 DEF Inits, Wired
  <2>2. \A i \in DOMAIN sent'[t] : i = 1 /\ sent'[t][i].type = "connection_init"
    BY <2>1 DEF Bare
  <2>3. \A i \in DOMAIN sent'[t] : sent'[t][i].type # "subscribe"
    BY <2>2
  <2> QED
    BY <2>1, <2>2, <2>3 DEF Wired
<1>4. CASE Adds(t)
  <2>1. PICK out : sent'[t] = sent[t] \o out /\ Operations(t, out)
    BY <1>4 DEF Adds
  <2> DEFINE n == Len(sent[t])
  <2>2. /\ n \in Nat /\ Len(out) \in Nat /\ n # 0 /\ out \in Seq(ClientMsgs)
        /\ DOMAIN sent[t] = 1..n
    BY <1>0, <1>4, <2>1 DEF Adds, Wired, Operations
  <2>3. /\ Len(sent'[t]) = n + Len(out) /\ DOMAIN sent'[t] = 1..(n + Len(out))
        /\ \A i \in 1..n : sent'[t][i] = sent[t][i]
        /\ \A i \in 1..Len(out) : sent'[t][n + i] = out[i]
    BY <1>0, <2>1, <2>2
  <2>4. ASSUME NEW i \in DOMAIN sent'[t], i \notin 1..n
        PROVE  /\ i - n \in 1..Len(out) /\ sent'[t][i] = out[i - n] /\ i # 1
    <3>1. i - n \in 1..Len(out) /\ i = n + (i - n) /\ i # 1
      BY <2>2, <2>3, <2>4
    <3> QED
      BY <2>3, <3>1
  <2>5. ASSUME NEW i \in DOMAIN sent'[t]
        PROVE  (sent'[t][i].type = "connection_init" <=> i = 1) /\ acked'[t]
    <3>1. CASE i \in 1..n
      BY <1>4, <2>2, <2>3, <3>1 DEF Wired, Adds
    <3>2. CASE i \notin 1..n
      <4>1. sent'[t][i] = out[i - n] /\ i - n \in 1..Len(out) /\ i # 1
        BY <2>4, <3>2
      <4> QED
        BY <1>4, <2>1, <4>1 DEF Operations, Adds
    <3> QED
      BY <3>1, <3>2
  <2>6. ASSUME NEW i \in 1..n, NEW k \in 1..Len(out),
               sent[t][i].type = "subscribe", sent[t][i] = out[k]
        PROVE  FALSE
    <3>1. sent[t][i] \in ClientMsgs
      BY <1>0, <2>2
    <3>2. sent[t][i] \in [type : {"subscribe", "complete"}, id : Subs]
      BY <2>6, <3>1 DEF ClientMsgs
    <3>3. PICK s \in Subs : sent[t][i] = Msg("subscribe", s)
      BY <2>6, <3>2 DEF Msg
    <3>4. s \in SubscribedOn(t)
      BY <2>2, <3>3 DEF SubscribedOn, ToSet
    <3>5. Msg("subscribe", s) \in ToSet(out)
      <4>1. k \in DOMAIN out /\ out[k] = Msg("subscribe", s)
        BY <2>2, <2>6, <3>3
      <4> QED
        BY <4>1 DEF ToSet
    <3> QED
      BY <2>1, <3>4, <3>5 DEF Operations
  <2>7. ASSUME NEW i \in DOMAIN sent'[t], NEW j \in DOMAIN sent'[t],
               sent'[t][i].type = "subscribe", sent'[t][i] = sent'[t][j]
        PROVE  i = j
    <3>1. CASE i \in 1..n /\ j \in 1..n
      BY <2>2, <2>3, <2>7, <3>1 DEF Wired
    <3>2. CASE i \in 1..n /\ j \notin 1..n
      BY <2>3, <2>4, <2>6, <2>7, <3>2
    <3>3. CASE i \notin 1..n /\ j \in 1..n
      <4>1. sent'[t][i] = out[i - n] /\ i - n \in 1..Len(out)
        BY <2>4, <3>3
      <4>2. sent[t][j] = out[i - n] /\ sent[t][j].type = "subscribe"
        BY <2>3, <2>7, <3>3, <4>1
      <4> QED
        BY <2>6, <3>3, <4>1, <4>2
    <3>4. CASE i \notin 1..n /\ j \notin 1..n
      <4>1. /\ i - n \in 1..Len(out) /\ sent'[t][i] = out[i - n]
            /\ j - n \in 1..Len(out) /\ sent'[t][j] = out[j - n]
        BY <2>4, <3>4
      <4>2. i - n = j - n
        BY <2>1, <2>7, <4>1 DEF Operations
      <4> QED
        BY <2>2, <2>3, <4>2
    <3> QED
      BY <3>1, <3>2, <3>3, <3>4
  <2>8. sent'[t] # <<>>
    BY <2>2, <2>3
  <2> QED
    BY <2>5, <2>7, <2>8 DEF Wired
<1> QED
  BY <1>1, <1>2, <1>3, <1>4 DEF ConnStep

\* The operations of a connection grow by members of _subs, or are gone with it.
LEMMA OperationsNext ==
  ASSUME TInv, NEW t \in Conns, ConnStep(t), NEW s \in Subs
  PROVE  /\ s \in SubscribedOn(t)' /\ s \notin SubscribedOn(t) =>
              t = transport /\ s \in subs' /\ state' = "Connected"
         /\ s \in SubscribedOn(t) => s \in SubscribedOn(t)' \/ sock'[t] = "closed"
         /\ s \in CompletedOn(t) => s \in CompletedOn(t)' \/ sock'[t] = "closed"
<1>0. sent[t] \in Seq(ClientMsgs)
  BY DEF TInv, CInv, IInv, TypeOK
<1>1. CASE Keeps(t)
  BY <1>1 DEF Keeps, SubscribedOn, CompletedOn
<1>2. CASE Forgets(t)
  BY <1>2 DEF Forgets, SubscribedOn, ToSet
<1>3. CASE Inits(t)
  <2>1. ToSet(sent[t]) = {}
    BY <1>3 DEF Inits, ToSet
  <2>2. ToSet(sent'[t]) = {Bare("connection_init")}
    BY <1>3 DEF Inits, ToSet
  <2>3. Bare("connection_init") # Msg("subscribe", s)
    BY DEF Bare, Msg
  <2> QED
    BY <2>1, <2>2, <2>3 DEF SubscribedOn, CompletedOn
<1>4. CASE Adds(t)
  <2>1. PICK out : sent'[t] = sent[t] \o out /\ Operations(t, out)
    BY <1>4 DEF Adds
  <2>2. \A x : x \in ToSet(sent'[t]) <=> x \in ToSet(sent[t]) \/ x \in ToSet(out)
    BY <1>0, <2>1, ConcatSet DEF Operations
  <2> QED
    BY <1>4, <2>1, <2>2 DEF SubscribedOn, CompletedOn, Operations, Adds
<1> QED
  BY <1>1, <1>2, <1>3, <1>4 DEF ConnStep

-----------------------------------------------------------------------------
(* What a step does to the queue *)

Said(t, m) == Open(t) /\ (m.id \in Subs => m.id \in SubscribedOn(t))

QueueStep ==
  /\ SubscribeOnce'
  /\ \A s \in Subs :
       /\ observer'[s] = "new" => ~Queued(SubTask("subscribe", s))'
       /\ Started(s) => Started(s)'
       /\ s \in subs' => s \in subs \/ (Started(s)' /\ ~Started(s))
  /\ \A t \in Conns, m \in ServerMsgs :
       Coming(t, m)' => Coming(t, m) \/ Said(t, m)

\* Messages come from the server.
LEMMA OutsideWords ==
  ASSUME TInv, Application \/ Environment, NEW t \in Conns, NEW m \in ServerMsgs,
         Coming(t, m)'
  PROVE  Coming(t, m) \/ Said(t, m)
<1>1. Coming(t, m) \/ ServerSends(t, m)
  BY ComingOutside DEF TInv, CInv
<1>2. ASSUME ServerSends(t, m), m.id \in Subs PROVE m.id \in SubscribedOn(t)
  <2>1. m.type \in {"next", "error", "complete"}
    BY <1>2, SubsAssumption DEF ServerMsgs
  <2> QED
    BY <1>2, <2>1 DEF ServerSends, ServerMay
<1> QED
  BY <1>1, <1>2 DEF ServerSends, Said

\* Tasks of one kind are not of another.
LEMMA NotSubscribe ==
  /\ \A op, t, s : ConnTask(op, t) # SubTask("subscribe", s)
  /\ \A t, m, s : MessageTask(t, m) # SubTask("subscribe", s)
  /\ \A op, s : Plain(op) # SubTask("subscribe", s)
  /\ \A u, s : SubTask("unsubscribe", u) # SubTask("subscribe", s)
  /\ \A u, s : SubTask("subscribe", u) = SubTask("subscribe", s) => u = s
  /\ \A op, u, t, m : SubTask(op, u) # MessageTask(t, m)
  /\ \A op, u, t, m : ConnTask(op, u) # MessageTask(t, m)
  /\ \A op, t, m : Plain(op) # MessageTask(t, m)
  /\ \A u, n, t, m : MessageTask(u, n) = MessageTask(t, m) => u = t /\ n = m
BY DEF ConnTask, SubTask, MessageTask, Plain

\* Queueing anything but a Subscribe.
LEMMA OtherPost ==
  ASSUME TInv, PInv, Application \/ Environment,
         NEW task, Posts(task), UNCHANGED <<observer, subs>>,
         \A s \in Subs : task # SubTask("subscribe", s)
  PROVE  QueueStep
<1>1. ready \in Seq(Tasks(created))
  BY DEF TInv, CInv, IInv, TypeOK
<1>2. /\ Len(ready) \in Nat /\ Len(ready') = Len(ready) + 1
      /\ \A i \in 1..Len(ready) : ready'[i] = ready[i]
      /\ ready'[Len(ready) + 1] = task
  BY <1>1 DEF Posts
<1>3. \A x : Queued(x)' <=> Queued(x) \/ x = task
  BY <1>1 DEF Posts, Queued, ToSet
<1>4. SubscribeOnce'
  <2> SUFFICES ASSUME NEW s \in Subs, NEW i \in 1..Len(ready'), NEW j \in 1..Len(ready'),
                      ready'[i] = SubTask("subscribe", s),
                      ready'[j] = SubTask("subscribe", s)
               PROVE  i = j
    BY DEF SubscribeOnce
  <2>1. i \in 1..Len(ready) /\ j \in 1..Len(ready)
    BY <1>2
  <2> QED
    BY <1>2, <2>1 DEF PInv, SubscribeOnce
<1>5. \A t \in Conns, m \in ServerMsgs : Coming(t, m)' => Coming(t, m) \/ Said(t, m)
  BY OutsideWords
<1> QED
  BY <1>3, <1>4, <1>5 DEF QueueStep, Started, PInv, OnlyStarted

LEMMA SilentQueue ==
  ASSUME TInv, PInv, Application \/ Environment, UNCHANGED <<ready, subs>>,
         UNCHANGED observer
  PROVE  QueueStep
<1>1. \A t \in Conns, m \in ServerMsgs : Coming(t, m)' => Coming(t, m) \/ Said(t, m)
  BY OutsideWords
<1> QED
  BY <1>1 DEF QueueStep, SubscribeOnce, Started, Queued, PInv, OnlyStarted

LEMMA SubscribeQueue ==
  ASSUME TInv, PInv, NEW u \in Subs, Subscribe(u)
  PROVE  QueueStep
<1> USE DEF ctxVars
<1>1. ready \in Seq(Tasks(created)) /\ observer \in [Subs -> Observers]
  BY DEF TInv, CInv, IInv, TypeOK
<1>2. /\ observer[u] = "new" /\ observer' = [observer EXCEPT ![u] = "live"]
      /\ Posts(SubTask("subscribe", u)) /\ UNCHANGED subs
  BY DEF Subscribe
<1>3. /\ Len(ready) \in Nat /\ Len(ready') = Len(ready) + 1
      /\ \A i \in 1..Len(ready) : ready'[i] = ready[i]
      /\ ready'[Len(ready) + 1] = SubTask("subscribe", u)
  BY <1>1, <1>2 DEF Posts
<1>4. \A x : Queued(x)' <=> Queued(x) \/ x = SubTask("subscribe", u)
  BY <1>1, <1>2 DEF Posts, Queued, ToSet
<1>5. ~Queued(SubTask("subscribe", u))
  BY <1>2 DEF PInv, OnlyStarted
<1>6. SubscribeOnce'
  <2> SUFFICES ASSUME NEW s \in Subs, NEW i \in 1..Len(ready'), NEW j \in 1..Len(ready'),
                      ready'[i] = SubTask("subscribe", s),
                      ready'[j] = SubTask("subscribe", s)
               PROVE  i = j
    BY DEF SubscribeOnce
  <2>1. CASE s = u
    <3>1. \A k \in 1..Len(ready) : ready[k] # SubTask("subscribe", u)
      BY <1>5 DEF Queued, ToSet
    <3>2. i = Len(ready) + 1 /\ j = Len(ready) + 1
      BY <1>3, <2>1, <3>1
    <3> QED
      BY <3>2
  <2>2. CASE s # u
    <3>1. i \in 1..Len(ready) /\ j \in 1..Len(ready)
      BY <1>3, <2>2, NotSubscribe
    <3> QED
      BY <1>3, <3>1 DEF PInv, SubscribeOnce
  <2> QED
    BY <2>1, <2>2
<1>7. \A s \in Subs :
        /\ observer'[s] = "new" => s # u /\ observer[s] = "new"
        /\ observer[s] # "new" => s # u /\ observer'[s] # "new"
  BY <1>1, <1>2
<1>8. \A t \in Conns, m \in ServerMsgs : Coming(t, m)' => Coming(t, m) \/ Said(t, m)
  BY OutsideWords DEF Application
<1>9. \A s \in Subs : Queued(SubTask("subscribe", s))' =>
        Queued(SubTask("subscribe", s)) \/ s = u
  BY <1>4, NotSubscribe
<1>10. ASSUME NEW s \in Subs
       PROVE  /\ observer'[s] = "new" => ~Queued(SubTask("subscribe", s))'
              /\ Started(s) => Started(s)'
              /\ s \in subs' => s \in subs
  <2>1. observer'[s] = "new" => ~Queued(SubTask("subscribe", s))'
    BY <1>7, <1>9 DEF PInv, OnlyStarted
  <2>2. Started(s) => Started(s)'
    BY <1>7, <1>9 DEF Started
  <2> QED
    BY <1>2, <2>1, <2>2
<1> QED
  BY <1>6, <1>8, <1>10 DEF QueueStep

LEMMA OutsideQueue ==
  ASSUME TInv, PInv, Application \/ Environment PROVE QueueStep
<1> USE DEF ctxVars
<1>0. observer \in [Subs -> Observers]
  BY DEF TInv, CInv, IInv, TypeOK
<1>1. ASSUME NEW u \in Subs, Unsubscribe(u) PROVE QueueStep
  <2>1. /\ observer[u] = "live" /\ observer' = [observer EXCEPT ![u] = "cancelled"]
        /\ Posts(SubTask("unsubscribe", u)) /\ UNCHANGED subs
    BY <1>1 DEF Unsubscribe
  <2>2. ready \in Seq(Tasks(created))
    BY DEF TInv, CInv, IInv, TypeOK
  <2>3. \A x : Queued(x)' <=> Queued(x) \/ x = SubTask("unsubscribe", u)
    BY <2>1, <2>2 DEF Posts, Queued, ToSet
  <2>4. SubscribeOnce'
    <3> SUFFICES ASSUME NEW s \in Subs, NEW i \in 1..Len(ready'), NEW j \in 1..Len(ready'),
                        ready'[i] = SubTask("subscribe", s),
                        ready'[j] = SubTask("subscribe", s)
                 PROVE  i = j
      BY DEF SubscribeOnce
    <3>1. /\ Len(ready) \in Nat /\ Len(ready') = Len(ready) + 1
          /\ \A k \in 1..Len(ready) : ready'[k] = ready[k]
          /\ ready'[Len(ready) + 1] = SubTask("unsubscribe", u)
      BY <2>1, <2>2 DEF Posts
    <3>2. i \in 1..Len(ready) /\ j \in 1..Len(ready)
      BY <3>1, NotSubscribe
    <3> QED
      BY <3>1, <3>2 DEF PInv, SubscribeOnce
  <2>5. \A s \in Subs : observer'[s] = "new" <=> observer[s] = "new"
    BY <1>0, <2>1
  <2>6. /\ \A s \in Subs : Queued(SubTask("subscribe", s))' <=> Queued(SubTask("subscribe", s))
        /\ \A t \in Conns, m \in ServerMsgs : Coming(t, m)' => Coming(t, m) \/ Said(t, m)
    BY <2>3, NotSubscribe, OutsideWords
  <2> QED
    BY <2>1, <2>4, <2>5, <2>6 DEF QueueStep, Started, PInv, OnlyStarted
<1>2. CASE BeginStop \/ Release
  BY <1>2, SilentQueue DEF BeginStop, Release
<1>3. CASE PostStop
  BY <1>3, OtherPost, NotSubscribe DEF PostStop
<1>4. CASE TimerExpires
  BY <1>4, OtherPost, NotSubscribe DEF TimerExpires
<1>5. ASSUME NEW t \in Conns, Network(t) PROVE QueueStep
  <2>1. /\ UNCHANGED <<observer, subs>>
        /\ \/ UNCHANGED ready
           \/ \E op : Posts(ConnTask(op, t))
           \/ \E m : Posts(MessageTask(t, m))
    BY <1>5 DEF Network, Resolves, ResolveFails, Connects, ConnectFails,
       Upgrades, UpgradeFails, Reads, OperationAborts, Drops, Ends
  <2>2. Application \/ Environment
    BY <1>5 DEF Environment
  <2> QED
    BY <2>1, <2>2, OtherPost, NotSubscribe, SilentQueue
<1>6. ASSUME NEW t \in Conns, NEW m \in ServerMsgs, ServerSends(t, m) PROVE QueueStep
  BY <1>6, SilentQueue DEF ServerSends
<1> QED
  BY <1>1, <1>2, <1>3, <1>4, <1>5, <1>6, SubscribeQueue DEF Application, Environment

\* A handler ends observers and starts none.
LEMMA HandlersStartNone ==
  ASSUME IInv, AsioThread, NEW s \in Subs, observer[s] # "new"
  PROVE  observer'[s] # "new"
<1> USE DEF IInv, TypeOK, Signal
<1>1. ASSUME NEW u \in Subs, RejectSubscribe(u) \/ OnSubscribe(u) \/ OnUnsubscribe(u)
      PROVE  observer'[s] # "new"
  BY <1>1 DEF RejectSubscribe, OnSubscribe, OnUnsubscribe
<1>2. CASE RunStop \/ RunStopped \/ OnTimer \/ DestroyInTerminalCallback
  BY <1>2 DEF RunStop, StopOnContext, RunStopped, OnTimer, DestroyInTerminalCallback
<1>3. ASSUME NEW t \in Conns, Completions(t) PROVE observer'[s] # "new"
  BY <1>3 DEF Completions, OnResolved, OnTransportConnected, OnFailed,
     OnWriteFailed, FireDisconnected, OnTransportDisconnected
<1>4. ASSUME NEW t \in Conns, Messages(t) PROVE observer'[s] # "new"
  BY <1>4 DEF Messages, OnAck, OnPing, IgnoreMessage, OnNext, OnEnd,
     DestroyInOnNext, StopOnContext
<1> QED
  BY <1>1, <1>2, <1>3, <1>4 DEF AsioThread

LEMMA AsioQueue ==
  ASSUME TInv, PInv, AsioThread, ~DestroyInTerminalCallback PROVE QueueStep
<1>1. PICK task, posts : Appends(task, posts)
  BY AsioAppends DEF TInv, CInv
<1>2. /\ ready \in Seq(Tasks(created)) /\ posts \in Seq(Tasks(created))
      /\ Runs(task, posts)
  BY <1>1 DEF Appends, TInv, CInv, IInv, TypeOK
<1>3. \A x : Queued(x)' => Queued(x) \/ x \in ToSet(posts)
  BY <1>2, RunsAdds
<1>4. \A s \in Subs : SubTask("subscribe", s) \notin ToSet(posts)
  BY <1>1 DEF Appends
<1>5. Len(ready) \in Nat \ {0} /\ ready[1] = task /\ Len(ready') \in Nat
  BY <1>2, RunsShifts, RunsType
<1>6. ASSUME NEW s \in Subs, NEW i \in 1..Len(ready'), ready'[i] = SubTask("subscribe", s)
      PROVE  i+1 \in 2..Len(ready) /\ ready[i+1] = SubTask("subscribe", s)
  <2>1. i < Len(ready) /\ ready[i+1] = ready'[i]
    BY <1>2, <1>4, <1>6, RunsShifts
  <2> QED
    BY <1>5, <1>6, <2>1
<1>7. SubscribeOnce'
  <2> SUFFICES ASSUME NEW s \in Subs, NEW i \in 1..Len(ready'), NEW j \in 1..Len(ready'),
                      ready'[i] = SubTask("subscribe", s),
                      ready'[j] = SubTask("subscribe", s)
               PROVE  i = j
    BY DEF SubscribeOnce
  <2>1. /\ i+1 \in 1..Len(ready) /\ ready[i+1] = SubTask("subscribe", s)
        /\ j+1 \in 1..Len(ready) /\ ready[j+1] = SubTask("subscribe", s)
    BY <1>6
  <2>2. i+1 = j+1
    BY <2>1 DEF PInv, SubscribeOnce
  <2> QED
    BY <2>2
<1>8. \A s \in Subs : observer[s] # "new" => observer'[s] # "new"
  BY HandlersStartNone DEF TInv, CInv
<1>9. ASSUME NEW s \in Subs, s \in subs', s \notin subs
      PROVE  Started(s)' /\ ~Started(s)
  <2>1. OnSubscribe(s)
    BY <1>9, OnlySubscribeAdds
  <2>2. ready[1] = SubTask("subscribe", s)
    BY <1>5, <2>1 DEF OnSubscribe, Runs
  <2>3. Queued(SubTask("subscribe", s))
    BY <1>2, <1>5, <2>2 DEF Queued, ToSet
  <2>4. observer'[s] # "new"
    BY <1>8, <2>3 DEF PInv, OnlyStarted
  <2>5. ASSUME NEW i \in 1..Len(ready'), ready'[i] = SubTask("subscribe", s) PROVE FALSE
    <3>1. i+1 \in 2..Len(ready) /\ ready[i+1] = SubTask("subscribe", s)
      BY <1>6, <2>5
    <3>2. i+1 \in 1..Len(ready) /\ 1 \in 1..Len(ready) /\ i+1 # 1
      BY <1>5, <3>1
    <3> QED
      BY <2>2, <3>1, <3>2 DEF PInv, SubscribeOnce
  <2>6. ready' \in Seq(Tasks(created))
    BY <1>2, RunsType
  <2>7. ~Queued(SubTask("subscribe", s))'
    BY <2>5, <2>6 DEF Queued, ToSet
  <2> QED
    BY <2>3, <2>4, <2>7 DEF Started
<1>10. \A t \in Conns, m \in ServerMsgs : Coming(t, m)' => Coming(t, m)
  BY ComingInside DEF TInv, CInv
<1> QED
  BY <1>3, <1>4, <1>7, <1>8, <1>9, <1>10 DEF QueueStep, Started, PInv, OnlyStarted

-----------------------------------------------------------------------------
(* The invariant follows from what a step does to connections and queue         *)

LEMMA CurrentConn ==
  ASSUME TInv, state \in {"Connecting", "Connected"}
  PROVE  transport \in Conns
BY BoundsAssumption DEF TInv, CInv, IInv, TransportMatchesState, TypeOK, Conns, None

LEMMA OnlyStartedNext ==
  ASSUME TInv, PInv, Moves, QueueStep PROVE OnlyStarted'
<1> SUFFICES ASSUME NEW s \in Subs
             PROVE  /\ observer'[s] = "new" => ~Queued(SubTask("subscribe", s))'
                    /\ s \in subs' => Started(s)'
                    /\ \A t \in Conns :
                         /\ s \in SubscribedOn(t)' => Started(s)'
                         /\ \A m \in ServerMsgs :
                              m.id = s /\ Coming(t, m)' => Started(s)'
  BY DEF OnlyStarted
<1>1. s \in subs' => Started(s)'
  BY DEF QueueStep, PInv, OnlyStarted
<1>2. ASSUME NEW t \in Conns, s \in SubscribedOn(t)' PROVE Started(s)'
  BY <1>1, <1>2, OperationsNext DEF Moves, QueueStep, PInv, OnlyStarted
<1>3. ASSUME NEW t \in Conns, NEW m \in ServerMsgs, m.id = s, Coming(t, m)'
      PROVE  Started(s)'
  BY <1>3 DEF QueueStep, Said, PInv, OnlyStarted
<1> QED
  BY <1>1, <1>2, <1>3 DEF QueueStep

\* An event that comes is not for an observer that subscribes now, nor does a
\* connection start while one comes for a subscription.
LEMMA EventsNext ==
  ASSUME TInv, PInv, Moves, QueueStep, state' = "Idle" => subs' = {}
  PROVE  EventsMatch'
<1>1. ASSUME NEW t \in Conns, t = transport', state' = "Connecting"
      PROVE  SubscribedOn(t)' = {}
  <2>1. \A s \in Subs : s \in SubscribedOn(t)' => s \in SubscribedOn(t)
    BY <1>1, OperationsNext DEF Moves
  <2>2. CASE Stays
    <3>1. SubscribedOn(t) = {}
      BY <1>1, <2>2 DEF Stays, PInv, EventsMatch
    <3> QED
      BY <2>1, <3>1 DEF SubscribedOn
  <2>3. CASE Starts
    <3>1. t > created
      BY <1>1, <2>3, BoundsAssumption DEF Starts, TInv, CInv, IInv, TypeOK
    <3>2. SubscribedOn(t) = {}
      BY <3>1, UnusedTransport DEF SubscribedOn, ToSet
    <3> QED
      BY <2>1, <3>2 DEF SubscribedOn
  <2> QED
    BY <1>1, <2>2, <2>3 DEF Moves, Acks, Loses
<1>2. ASSUME NEW t \in Conns, NEW m \in ServerMsgs, m.id \in Subs, Coming(t, m)'
      PROVE  /\ t = transport' => state' = "Connected"
             /\ t # transport' /\ m.id \in subs' => state' = "Reconnecting"
  <2>1. Coming(t, m) \/ Said(t, m)
    BY <1>2 DEF QueueStep
  <2>2. ASSUME Said(t, m) PROVE t = transport /\ state = "Connected"
    <3>1. t = transport /\ SubscribedOn(t) # {}
      BY <1>2, <2>2, OnlyCurrentOpen DEF Said, Open
    <3>2. state \in {"Connecting", "Connected"}
      BY <3>1, BoundsAssumption
      DEF TInv, CInv, IInv, TransportMatchesState, Conns, None
    <3> QED
      BY <3>1, <3>2 DEF PInv, EventsMatch
  <2>3. /\ t = transport => state = "Connected"
        /\ t # transport /\ m.id \in subs => state = "Reconnecting"
    BY <1>2, <2>1, <2>2 DEF PInv, EventsMatch
  <2>4. Started(m.id)
    <3>1. CASE Coming(t, m)
      BY <1>2, <3>1 DEF PInv, OnlyStarted
    <3>2. CASE Said(t, m)
      BY <1>2, <3>2 DEF Said, PInv, OnlyStarted
    <3> QED
      BY <2>1, <3>1, <3>2
  <2>5. m.id \in subs' => m.id \in subs
    BY <1>2, <2>4 DEF QueueStep
  <2>6. CASE Stays
    BY <2>3, <2>5, <2>6 DEF Stays
  <2>7. CASE Starts
    <3>1. t # transport /\ ~Said(t, m)
      BY <2>2, <2>7, BoundsAssumption DEF Starts, Conns, None
    <3>2. Coming(t, m) /\ chain[t] \in {"connected", "reading", "delivered"}
      BY <1>2, <2>1, <3>1 DEF TInv, HInv, HeldMatch
    <3>3. t <= created
      BY <3>2, UnusedTransport, BoundsAssumption DEF TInv, CInv, IInv, TypeOK, Conns
    <3>4. chain[t] \in {"reading", "delivered"}
      BY <3>1, <3>2, <3>3 DEF TInv, CInv, FiredMatch, Past
    <3>5. ~Queued(Plain("timer")) /\ state = "Idle"
      BY <2>7, <3>4 DEF Starts, TInv, HInv, TimerDrained
    <3>6. m.id \notin subs'
      BY <2>3, <2>5, <3>1, <3>5
    <3>7. t # transport'
      BY <2>7, <3>3, BoundsAssumption DEF Starts, TInv, CInv, IInv, TypeOK, Conns
    <3> QED
      BY <3>6, <3>7
  <2>8. CASE Acks
    BY <2>3, <2>5, <2>8 DEF Acks
  <2>9. CASE Loses
    BY <2>9, BoundsAssumption DEF Loses, Conns, None
  <2> QED
    BY <2>6, <2>7, <2>8, <2>9 DEF Moves
<1> QED
  BY <1>1, <1>2 DEF EventsMatch

\* A connection on which something was sent is open only if it was before.
LEMMA OpenBefore ==
  ASSUME TInv, NEW t \in Conns, ConnStep(t), Open(t)', sent[t] # <<>>
  PROVE  Open(t)
<1>1. Past(t) /\ sock'[t] = "open" /\ chain'[t] \in {"connected", "reading", "delivered"}
  BY DEF TInv, CInv, SocketsMatch, Open
<1>2. chain[t] \in {"reading", "delivered"}
  BY <1>1 DEF ConnStep, Ages, Past
<1>3. sock[t] = "open"
  BY <1>1, <1>2 DEF ConnStep, Ages
<1> QED
  BY <1>2, <1>3 DEF Open

LEMMA AllSubscribedNext ==
  ASSUME TInv, PInv, Moves,
         \A s \in subs' \ subs : state = "Connected" /\ Open(transport) =>
           s \in SubscribedOn(transport)'
  PROVE  AllSubscribed'
<1> SUFFICES ASSUME state' = "Connected", Open(transport)'
             PROVE  subs' \subseteq SubscribedOn(transport)'
  BY DEF AllSubscribed
<1>1. CASE Acks
  BY <1>1 DEF Acks
<1>2. CASE Stays
  <2>1. state = "Connected" /\ transport' = transport /\ transport \in Conns
    BY <1>2, CurrentConn DEF Stays
  <2>2. PICK t \in Conns : t = transport
    BY <2>1
  <2>3. ConnStep(t) /\ Open(t)' /\ state = "Connected"
    BY <2>1, <2>2 DEF Moves, Open
  <2>4. sock'[t] = "open"
    BY <2>3 DEF Open
  <2>5. sock[t] = "open" /\ chain[t] \in {"reading", "delivered"}
    BY <2>1, <2>2, <2>3, <2>4 DEF ConnStep, Ages, TInv, CInv, StateMatch, Past
  <2>6. Open(t)
    BY <2>5 DEF Open
  <2>7. ASSUME NEW s \in subs, s \in subs' PROVE s \in SubscribedOn(t)'
    <3>1. s \in SubscribedOn(t) /\ s \in Subs
      BY <2>2, <2>3, <2>6 DEF PInv, AllSubscribed, TInv, CInv, IInv, TypeOK
    <3> QED
      BY <2>3, <2>4, <3>1, OperationsNext
  <2>8. \A s \in subs' : s \in SubscribedOn(t)'
    <3>1. \A s \in subs' \ subs : s \in SubscribedOn(t)'
      BY <2>1, <2>2, <2>6 DEF SubscribedOn
    <3> QED
      BY <2>7, <3>1
  <2> QED
    BY <2>1, <2>2, <2>8 DEF SubscribedOn
<1>3. CASE Starts \/ Loses
  BY <1>3 DEF Starts, Loses
<1> QED
  BY <1>1, <1>2, <1>3 DEF Moves

\* What an operation that still runs after a step was before it.
LEMMA RunningBefore ==
  ASSUME TInv, NEW t \in Conns, ConnStep(t), Open(t)', NEW s \in Subs,
         s \in SubscribedOn(t)', s \notin CompletedOn(t)', s \notin over'[t], s \notin subs'
  PROVE  Open(t) /\ s \in SubscribedOn(t) /\ s \notin CompletedOn(t) /\ s \notin over[t]
<1>1. sock'[t] = "open"
  BY DEF Open
<1>2. s \in SubscribedOn(t) /\ s \notin CompletedOn(t)
  BY <1>1, OperationsNext
<1>3. sent[t] # <<>>
  BY <1>2 DEF SubscribedOn, ToSet
<1>4. s \notin over[t]
  BY <1>1 DEF ConnStep, Ages
<1> QED
  BY <1>2, <1>3, <1>4, OpenBefore

LEMMA OutsideOrphan ==
  ASSUME TInv, PInv, Moves, Application \/ Environment
  PROVE  NoOrphanOperation'
<1> SUFFICES ASSUME ~Stopping', NEW t \in Conns, Open(t)', NEW s \in Subs,
                    s \in SubscribedOn(t)', s \notin CompletedOn(t)', s \notin over'[t],
                    s \notin subs'
             PROVE  Queued(SubTask("unsubscribe", s))'
  BY DEF NoOrphanOperation, SubscribedOn
<1>1. /\ subs' = subs /\ (Stopping => Stopping')
      /\ Queued(SubTask("unsubscribe", s)) => Queued(SubTask("unsubscribe", s))'
  BY OutsideFacts DEF TInv, CInv
<1>2. Open(t) /\ s \in SubscribedOn(t) /\ s \notin CompletedOn(t) /\ s \notin over[t]
  BY RunningBefore DEF Moves
<1> QED
  BY <1>1, <1>2 DEF PInv, NoOrphanOperation

\* An Unsubscribe that runs while its operation does sends its complete.
LEMMA UnsubscribeSends ==
  ASSUME TInv, PInv, NEW t \in Conns, NEW s \in Subs, OnUnsubscribe(s), ~Stopping,
         Open(t), s \in SubscribedOn(t)
  PROVE  s \in CompletedOn(t)'
<1>1. t = transport
  BY OnlyCurrentOpen DEF Open
<1>2. state = "Connected"
  <2>1. state \in {"Connecting", "Connected"}
    BY <1>1, BoundsAssumption DEF TInv, CInv, IInv, TransportMatchesState, Conns, None
  <2> QED
    BY <1>1, <2>1 DEF PInv, EventsMatch
<1> DEFINE out == <<Msg("complete", s)>>
<1>3. /\ out \in Seq(ClientMsgs) /\ out # <<>> /\ Msg("complete", s) \in ToSet(out)
      /\ sent[t] \in Seq(ClientMsgs) /\ sent \in [Conns -> Seq(ClientMsgs)]
  BY DEF Msg, ClientMsgs, ToSet, TInv, CInv, IInv, TypeOK
<1>4. sent' = Wire(transport, out)
  BY <1>2 DEF OnUnsubscribe, TellsServer
<1> HIDE DEF out
<1>5. sent'[t] = sent[t] \o out
  BY <1>1, <1>3, <1>4 DEF Wire
<1>6. Msg("complete", s) \in ToSet(sent'[t])
  BY <1>3, <1>5, ConcatSet
<1> QED
  BY <1>6 DEF CompletedOn

LEMMA HandlersKeepStopping ==
  ASSUME AsioThread, Stopping PROVE Stopping'
<1> USE DEF Stopping, lifeVars
<1>1. ASSUME NEW u \in Subs, RejectSubscribe(u) \/ OnSubscribe(u) \/ OnUnsubscribe(u)
      PROVE  Stopping'
  BY <1>1 DEF RejectSubscribe, OnSubscribe, OnUnsubscribe
<1>2. CASE RunStop \/ RunStopped \/ OnTimer \/ DestroyInTerminalCallback
  BY <1>2 DEF RunStop, RunStopped, OnTimer, DestroyInTerminalCallback
<1>3. ASSUME NEW t \in Conns, Completions(t) PROVE Stopping'
  BY <1>3 DEF Completions, OnResolved, OnTransportConnected, OnFailed,
     OnWriteFailed, FireDisconnected
<1>4. ASSUME NEW t \in Conns, Messages(t) PROVE Stopping'
  BY <1>4 DEF Messages, OnAck, OnPing, IgnoreMessage, OnNext, OnEnd, DestroyInOnNext
<1> QED
  BY <1>1, <1>2, <1>3, <1>4 DEF AsioThread

LEMMA HandlersKeepAlive ==
  ASSUME AsioThread PROVE alive' = alive
<1> USE DEF lifeVars
<1>1. ASSUME NEW u \in Subs, RejectSubscribe(u) \/ OnSubscribe(u) \/ OnUnsubscribe(u)
      PROVE  alive' = alive
  BY <1>1 DEF RejectSubscribe, OnSubscribe, OnUnsubscribe
<1>2. CASE RunStop \/ RunStopped \/ OnTimer \/ DestroyInTerminalCallback
  BY <1>2 DEF RunStop, RunStopped, OnTimer, DestroyInTerminalCallback
<1>3. ASSUME NEW t \in Conns, Completions(t) PROVE alive' = alive
  BY <1>3 DEF Completions, OnResolved, OnTransportConnected, OnFailed,
     OnWriteFailed, FireDisconnected
<1>4. ASSUME NEW t \in Conns, Messages(t) PROVE alive' = alive
  BY <1>4 DEF Messages, OnAck, OnPing, IgnoreMessage, OnNext, OnEnd, DestroyInOnNext
<1> QED
  BY <1>1, <1>2, <1>3, <1>4 DEF AsioThread

LEMMA AsioOrphan ==
  ASSUME TInv, ZInv, ZInv', PInv, Moves, QueueStep, AsioThread, ~DestroyInTerminalCallback
  PROVE  NoOrphanOperation'
<1> SUFFICES ASSUME ~Stopping', NEW t \in Conns, Open(t)', NEW s \in Subs,
                    s \in SubscribedOn(t)', s \notin CompletedOn(t)', s \notin over'[t],
                    s \notin subs'
             PROVE  Queued(SubTask("unsubscribe", s))'
  BY DEF NoOrphanOperation, SubscribedOn
<1>1. PICK task, posts :
        /\ Appends(task, posts)
        /\ task = SubTask("unsubscribe", s) => OnUnsubscribe(s)
  BY AsioAppends DEF TInv, CInv
<1>2. /\ ready \in Seq(Tasks(created)) /\ posts \in Seq(Tasks(created))
      /\ Runs(task, posts)
  BY <1>1 DEF Appends, TInv, CInv, IInv, TypeOK
<1>3. Open(t) /\ s \in SubscribedOn(t) /\ s \notin CompletedOn(t) /\ s \notin over[t]
  BY RunningBefore DEF Moves
<1>4. ~Stopping
  BY HandlersKeepStopping
<1>5. CASE Queued(SubTask("unsubscribe", s))
  <2>1. task # SubTask("unsubscribe", s)
    BY <1>1, <1>3, <1>4, UnsubscribeSends
  <2> QED
    BY <1>2, <1>5, <2>1, RunsKeeps
<1>6. CASE ~Queued(SubTask("unsubscribe", s))
  <2>1. s \in subs
    BY <1>3, <1>4, <1>6 DEF PInv, NoOrphanOperation
  <2>2. observer[s] = "live"
    BY <1>6, <2>1 DEF ZInv, NoZombieSubscription
  <2>3. Started(s)'
    BY <2>1 DEF PInv, OnlyStarted, QueueStep
  <2>4. observer'[s] # "live"
    BY <2>3 DEF ZInv, SInv, NoLostSubscriber, Started
  <2>5. SubTask("unsubscribe", s) \in ToSet(posts)
    BY <1>1, <2>2, <2>4 DEF Appends
  <2>6. /\ \E j \in Len(ready)..Len(ready') : ready'[j] = SubTask("unsubscribe", s)
        /\ Len(ready) \in Nat \ {0} /\ Len(ready') \in Nat /\ ready' \in Seq(Tasks(created))
    BY <1>2, <2>5, RunsShifts, RunsType
  <2>7. \E j \in 1..Len(ready') : ready'[j] = SubTask("unsubscribe", s)
    BY <2>6
  <2> QED
    BY <2>6, <2>7 DEF Queued, ToSet
<1> QED
  BY <1>5, <1>6

-----------------------------------------------------------------------------
(* What the handlers do to the connections                                     *)

\* A chain that failed does not go on.
Onward(t) == chain[t] \in {"failing", "ended"} => chain'[t] \in {"failing", "ended"}

LEMMA QuietConn ==
  ASSUME NEW t \in Conns, sent'[t] = sent[t], acked'[t] = acked[t],
         over'[t] = over[t], sock'[t] = sock[t] \/ sock'[t] = "closed", Onward(t)
  PROVE  ConnStep(t)
BY DEF ConnStep, Keeps, Ages, Onward

\* Sending on the current connection once it is acknowledged.
LEMMA WireConn ==
  ASSUME TInv, NEW t \in Conns, NEW out, sent' = Wire(transport, out),
         Operations(transport, out), state' = "Connected",
         sock[transport] = "open" => acked[transport],
         UNCHANGED <<acked, over, sock>>, Onward(t)
  PROVE  ConnStep(t)
<1>0. sent \in [Conns -> Seq(ClientMsgs)]
  BY DEF TInv, CInv, IInv, TypeOK
<1>1. CASE t = transport /\ Open(t) /\ out # <<>>
  <2>1. sent'[t] = sent[t] \o out
    BY <1>0, <1>1 DEF Wire
  <2>2. acked[t] /\ acked'[t]
    BY <1>1 DEF Open
  <2>3. Adds(t)
    BY <1>1, <2>1, <2>2 DEF Adds
  <2> QED
    BY <2>3 DEF ConnStep, Ages, Onward
<1>2. CASE ~(t = transport /\ Open(t) /\ out # <<>>)
  <2>1. sent'[t] = sent[t]
    BY <1>0, <1>2 DEF Wire
  <2> QED
    BY <2>1, QuietConn
<1> QED
  BY <1>1, <1>2

LEMMA OneOperation ==
  ASSUME TInv, NEW s \in Subs, NEW t, NEW type \in {"subscribe", "complete"},
         type = "subscribe" => s \in subs' /\ s \notin SubscribedOn(t)
  PROVE  Operations(t, <<Msg(type, s)>>)
<1> DEFINE out == <<Msg(type, s)>>
<1>1. out \in Seq(ClientMsgs) /\ Len(out) = 1 /\ out[1] = Msg(type, s)
  BY DEF Msg, ClientMsgs
<1>2. \A i \in 1..Len(out) : i = 1 /\ out[i] = Msg(type, s)
  BY <1>1
<1>3. ToSet(out) = {Msg(type, s)}
  BY DEF ToSet
<1>4. Msg(type, s).type = type
  BY DEF Msg
<1>5. \A u \in Subs : Msg("subscribe", u) = Msg(type, s) => type = "subscribe" /\ u = s
  BY DEF Msg
<1> QED
  BY <1>1, <1>2, <1>3, <1>4, <1>5 DEF Operations

\* A new transport changes nothing for the others.
LEMMA ConnectConn ==
  ASSUME TInv, NEW t \in Conns, ConnectTransport, UNCHANGED <<sent, acked, over, sock>>
  PROVE  ConnStep(t)
<1>1. CASE t = created + 1
  <2>1. t > created
    BY <1>1, BoundsAssumption DEF TInv, CInv, IInv, TypeOK
  <2>2. chain[t] = "unused"
    BY <2>1, UnusedTransport
  <2> QED
    BY <2>2, QuietConn DEF Onward
<1>2. CASE t # created + 1
  <2>1. chain'[t] = chain[t]
    BY <1>2 DEF ConnectTransport, TInv, CInv, IInv, TypeOK
  <2> QED
    BY <2>1, QuietConn DEF Onward
<1> QED
  BY <1>1, <1>2

LEMMA SubscriptionMoves ==
  ASSUME TInv, PInv, NEW s \in Subs,
         RejectSubscribe(s) \/ OnSubscribe(s) \/ OnUnsubscribe(s)
  PROVE  Moves
<1> USE DEF ctxVars, lifeVars, connVars, serverVars
<1>0. /\ sent \in [Conns -> Seq(ClientMsgs)] /\ chain \in [Conns -> Chains]
      /\ ready \in Seq(Tasks(created)) /\ created \in Nat
  BY BoundsAssumption DEF TInv, CInv, IInv, TypeOK
<1>1. CASE RejectSubscribe(s)
  <2>1. UNCHANGED <<state, transport, sent, acked, over, sock, chain>>
    BY <1>1 DEF RejectSubscribe
  <2> QED
    BY <2>1, QuietConn DEF Moves, Stays, Onward
<1>2. ASSUME state = "Connected"
      PROVE  transport \in Conns /\ (sock[transport] = "open" => acked[transport])
  BY <1>2, CurrentConn DEF TInv, HInv, AcksFirst
<1>3. CASE OnSubscribe(s) /\ state = "Connected"
  <2> DEFINE out == <<Msg("subscribe", s)>>
  <2>1. /\ sent' = Wire(transport, out) /\ s \in subs'
        /\ UNCHANGED <<state, transport, chain, acked, over, sock>>
    BY <1>3 DEF OnSubscribe, SendsNow
  <2>2. Queued(SubTask("subscribe", s))
    BY <1>0, <1>3 DEF OnSubscribe, Runs, Queued, ToSet
  <2>3. s \notin SubscribedOn(transport)
    BY <1>2, <1>3, <2>2 DEF PInv, OnlyStarted, Started
  <2>4. Operations(transport, out)
    BY <2>1, <2>3, OneOperation
  <2> HIDE DEF out
  <2>5. \A t \in Conns : ConnStep(t)
    BY <1>2, <1>3, <2>1, <2>4, WireConn DEF Onward
  <2> QED
    BY <2>1, <2>5 DEF Moves, Stays
<1>4. CASE OnSubscribe(s) /\ state # "Connected"
  <2>1. /\ sent' = sent /\ UNCHANGED <<acked, over, sock>>
        /\ \/ UNCHANGED <<state, transport, chain>>
           \/ state = "Idle" /\ state' = "Connecting" /\ ConnectTransport
    BY <1>4 DEF OnSubscribe, SendsNow, Wire
  <2>2. CASE UNCHANGED <<state, transport, chain>>
    BY <2>1, <2>2, QuietConn DEF Moves, Stays, Onward
  <2>3. CASE state = "Idle" /\ state' = "Connecting" /\ ConnectTransport
    <3>1. transport = None /\ transport' = created + 1
      BY <2>3 DEF ConnectTransport, TInv, CInv, IInv, TransportMatchesState
    <3>2. \A t \in Conns : ConnStep(t)
      BY <2>1, <2>3, ConnectConn
    <3> QED
      BY <2>3, <3>1, <3>2 DEF Moves, Starts
  <2> QED
    BY <2>1, <2>2, <2>3
<1>5. CASE OnUnsubscribe(s)
  <2>1. UNCHANGED <<transport, chain, acked, over, sock>>
    BY <1>5 DEF OnUnsubscribe
  <2>2. \A t \in Conns : ConnStep(t)
    <3>1. CASE TellsServer
      <4> DEFINE out == <<Msg("complete", s)>>
      <4>1. sent' = Wire(transport, out) /\ state = "Connected" /\ state' = "Connected"
        BY <1>5, <3>1 DEF OnUnsubscribe, TellsServer, GoIdle
      <4>2. Operations(transport, out)
        BY OneOperation
      <4> HIDE DEF out
      <4> QED
        BY <1>2, <2>1, <4>1, <4>2, WireConn DEF Onward
    <3>2. CASE ~TellsServer
      <4>1. sent' = sent
        BY <1>5, <3>2 DEF OnUnsubscribe, Wire
      <4> QED
        BY <2>1, <4>1, QuietConn DEF Onward
    <3> QED
      BY <3>1, <3>2
  <2>3. Stays \/ Loses
    BY <1>5, <2>1 DEF OnUnsubscribe, GoIdle, Stays, Loses, TInv, CInv, IInv,
       TransportMatchesState
  <2> QED
    BY <2>2, <2>3 DEF Moves
<1> QED
  BY <1>1, <1>3, <1>4, <1>5

LEMMA StopMoves ==
  ASSUME TInv, PInv, RunStop \/ RunStopped \/ OnTimer
  PROVE  Moves
<1> USE DEF ctxVars, lifeVars, connVars, serverVars
<1>1. CASE RunStop \/ RunStopped
  <2>1. UNCHANGED <<state, transport, sent, acked, over, chain>>
    BY <1>1 DEF RunStop, RunStopped
  <2>2. \A t \in Conns : sock'[t] = sock[t] \/ sock'[t] = "closed"
    BY <1>1 DEF RunStop, RunStopped, StopOnContext, CloseTransport
  <2> QED
    BY <2>1, <2>2, QuietConn DEF Moves, Stays, Onward
<1>2. CASE OnTimer
  <2>1. UNCHANGED <<sent, acked, over, sock>>
    BY <1>2 DEF OnTimer
  <2>2. CASE UNCHANGED <<state, transport, chain>>
    BY <2>1, <2>2, QuietConn DEF Moves, Stays, Onward
  <2>3. CASE state' = "Connecting" /\ ConnectTransport
    <3>1. Queued(Plain("timer"))
      BY <1>2 DEF OnTimer, Runs, Queued, ToSet, TInv, CInv, IInv, TypeOK
    <3>2. transport = None /\ transport' = created + 1
      BY <2>3, <3>1 DEF ConnectTransport, TInv, CInv, IInv, TransportMatchesState, StateMatch
    <3>3. \A t \in Conns : ConnStep(t)
      BY <2>1, <2>3, ConnectConn
    <3> QED
      BY <2>3, <3>1, <3>2, <3>3 DEF Moves, Starts
  <2> QED
    BY <1>2, <2>2, <2>3 DEF OnTimer
<1> QED
  BY <1>1, <1>2

\* A transport that connects, or whose ack comes, has not reported its end: it is
\* the current one.
LEMMA WaitingConn ==
  ASSUME TInv, NEW u \in Conns, Queued(ConnTask("connected", u)) \/ Coming(u, Ack)
  PROVE  u = transport
<1>1. ~fired[u] /\ chain[u] # "unused"
  BY DEF TInv, CInv, FiredMatch, ChainsMatch, Past, HInv, AcksFirst, AckAwaited
<1>2. u <= created
  BY <1>1, BoundsAssumption DEF TInv, CInv, IInv, TypeOK, Conns
<1> QED
  BY <1>1, <1>2 DEF TInv, CInv, FiredMatch

LEMMA CompletionMoves ==
  ASSUME TInv, PInv, NEW u \in Conns, Completions(u)
  PROVE  Moves
<1> USE DEF ctxVars, lifeVars, serverVars
<1>0. /\ sent \in [Conns -> Seq(ClientMsgs)] /\ chain \in [Conns -> Chains]
      /\ sock \in [Conns -> {"none", "open", "closed"}] /\ acked \in [Conns -> BOOLEAN]
      /\ over \in [Conns -> SUBSET Subs]
      /\ ready \in Seq(Tasks(created)) /\ created \in Nat
  BY BoundsAssumption DEF TInv, CInv, IInv, TypeOK
<1>1. ASSUME NEW task, NEW posts, Runs(task, posts) PROVE Queued(task)
  BY <1>0, <1>1 DEF Runs, Queued, ToSet
<1>2. CASE OnResolved(u)
  <2>1. Queued(ConnTask("resolved", u))
    BY <1>1, <1>2 DEF OnResolved
  <2>2. chain[u] = "resolved"
    BY <2>1 DEF TInv, CInv, ChainsMatch
  <2>3. /\ UNCHANGED <<state, transport, sent, acked, over>>
        /\ chain' = [chain EXCEPT ![u] = "connecting"] /\ sock' = [sock EXCEPT ![u] = "open"]
    BY <1>2 DEF OnResolved
  <2>4. ASSUME NEW t \in Conns PROVE ConnStep(t)
    <3>1. CASE t = u
      BY <2>2, <2>3, <3>1 DEF ConnStep, Keeps, Ages
    <3>2. CASE t # u
      BY <1>0, <2>3, <3>2, QuietConn DEF Onward
    <3> QED
      BY <3>1, <3>2
  <2> QED
    BY <2>3, <2>4 DEF Moves, Stays
<1>3. CASE OnTransportConnected(u)
  <2>1. Queued(ConnTask("connected", u))
    BY <1>1, <1>3 DEF OnTransportConnected
  <2>2. chain[u] = "connected" /\ u = transport
    BY <2>1, WaitingConn DEF TInv, CInv, ChainsMatch
  <2>3. sent[u] = <<>>
    BY <2>2 DEF TInv, CInv, SocketsMatch, Past
  <2>4. /\ UNCHANGED <<state, transport, acked, over, sock>>
        /\ chain' = [chain EXCEPT ![u] = "reading"]
        /\ \/ sent' = Wire(transport, <<Bare("connection_init")>>)
           \/ sent' = Wire(transport, <<>>)
    BY <1>3 DEF OnTransportConnected
  <2>5. /\ \A t \in Conns : t # u => sent'[t] = sent[t]
        /\ sent'[u] = <<>> \/ sent'[u] = <<Bare("connection_init")>>
    BY <1>0, <2>2, <2>3, <2>4 DEF Wire
  <2>6. ASSUME NEW t \in Conns PROVE ConnStep(t)
    <3>1. CASE t # u
      BY <1>0, <2>4, <2>5, <3>1, QuietConn DEF Onward
    <3>2. CASE t = u
      <4>1. Ages(t) /\ acked'[t] = acked[t]
        BY <2>2, <2>4, <3>2 DEF Ages
      <4> QED
        BY <2>3, <2>5, <3>2, <4>1 DEF ConnStep, Keeps, Inits
    <3> QED
      BY <3>1, <3>2
  <2> QED
    BY <2>4, <2>6 DEF Moves, Stays
<1>4. ASSUME NEW task, FireDisconnected(u, task), u <= created PROVE Stays \/ Loses
  BY <1>4, FireFacts DEF Stays, Loses
<1>5. CASE OnFailed(u)
  <2>1. FireDisconnected(u, ConnTask("failed", u)) /\ Queued(ConnTask("failed", u))
    BY <1>1, <1>5 DEF OnFailed, FireDisconnected, OnTransportDisconnected
  <2>2. u <= created
    BY <1>0, <2>1, UnusedTransport DEF Conns
  <2>3. /\ chain' = [chain EXCEPT ![u] = "ended"] /\ sock' = [sock EXCEPT ![u] = "closed"]
        /\ sent' = [sent EXCEPT ![u] = <<>>] /\ acked' = [acked EXCEPT ![u] = FALSE]
        /\ over' = [over EXCEPT ![u] = {}]
    BY <1>5 DEF OnFailed, Breaks
  <2>4. ASSUME NEW t \in Conns PROVE ConnStep(t)
    <3>1. CASE t = u
      BY <1>0, <2>3, <3>1 DEF ConnStep, Forgets, Ages
    <3>2. CASE t # u
      BY <1>0, <2>3, <3>2, QuietConn DEF Onward
    <3> QED
      BY <3>1, <3>2
  <2> QED
    BY <1>4, <2>1, <2>2, <2>4 DEF Moves
<1>6. CASE OnWriteFailed(u)
  <2>1. /\ FireDisconnected(u, ConnTask("writeFailed", u))
        /\ Queued(ConnTask("writeFailed", u))
    BY <1>1, <1>6 DEF OnWriteFailed, FireDisconnected, OnTransportDisconnected
  <2>2. u <= created
    BY <1>0, <2>1, UnusedTransport DEF Conns
  <2>3. \A t \in Conns : ConnStep(t)
    BY <1>6, QuietConn DEF OnWriteFailed, Onward
  <2> QED
    BY <1>4, <2>1, <2>2, <2>3 DEF Moves
<1> QED
  BY <1>2, <1>3, <1>5, <1>6 DEF Completions

LEMMA OrderInjective ==
  ASSUME NEW S, S \subseteq Subs, NEW order \in SetToSeqs(S)
  PROVE  \A i, j \in 1..Len(order) : order[i] = order[j] => i = j
<1>1. IsFiniteSet(S)
  BY SubsAssumption, FS_Subset
<1>2. Cardinality(S) \in Nat
  BY <1>1, FS_CardinalityType
<1>3. order \in [1..Cardinality(S) -> S] /\ Len(order) = Cardinality(S)
  BY <1>2 DEF SetToSeqs
<1> QED
  BY <1>3 DEF SetToSeqs, IsInjective

\* The replay sends each member of _subs once.
LEMMA ReplayOperations ==
  ASSUME TInv, NEW order \in SetToSeqs(subs), subs' = subs, NEW t,
         SubscribedOn(t) = {}, NEW out,
         out = [i \in DOMAIN order |-> Msg("subscribe", order[i])]
  PROVE  /\ Operations(t, out)
         /\ \A s \in subs : Msg("subscribe", s) \in ToSet(out)
<1>0. subs \subseteq Subs
  BY DEF TInv, CInv, IInv, TypeOK
<1>1. order \in Seq(subs)
  BY <1>0, OrderType
<1>2. \A i, j \in 1..Len(order) : order[i] = order[j] => i = j
  BY <1>0, OrderInjective
<1>3. /\ Len(out) = Len(order) /\ out \in Seq(ClientMsgs)
      /\ \A i \in 1..Len(order) : out[i] = Msg("subscribe", order[i]) /\ order[i] \in Subs
      /\ DOMAIN out = 1..Len(order)
  <2>1. DOMAIN order = 1..Len(order) /\ Len(order) \in Nat
    BY <1>1
  <2>2. \A i \in 1..Len(order) : order[i] \in Subs
    BY <1>0, <1>1
  <2>3. \A i \in 1..Len(order) : Msg("subscribe", order[i]) \in ClientMsgs
    BY <2>2 DEF Msg, ClientMsgs
  <2>4. out \in [1..Len(order) -> ClientMsgs]
    BY <2>1, <2>3
  <2> QED
    BY <2>1, <2>2, <2>4
<1>4. ASSUME NEW i \in 1..Len(out), NEW j \in 1..Len(out), out[i] = out[j]
      PROVE  i = j
  <2>1. Msg("subscribe", order[i]) = Msg("subscribe", order[j])
    BY <1>3, <1>4
  <2>2. order[i] = order[j]
    BY <2>1 DEF Msg
  <2> QED
    BY <1>2, <1>3, <2>2
<1>5. \A i \in 1..Len(out) : out[i].type = "subscribe"
  BY <1>3 DEF Msg
<1>6. ASSUME NEW s \in Subs, Msg("subscribe", s) \in ToSet(out) PROVE s \in subs
  <2>1. PICK i \in 1..Len(order) : out[i] = Msg("subscribe", s)
    BY <1>3, <1>6 DEF ToSet
  <2>2. s = order[i]
    BY <1>3, <2>1 DEF Msg
  <2> QED
    BY <1>1, <2>2
<1>7. ASSUME NEW s \in subs PROVE Msg("subscribe", s) \in ToSet(out)
  <2>1. PICK i \in 1..Len(order) : order[i] = s
    BY <1>0, OrderCovers
  <2> QED
    BY <1>3, <2>1 DEF ToSet
<1> QED
  BY <1>3, <1>4, <1>5, <1>6, <1>7 DEF Operations

LEMMA AckMoves ==
  ASSUME TInv, PInv, NEW u \in Conns, OnAck(u)
  PROVE  Moves
<1> USE DEF lifeVars, serverVars
<1>0. /\ sent \in [Conns -> Seq(ClientMsgs)] /\ chain \in [Conns -> Chains]
      /\ ready \in Seq(Tasks(created))
  BY DEF TInv, CInv, IInv, TypeOK
<1>1. PICK order \in SetToSeqs(subs) :
        LET out == [i \in DOMAIN order |-> Msg("subscribe", order[i])] IN
        /\ sent' = Wire(transport, out)
        /\ Receives(u, Bare("connection_ack"), WriteErrors(transport, out))
  BY DEF OnAck
<1> DEFINE out == [i \in DOMAIN order |-> Msg("subscribe", order[i])]
<1>2. /\ sent' = Wire(transport, out)
      /\ Receives(u, Bare("connection_ack"), WriteErrors(transport, out))
  BY <1>1
<1>3. /\ state = "Connecting" /\ state' = "Connected"
      /\ UNCHANGED <<subs, transport, sock, acked, over>>
  BY DEF OnAck, Connected
<1>4. /\ Queued(MessageTask(u, Bare("connection_ack")))
      /\ chain' = [chain EXCEPT ![u] = "reading"]
  BY <1>0, <1>2 DEF Receives, Runs, Queued, ToSet
<1>5. u = transport /\ chain[u] = "delivered" /\ AckAwaited(u)
  BY <1>4, WaitingConn DEF TInv, CInv, ChainsMatch, HInv, AcksFirst, Coming, Ack
<1>6. (sock[u] = "open" => acked[u]) /\ SubscribedOn(u) = {}
  BY <1>3, <1>5 DEF PInv, EventsMatch, AckAwaited, Said1
<1>7. /\ Operations(u, out)
      /\ \A s \in subs : Msg("subscribe", s) \in ToSet(out)
  BY <1>3, <1>6, ReplayOperations
<1> HIDE DEF out
<1>8. \A t \in Conns : ConnStep(t)
  BY <1>0, <1>2, <1>3, <1>4, <1>5, <1>6, <1>7, WireConn DEF Onward
<1>9. ASSUME Open(u)', NEW s \in subs PROVE s \in SubscribedOn(u)'
  <2>1. Open(u)
    BY <1>3, <1>5, <1>9 DEF Open
  <2>2. Msg("subscribe", s) \in ToSet(out) /\ out \in Seq(ClientMsgs) /\ s \in Subs
    BY <1>7 DEF Operations, TInv, CInv, IInv, TypeOK
  <2>3. out # <<>>
    BY <2>2 DEF ToSet
  <2>4. sent'[u] = sent[u] \o out
    BY <1>0, <1>2, <1>5, <2>1, <2>3 DEF Wire
  <2>5. Msg("subscribe", s) \in ToSet(sent'[u])
    BY <1>0, <2>2, <2>4, ConcatSet
  <2> QED
    BY <2>2, <2>5 DEF SubscribedOn
<1>10. Acks
  BY <1>3, <1>5, <1>6, <1>9 DEF Acks, Open, SubscribedOn
<1> QED
  BY <1>8, <1>10 DEF Moves

LEMMA MessageMoves ==
  ASSUME TInv, PInv, NEW u \in Conns, Messages(u)
  PROVE  Moves
<1> USE DEF ctxVars, lifeVars, serverVars
<1>0. /\ chain \in [Conns -> Chains] /\ ready \in Seq(Tasks(created))
  BY DEF TInv, CInv, IInv, TypeOK
<1>1. ASSUME NEW m, NEW posts, Receives(u, m, posts),
             UNCHANGED <<state, transport, sent, acked, over>>,
             \A t \in Conns : sock'[t] = sock[t] \/ sock'[t] = "closed"
      PROVE  Moves
  <2>1. Queued(MessageTask(u, m)) /\ chain' = [chain EXCEPT ![u] = "reading"]
    BY <1>0, <1>1 DEF Receives, Runs, Queued, ToSet
  <2>2. chain[u] = "delivered"
    BY <2>1 DEF TInv, CInv, ChainsMatch
  <2>3. \A t \in Conns : Onward(t)
    BY <1>0, <2>1, <2>2 DEF Onward
  <2> QED
    BY <1>1, <2>3, QuietConn DEF Moves, Stays
<1>2. CASE OnPing(u)
  BY <1>1, <1>2 DEF OnPing
<1>3. ASSUME NEW m \in ServerMsgs, IgnoreMessage(u, m) PROVE Moves
  BY <1>1, <1>3 DEF IgnoreMessage
<1>4. ASSUME NEW s \in Subs, OnNext(u, s) PROVE Moves
  BY <1>1, <1>4 DEF OnNext
<1>5. ASSUME NEW s \in Subs, NEW type, OnEnd(u, s, type) PROVE Moves
  BY <1>1, <1>5 DEF OnEnd
<1>6. ASSUME NEW s \in Subs, NEW type, DestroyInOnNext(u, s, type) PROVE Moves
  <2>1. PICK posts : Receives(u, Msg(type, s), posts)
    BY <1>6 DEF DestroyInOnNext
  <2>2. /\ UNCHANGED <<state, transport, sent, acked, over>>
        /\ \A t \in Conns : sock'[t] = sock[t] \/ sock'[t] = "closed"
    BY <1>6 DEF DestroyInOnNext, StopOnContext, CloseTransport
  <2> QED
    BY <1>1, <2>1, <2>2
<1> QED
  BY <1>2, <1>3, <1>4, <1>5, <1>6, AckMoves DEF Messages

-----------------------------------------------------------------------------
(* What the application, the network, the timer and the server do to them      *)

LEMMA OutsideMoves ==
  ASSUME TInv, PInv, Application \/ Environment PROVE Moves
<1> USE DEF ctxVars, lifeVars, connVars, serverVars
<1>0. /\ sent \in [Conns -> Seq(ClientMsgs)] /\ chain \in [Conns -> Chains]
      /\ sock \in [Conns -> {"none", "open", "closed"}] /\ acked \in [Conns -> BOOLEAN]
      /\ over \in [Conns -> SUBSET Subs]
  BY DEF TInv, CInv, IInv, TypeOK
<1>1. CASE \/ Application \/ TimerExpires
  <2>1. UNCHANGED <<state, transport, sent, acked, over, sock, chain>>
    BY <1>1 DEF Application, Subscribe, Unsubscribe, BeginStop, PostStop, Release,
       TimerExpires
  <2> QED
    BY <2>1, QuietConn DEF Moves, Stays, Onward
<1>2. ASSUME NEW u \in Conns, Network(u), ~Drops(u) PROVE Moves
  <2>1. PICK from \in {"resolving", "connecting", "upgrading", "reading"}, to \in Chains :
          chain[u] = from /\ chain' = [chain EXCEPT ![u] = to]
    BY <1>0, <1>2 DEF Network, Resolves, ResolveFails, Connects, ConnectFails,
       Upgrades, UpgradeFails, Reads, OperationAborts, Ends, Chains
  <2>2. UNCHANGED <<state, transport, sent, acked, over, sock>>
    BY <1>2 DEF Network, Resolves, ResolveFails, Connects, ConnectFails,
       Upgrades, UpgradeFails, Reads, OperationAborts, Ends
  <2>3. \A t \in Conns : Onward(t)
    BY <1>0, <2>1 DEF Onward
  <2> QED
    BY <2>2, <2>3, QuietConn DEF Moves, Stays
<1>3. ASSUME NEW u \in Conns, Drops(u) PROVE Moves
  <2>1. /\ UNCHANGED <<state, transport, chain>>
        /\ sock' = [sock EXCEPT ![u] = "closed"] /\ sent' = [sent EXCEPT ![u] = <<>>]
        /\ acked' = [acked EXCEPT ![u] = FALSE] /\ over' = [over EXCEPT ![u] = {}]
    BY <1>3 DEF Drops, Breaks
  <2>2. ASSUME NEW t \in Conns PROVE ConnStep(t)
    <3>1. CASE t = u
      BY <1>0, <2>1, <3>1 DEF ConnStep, Forgets, Ages
    <3>2. CASE t # u
      BY <1>0, <2>1, <3>2, QuietConn DEF Onward
    <3> QED
      BY <3>1, <3>2
  <2> QED
    BY <2>1, <2>2 DEF Moves, Stays
<1>4. ASSUME NEW u \in Conns, NEW m \in ServerMsgs, ServerSends(u, m) PROVE Moves
  <2>1. /\ UNCHANGED <<state, transport, sent, sock, chain>>
        /\ acked' = [acked EXCEPT ![u] = @ \/ m.type = "connection_ack"]
        /\ over' = [over EXCEPT ![u] = IF m.type \in {"error", "complete"}
                                         THEN @ \cup {m.id} ELSE @]
    BY <1>4 DEF ServerSends
  <2>2. m.type = "connection_ack" => sent[u] # <<>>
    BY <1>4 DEF ServerSends, ServerMay, ToSet
  <2>3. ASSUME NEW t \in Conns PROVE ConnStep(t)
    <3>1. CASE t = u
      <4>1. acked'[t] = acked[t] \/ (acked'[t] /\ sent[t] # <<>>)
        BY <1>0, <2>1, <2>2, <3>1
      <4>2. over[t] \subseteq over'[t]
        BY <1>0, <2>1, <3>1
      <4> QED
        BY <2>1, <3>1, <4>1, <4>2 DEF ConnStep, Keeps, Ages
    <3>2. CASE t # u
      BY <1>0, <2>1, <3>2, QuietConn DEF Onward
    <3> QED
      BY <3>1, <3>2
  <2> QED
    BY <2>1, <2>3 DEF Moves, Stays
<1> QED
  BY <1>1, <1>2, <1>3, <1>4 DEF Environment

-----------------------------------------------------------------------------
(* The invariant holds *)

LEMMA SilentPInv ==
  ASSUME PInv, Stopping => Stopping',
         UNCHANGED <<ready, observer, subs, sent, acked, over, held, sock, chain,
                     state, transport, alive>>
  PROVE  PInv'
<1>1. /\ \A x : Queued(x)' <=> Queued(x)
      /\ \A t \in Conns : \A m : Coming(t, m)' <=> Coming(t, m)
  BY DEF Queued, Coming
<1>2. \A t \in Conns : /\ SubscribedOn(t)' = SubscribedOn(t)
                       /\ CompletedOn(t)' = CompletedOn(t)
                       /\ Open(t)' <=> Open(t)
  BY DEF SubscribedOn, CompletedOn, Open
<1>3. SubscribeOnce' /\ ReleasedLast'
  BY DEF PInv, SubscribeOnce, ReleasedLast
<1>4. OnlyStarted'
  BY <1>1, <1>2 DEF PInv, OnlyStarted, Started
<1>5. (\A t \in Conns : Wired(t))' /\ AllSubscribed'
  BY DEF PInv, Wired, AllSubscribed, Open, SubscribedOn
<1>6. EventsMatch' /\ NoOrphanOperation'
  BY <1>1, <1>2 DEF PInv, EventsMatch, NoOrphanOperation
<1> QED
  BY <1>3, <1>4, <1>5, <1>6 DEF PInv

LEMMA OutsidePInv ==
  ASSUME TInv, ZInv', PInv, Application \/ Environment PROVE PInv'
<1>1. Moves /\ QueueStep
  BY OutsideMoves, OutsideQueue
<1>2. OnlyStarted' /\ EventsMatch' /\ SubscribeOnce'
  <2>1. state' = "Idle" => subs' = {}
    BY DEF ZInv, SInv, NobodyStranded
  <2> QED
    BY <1>1, <2>1, OnlyStartedNext, EventsNext DEF QueueStep
<1>3. \A t \in Conns : Wired(t)'
  BY <1>1, WiredNext DEF PInv, Moves
<1>4. AllSubscribed'
  <2>1. subs' = subs
    BY OutsideFacts DEF TInv, CInv
  <2> QED
    BY <1>1, <2>1, AllSubscribedNext
<1>5. NoOrphanOperation'
  BY <1>1, OutsideOrphan
<1>6. ReleasedLast'
  <2>1. Stopping => Stopping'
    BY OutsideFacts DEF TInv, CInv
  <2>2. alive' = alive \/ Stopping
    BY DEF Application, Environment, Subscribe, Unsubscribe, BeginStop, PostStop,
       Release, TimerExpires, Network, Resolves, ResolveFails, Connects,
       ConnectFails, Upgrades, UpgradeFails, Reads, OperationAborts, Drops, Ends,
       ServerSends, lifeVars, Stopping
  <2> QED
    BY <2>1, <2>2 DEF PInv, ReleasedLast
<1> QED
  BY <1>2, <1>3, <1>4, <1>5, <1>6 DEF PInv

\* A Subscribe that is handled while the link is connected goes out at once.
LEMMA AddedIsSent ==
  ASSUME TInv, AsioThread, ~DestroyInTerminalCallback, NEW s \in subs' \ subs,
         state = "Connected", Open(transport)
  PROVE  s \in SubscribedOn(transport)'
<1> USE DEF ctxVars
<1>1. OnSubscribe(s)
  BY OnlySubscribeAdds
<1>2. s \in Subs
  <2>1. IInv'
    BY NextIInv DEF TInv, CInv, Next
  <2> QED
    BY <2>1 DEF IInv, TypeOK
<1>3. PICK t \in Conns : t = transport
  BY CurrentConn
<1> DEFINE out == <<Msg("subscribe", s)>>
<1>4. sent' = Wire(transport, out) /\ transport' = transport
  BY <1>1 DEF OnSubscribe, SendsNow
<1>5. /\ out \in Seq(ClientMsgs) /\ out # <<>> /\ Msg("subscribe", s) \in ToSet(out)
      /\ sent \in [Conns -> Seq(ClientMsgs)]
  BY <1>2 DEF Msg, ClientMsgs, ToSet, TInv, CInv, IInv, TypeOK
<1> HIDE DEF out
<1>6. sent'[t] = sent[t] \o out
  BY <1>3, <1>4, <1>5 DEF Wire
<1>7. Msg("subscribe", s) \in ToSet(sent'[t])
  BY <1>5, <1>6, ConcatSet
<1> QED
  BY <1>2, <1>3, <1>4, <1>7 DEF SubscribedOn

LEMMA AsioPInv ==
  ASSUME TInv, ZInv, ZInv', PInv, AsioThread PROVE PInv'
<1>1. CASE DestroyInTerminalCallback
  BY <1>1, SilentPInv DEF DestroyInTerminalCallback, ctxVars, connVars, serverVars, Stopping
<1>2. CASE ~DestroyInTerminalCallback
  <2>1. Moves
    BY <1>2, SubscriptionMoves, StopMoves, CompletionMoves, MessageMoves DEF AsioThread
  <2>2. QueueStep
    BY <1>2, AsioQueue
  <2>3. OnlyStarted' /\ EventsMatch' /\ SubscribeOnce'
    <3>1. state' = "Idle" => subs' = {}
      BY DEF ZInv, SInv, NobodyStranded
    <3> QED
      BY <2>1, <2>2, <3>1, OnlyStartedNext, EventsNext DEF QueueStep
  <2>4. \A t \in Conns : Wired(t)'
    BY <2>1, WiredNext DEF PInv, Moves
  <2>5. AllSubscribed'
    <3>1. \A s \in subs' \ subs : state = "Connected" /\ Open(transport) =>
            s \in SubscribedOn(transport)'
      BY <1>2, AddedIsSent
    <3> QED
      BY <2>1, <3>1, AllSubscribedNext
  <2>6. NoOrphanOperation'
    BY <1>2, <2>1, <2>2, AsioOrphan
  <2>7. ReleasedLast'
    BY HandlersKeepStopping, HandlersKeepAlive DEF PInv, ReleasedLast
  <2> QED
    BY <2>3, <2>4, <2>5, <2>6, <2>7 DEF PInv
<1> QED
  BY <1>1, <1>2

LEMMA ProtocolInvariant ==
  ASSUME ~LateTimer PROVE Spec => []PInv
<1>1. TInv /\ ZInv /\ ZInv' /\ PInv /\ [Next]_vars => PInv'
  <2> SUFFICES ASSUME TInv, ZInv, ZInv', PInv, [Next]_vars PROVE PInv'
    OBVIOUS
  <2>1. CASE UNCHANGED vars
    BY <2>1, SilentPInv DEF vars, ctxVars, lifeVars, connVars, serverVars, Stopping
  <2> QED
    BY <2>1, OutsidePInv, AsioPInv DEF Next
<1>2. Spec => []TInv
  BY TimelyInvariant
<1> QED
  BY <1>1, <1>2, InitPInv, AlwaysFollowed, PTL DEF Spec

-----------------------------------------------------------------------------
(* What follows *)

\* On every connection the server sees the protocol: connection_init once and
\* first, each subscribe once and after the ack.
THEOREM ServersSeeTheProtocol ==
  ASSUME ~LateTimer PROVE Spec => []WireProtocol
<1>1. PInv => WireProtocol
  BY DEF PInv, Wired, WireProtocol
<1> QED
  BY <1>1, ProtocolInvariant, PTL

\* Once connected, everything in _subs has been sent to the server.
THEOREM EverythingIsSubscribed ==
  ASSUME ~LateTimer PROVE Spec => []AllSubscribed
<1>1. PInv => AllSubscribed
  BY DEF PInv
<1> QED
  BY <1>1, ProtocolInvariant, PTL

\* The server runs nothing that nobody wants, but for what it is about to be told.
THEOREM NothingIsOrphaned ==
  ASSUME ~LateTimer PROVE Spec => []NoOrphanOperation
<1>1. PInv => NoOrphanOperation
  BY DEF PInv
<1> QED
  BY <1>1, ProtocolInvariant, PTL

\* Until its connection reports its loss, an event for a listening observer is
\* dispatched to it; a message that a lost connection still hands over
\* acknowledges no later one and reaches nobody once a later one is Connected.
THEOREM EventsFindTheirSubscriber ==
  ASSUME ~LateTimer PROVE Spec => []EventsReachSubscribers
<1>1. TInv /\ ZInv /\ PInv => EventsReachSubscribers
  <2> SUFFICES ASSUME TInv, ZInv, PInv, NEW t \in Conns, NEW m \in ServerMsgs,
                      ready # <<>>, ~Stopping, Head(ready) = MessageTask(t, m)
               PROVE  /\ ~fired[t] /\ m.id \in Live(Subs) => Dispatches(m.id)
                      /\ t # transport /\ state = "Connecting" =>
                           m.type # "connection_ack"
                      /\ t # transport /\ state = "Connected" => m.id \notin subs
    BY DEF EventsReachSubscribers
  <2>1. Queued(MessageTask(t, m)) /\ Coming(t, m)
    BY DEF Queued, Coming, ToSet, TInv, CInv, IInv, TypeOK
  <2>2. ASSUME ~fired[t], m.id \in Live(Subs) PROVE Dispatches(m.id)
    <3>1. m.id \in Subs /\ observer[m.id] = "live"
      BY <2>2 DEF Live
    <3>2. t = transport
      BY <2>1, <2>2, UnusedTransport, BoundsAssumption
      DEF TInv, CInv, IInv, TypeOK, FiredMatch, Conns
    <3>3. Started(m.id) /\ state = "Connected"
      BY <2>1, <3>1, <3>2 DEF PInv, OnlyStarted, EventsMatch
    <3>4. m.id \in subs
      BY <3>1, <3>3 DEF ZInv, SInv, NoLostSubscriber, Started
    <3> QED
      BY <3>3, <3>4 DEF Dispatches, PInv, ReleasedLast
  <2>3. m.type = "connection_ack" => t = transport
    <3>1. m.type = "connection_ack" => m = Ack
      BY DEF ServerMsgs, Ack, Bare
    <3> QED
      BY <2>1, <3>1, WaitingConn
  <2>4. ASSUME t # transport, state = "Connected", m.id \in subs PROVE FALSE
    BY <2>1, <2>4 DEF PInv, EventsMatch, TInv, CInv, IInv, TypeOK
  <2> QED
    BY <2>2, <2>3, <2>4
<1>2. Spec => []TInv
  BY TimelyInvariant
<1> QED
  BY <1>1, <1>2, ProtocolInvariant, AlwaysFollowed, PTL
=============================================================================
