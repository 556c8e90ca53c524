------------------------- MODULE HttpsServerProofs -------------------------
(***************************************************************************)
(* Proofs about HttpsServer, for any number of listeners, any set of       *)
(* connections, any max_connections and any shutdown timeout.              *)
(***************************************************************************)
EXTENDS HttpsServer, FiniteSetTheorems, SequenceTheorems, TLAPS

\* The invariant that is inductive: what the permits, the counter, the queue
\* and the held streams have to do with each other.
ServerInv ==
    /\ TypeOK
    /\ PermitsConserved
    /\ CountedExactly
    /\ NoLostWakeup
    /\ AcceptedStreamsHeld

\* How much time the shutdown sequence can have taken when it is at a place:
\* a timeout for every handle it is done with, and the current wait.
ClockInv ==
    /\ joining \in 1..(NumListeners + 1)
    /\ main \in {"running", "joining"} => joining <= NumListeners
    /\ waited <= ShutdownTimeout
    /\ main = "sleeping" => waited < ShutdownTimeout
    /\ elapsed <= (joining - 1) * ShutdownTimeout + waited

-----------------------------------------------------------------------------
(* Counting.                                                               *)

\* The sets whose cardinalities the invariants speak of are finite.
LEMMA Finite ==
    /\ IsFiniteSet(PermitHolders) /\ Cardinality(PermitHolders) \in Nat
    /\ IsFiniteSet(GuardHolders) /\ Cardinality(GuardHolders) \in Nat
    /\ IsFiniteSet(OpenSockets) /\ Cardinality(OpenSockets) \in Nat
    /\ IsFiniteSet(Granted) /\ Cardinality(Granted) \in Nat
  <1>1. IsFiniteSet(Conns)
    BY ConnsAssumption
  <1>2. IsFiniteSet(Listeners)
    BY ListenersAssumption, FS_Interval DEF Listeners
  <1>3. /\ PermitHolders \in SUBSET Conns /\ GuardHolders \in SUBSET Conns
        /\ OpenSockets \in SUBSET Conns /\ Granted \in SUBSET Listeners
    BY DEF PermitHolders, GuardHolders, OpenSockets, Granted
  <1>4. /\ IsFiniteSet(PermitHolders) /\ IsFiniteSet(GuardHolders)
        /\ IsFiniteSet(OpenSockets) /\ IsFiniteSet(Granted)
    BY <1>1, <1>2, <1>3, FS_Subset
  <1> QED
    BY <1>4, FS_CardinalityType

\* Adding a new element to a finite set, and removing one, changes its
\* cardinality by one.
LEMMA AddOne ==
    ASSUME NEW S, NEW x, IsFiniteSet(S), x \notin S
    PROVE  Cardinality(S \cup {x}) = Cardinality(S) + 1
  BY FS_AddElement

LEMMA RemoveOne ==
    ASSUME NEW S, NEW x, IsFiniteSet(S), x \in S
    PROVE  Cardinality(S \ {x}) = Cardinality(S) - 1
  BY FS_RemoveElement

-----------------------------------------------------------------------------
(* The server's part of the invariant.                                     *)

LEMMA ServerInit == Init => ServerInv
  <1> SUFFICES ASSUME Init PROVE ServerInv
    OBVIOUS
  <1>1. TypeOK
    <2>1. queue \in Seq(Listeners)
      BY EmptySeq DEF Init
    <2> QED
      BY <2>1, CapAssumption, ZenonT(30) DEF Init, TypeOK, ListenerStates, ConnStates, MainStates
  <1>2. PermitHolders = {} /\ GuardHolders = {} /\ Granted = {}
    BY DEF Init, PermitHolders, GuardHolders, Granted
  <1>3. PermitsConserved /\ CountedExactly
    BY <1>2, FS_EmptySet, CapAssumption DEF Init, PermitsConserved, CountedExactly
  <1>4. NoLostWakeup /\ AcceptedStreamsHeld
    BY ConnsAssumption DEF Init, NoLostWakeup, AcceptedStreamsHeld
  <1> QED
    BY <1>1, <1>3, <1>4 DEF ServerInv

\* Steps of run_server, of the signal task and of the clock leave the server's
\* state alone.
LEMMA MainKeepsServer ==
    ASSUME ServerInv, UNCHANGED serverVars, TypeOK'
    PROVE  ServerInv'
  BY DEF ServerInv, serverVars, PermitsConserved, CountedExactly, NoLostWakeup,
         AcceptedStreamsHeld, PermitHolders, GuardHolders, Granted

LEMMA MainTypes ==
    ASSUME TypeOK, TriggerShutdown \/ MainStep \/ Tick \/ Terminated \/ UNCHANGED vars
    PROVE  TypeOK' /\ UNCHANGED serverVars
  <1>1. CASE TriggerShutdown
    BY <1>1 DEF TypeOK, TriggerShutdown, serverVars, mainVars
  <1>2. CASE MainSeesShutdown
    BY <1>2 DEF TypeOK, MainSeesShutdown, serverVars, MainStates
  <1>3. CASE ListenerJoined \/ JoinTimesOut
    BY <1>3 DEF TypeOK, ListenerJoined, JoinTimesOut, NextHandle, serverVars, MainStates
  <1>4. CASE DrainPoll \/ DrainReport
    BY <1>4 DEF TypeOK, DrainPoll, DrainReport, serverVars, MainStates
  <1>5. CASE Tick
    BY <1>5 DEF TypeOK, Tick, serverVars, MainStates
  <1>6. CASE Terminated \/ UNCHANGED vars
    BY <1>6 DEF TypeOK, Terminated, vars, serverVars
  <1> QED
    BY <1>1, <1>2, <1>3, <1>4, <1>5, <1>6 DEF MainStep

LEMMA AcceptKeeps ==
    ASSUME ServerInv, NEW l \in Listeners, NEW c \in Conns, Accept(l, c)
    PROVE  ServerInv'
  <1> USE DEF ServerInv
  <1>1. TypeOK'
    BY DEF TypeOK, Accept, mainVars, ListenerStates, ConnStates
  <1>2. UNCHANGED <<PermitHolders, GuardHolders, Granted, permits, counter>>
    BY DEF TypeOK, Accept, PermitHolders, GuardHolders, Granted
  <1>3. PermitsConserved' /\ CountedExactly'
    BY <1>2 DEF PermitsConserved, CountedExactly
  <1>4. NoLostWakeup'
    BY DEF TypeOK, Accept, NoLostWakeup
  <1>5. AcceptedStreamsHeld'
    BY ConnsAssumption DEF TypeOK, Accept, AcceptedStreamsHeld
  <1> QED
    BY <1>1, <1>3, <1>4, <1>5

\* The steps of an accept loop that only move it.
LEMMA MoveKeeps ==
    ASSUME ServerInv, NEW l \in Listeners,
           AcceptFails(l) \/ BackoffEnds(l) \/ ListenerStops(l)
    PROVE  ServerInv'
  <1> USE DEF ServerInv, AcceptFails, BackoffEnds, ListenerStops
  <1>1. TypeOK'
    BY SMTT(30) DEF TypeOK, mainVars, ListenerStates
  <1>2. UNCHANGED <<PermitHolders, GuardHolders, Granted, permits, counter>>
    BY DEF TypeOK, PermitHolders, GuardHolders, Granted
  <1>3. PermitsConserved' /\ CountedExactly'
    BY <1>2 DEF PermitsConserved, CountedExactly
  <1>4. NoLostWakeup'
    BY DEF TypeOK, NoLostWakeup
  <1>5. AcceptedStreamsHeld'
    BY DEF TypeOK, AcceptedStreamsHeld
  <1> QED
    BY <1>1, <1>3, <1>4, <1>5

LEMMA AcquireKeeps ==
    ASSUME ServerInv, NEW l \in Listeners, Acquire(l)
    PROVE  ServerInv'
  <1> USE DEF ServerInv
  <1>1. UNCHANGED <<PermitHolders, GuardHolders, counter>>
    BY DEF Acquire, PermitHolders, GuardHolders
  <1>2. CountedExactly'
    BY <1>1 DEF CountedExactly
  <1>3. AcceptedStreamsHeld'
    BY DEF TypeOK, Acquire, AcceptedStreamsHeld
  <1>4. CASE permits > 0
    <2>1. TypeOK'
      BY <1>4 DEF TypeOK, Acquire, mainVars, ListenerStates
    <2>2. Granted' = Granted \cup {l} /\ l \notin Granted
      BY <1>4 DEF TypeOK, Acquire, Granted
    <2>3. PermitsConserved'
      <3>1. Cardinality(Granted') = Cardinality(Granted) + 1
        BY <2>2, Finite, AddOne
      <3>2. permits \in Nat /\ permits' = permits - 1
        BY <1>4 DEF TypeOK, Acquire
      <3> QED
        BY <1>1, <3>1, <3>2, Finite DEF PermitsConserved
    <2>4. NoLostWakeup'
      BY <1>4 DEF TypeOK, Acquire, NoLostWakeup
    <2> QED
      BY <1>2, <1>3, <2>1, <2>3, <2>4, SMTT(30)
  <1>5. CASE ~(permits > 0)
    <2>1. /\ queue' \in Seq(Listeners) /\ Len(queue') = Len(queue) + 1
          /\ \A i \in 1..Len(queue) : queue'[i] = queue[i]
          /\ queue'[Len(queue) + 1] = l
      <3>1. queue \in Seq(Listeners) /\ queue' = Append(queue, l)
        BY <1>5 DEF TypeOK, Acquire
      <3> QED
        BY <3>1, AppendProperties
    <2>2. TypeOK'
      BY <1>5, <2>1, SMTT(30) DEF TypeOK, Acquire, mainVars, ListenerStates
    <2>3. UNCHANGED <<Granted, permits>>
      BY <1>5 DEF TypeOK, Acquire, Granted
    <2>4. PermitsConserved'
      BY <1>1, <2>3 DEF PermitsConserved
    <2>5. \A i \in 1..Len(queue) : queue[i] # l
      BY DEF Acquire, NoLostWakeup
    <2>6. Len(queue) \in Nat
      BY LenProperties DEF TypeOK
    <2>7. queue' # <<>> => permits' = 0
      BY <1>5 DEF TypeOK, Acquire
    <2>8. ASSUME NEW k \in Listeners
          PROVE  (lst[k] = "queued" <=> \E i \in 1..Len(queue) : queue[i] = k)'
      <3>1. CASE k = l
        BY <1>5, <2>1, <2>6, <3>1, SMTT(30) DEF TypeOK, Acquire
      <3>2. CASE k # l
        <4>1. lst'[k] = lst[k]
          BY <1>5, <3>2 DEF TypeOK, Acquire
        <4>2. (\E i \in 1..Len(queue') : queue'[i] = k) <=> \E i \in 1..Len(queue) : queue[i] = k
          BY <2>1, <2>6, <3>2
        <4> QED
          BY <4>1, <4>2 DEF NoLostWakeup
      <3> QED
        BY <3>1, <3>2
    <2>9. \A i, j \in 1..Len(queue') : queue'[i] = queue'[j] => i = j
      BY <2>1, <2>5, <2>6 DEF NoLostWakeup
    <2> QED
      BY <1>2, <1>3, <2>2, <2>4, <2>7, <2>8, <2>9, SMTT(30) DEF NoLostWakeup
  <1> QED
    BY <1>4, <1>5

LEMMA SpawnKeeps ==
    ASSUME ServerInv, NEW l \in Listeners, Spawn(l)
    PROVE  ServerInv'
  <1> USE DEF ServerInv
  <1>1. held[l] \in Conns /\ conn[held[l]] = "accepted" /\ lst[l] = "granted"
    BY DEF TypeOK, Spawn, AcceptedStreamsHeld
  <1>2. TypeOK'
    BY <1>1 DEF TypeOK, Spawn, mainVars, ListenerStates, ConnStates
  <1>3. /\ Granted' = Granted \ {l} /\ l \in Granted
        /\ PermitHolders' = PermitHolders \cup {held[l]} /\ held[l] \notin PermitHolders
        /\ UNCHANGED <<GuardHolders, permits, counter>>
    BY <1>1 DEF TypeOK, Spawn, Granted, PermitHolders, GuardHolders
  <1>4. /\ Cardinality(Granted') = Cardinality(Granted) - 1
        /\ Cardinality(PermitHolders') = Cardinality(PermitHolders) + 1
    BY <1>3, Finite, AddOne, RemoveOne
  <1>5. PermitsConserved' /\ CountedExactly'
    BY <1>3, <1>4, Finite DEF TypeOK, PermitsConserved, CountedExactly
  <1>6. NoLostWakeup'
    BY <1>1 DEF TypeOK, Spawn, NoLostWakeup
  <1>7. AcceptedStreamsHeld'
    BY <1>1, ConnsAssumption DEF TypeOK, Spawn, AcceptedStreamsHeld
  <1> QED
    BY <1>2, <1>5, <1>6, <1>7

-----------------------------------------------------------------------------
(* The steps of connection tasks.                                          *)

\* No accept loop holds the stream of a connection that has a task, so a step
\* of the task does not disturb the held streams.
LEMMA TaskKeepsHeld ==
    ASSUME TypeOK, AcceptedStreamsHeld, NEW c \in Conns, NEW s \in ConnStates,
           conn[c] # "accepted", s # "accepted",
           conn' = [conn EXCEPT ![c] = s], held' = held,
           \A l \in Listeners : lst'[l] = lst[l] \/ (lst[l] = "queued" /\ lst'[l] = "granted")
    PROVE  AcceptedStreamsHeld'
  BY DEF TypeOK, AcceptedStreamsHeld

LEMMA TaskStartsKeeps ==
    ASSUME ServerInv, NEW c \in Conns, TaskStarts(c)
    PROVE  ServerInv'
  <1> USE DEF ServerInv
  <1>1. TypeOK'
    BY DEF TypeOK, TaskStarts, mainVars, ConnStates
  <1>2. /\ GuardHolders' = GuardHolders \cup {c} /\ c \notin GuardHolders
        /\ UNCHANGED <<PermitHolders, Granted, permits>>
        /\ counter' = counter + 1
    BY DEF TypeOK, TaskStarts, Granted, PermitHolders, GuardHolders
  <1>3. Cardinality(GuardHolders') = Cardinality(GuardHolders) + 1
    BY <1>2, Finite, AddOne
  <1>4. PermitsConserved' /\ CountedExactly'
    BY <1>2, <1>3 DEF PermitsConserved, CountedExactly
  <1>5. NoLostWakeup' /\ AcceptedStreamsHeld'
    BY TaskKeepsHeld, ZenonT(30) DEF TaskStarts, NoLostWakeup, ConnStates
  <1> QED
    BY <1>1, <1>4, <1>5

LEMMA HandshakeOkKeeps ==
    ASSUME ServerInv, NEW c \in Conns, HandshakeOk(c)
    PROVE  ServerInv'
  <1> USE DEF ServerInv
  <1>1. TypeOK'
    BY DEF TypeOK, HandshakeOk, mainVars, ConnStates
  <1>2. UNCHANGED <<GuardHolders, PermitHolders, Granted, permits, counter>>
    BY DEF TypeOK, HandshakeOk, Granted, PermitHolders, GuardHolders
  <1>3. PermitsConserved' /\ CountedExactly'
    BY <1>2 DEF PermitsConserved, CountedExactly
  <1>4. NoLostWakeup' /\ AcceptedStreamsHeld'
    BY TaskKeepsHeld, ZenonT(30) DEF HandshakeOk, NoLostWakeup, ConnStates
  <1> QED
    BY <1>1, <1>3, <1>4

LEMMA GuardDroppedKeeps ==
    ASSUME ServerInv, NEW c \in Conns, GuardDropped(c)
    PROVE  ServerInv'
  <1> USE DEF ServerInv
  <1>1. /\ GuardHolders' = GuardHolders \ {c} /\ c \in GuardHolders
        /\ UNCHANGED <<PermitHolders, Granted, permits>>
        /\ counter' = counter - 1
    BY DEF TypeOK, GuardDropped, Granted, PermitHolders, GuardHolders
  <1>2. /\ Cardinality(GuardHolders') = Cardinality(GuardHolders) - 1
        /\ Cardinality(GuardHolders') \in Nat
    BY <1>1, Finite, RemoveOne, FS_RemoveElement, FS_CardinalityType
  <1>3. PermitsConserved' /\ CountedExactly'
    BY <1>1, <1>2 DEF PermitsConserved, CountedExactly
  <1>4. TypeOK'
    BY <1>2, <1>3 DEF TypeOK, GuardDropped, mainVars, ConnStates, CountedExactly
  <1>5. NoLostWakeup' /\ AcceptedStreamsHeld'
    BY TaskKeepsHeld, ZenonT(30) DEF GuardDropped, NoLostWakeup, ConnStates
  <1> QED
    BY <1>3, <1>4, <1>5

\* The end of a task: its permit goes to the first waiter, or becomes free.
LEMMA DropTaskKeeps ==
    ASSUME ServerInv, NEW c \in Conns, conn[c] \in {"handshake", "serving"}, DropTask(c)
    PROVE  ServerInv'
  <1> USE DEF ServerInv
  <1>1. /\ PermitHolders' = PermitHolders \ {c} /\ c \in PermitHolders
        /\ UNCHANGED <<GuardHolders, counter>>
    BY DEF TypeOK, DropTask, PermitHolders, GuardHolders
  <1>2. Cardinality(PermitHolders') = Cardinality(PermitHolders) - 1
    BY <1>1, Finite, RemoveOne
  <1>3. CountedExactly'
    BY <1>1 DEF CountedExactly
  <1>4. CASE queue = <<>>
    <2>1. permits' = permits + 1 /\ UNCHANGED <<queue, lst, Granted>>
      BY <1>4 DEF DropTask, ReleasePermit, Granted
    <2>2. TypeOK'
      BY <2>1 DEF TypeOK, DropTask, mainVars, ConnStates
    <2>3. PermitsConserved'
      BY <1>2, <2>1, Finite DEF TypeOK, PermitsConserved
    <2>4. NoLostWakeup'
      BY <1>4, <2>1 DEF NoLostWakeup
    <2>5. AcceptedStreamsHeld'
      BY <2>1, TaskKeepsHeld, ZenonT(30) DEF DropTask, ConnStates
    <2> QED
      BY <1>3, <2>2, <2>3, <2>4, <2>5, SMTT(30)
  <1>5. CASE queue # <<>>
    <2> DEFINE h == Head(queue)
    <2>1. /\ queue \in Seq(Listeners) /\ queue' = Tail(queue)
          /\ lst' = [lst EXCEPT ![h] = "granted"] /\ permits' = permits
      BY <1>5 DEF TypeOK, DropTask, ReleasePermit
    <2>2. /\ h \in Listeners /\ h = queue[1] /\ queue' \in Seq(Listeners)
          /\ Len(queue) \in Nat \ {0} /\ Len(queue') = Len(queue) - 1
          /\ \A i \in 1..Len(queue') : queue'[i] = queue[i + 1]
      <3>1. h = queue[1] /\ Len(queue) \in Nat \ {0}
        BY <1>5, <2>1
      <3> QED
        BY <1>5, <2>1, <3>1, HeadTailProperties
    <2> HIDE DEF h
    <2>3. lst[h] = "queued"
      BY <2>2, SMTT(30) DEF NoLostWakeup
    <2>4. TypeOK'
      BY <2>1, <2>2, SMTT(30) DEF TypeOK, DropTask, mainVars, ConnStates, ListenerStates
    <2>5. Granted' = Granted \cup {h} /\ h \notin Granted
      BY <2>1, <2>2, <2>3, SMTT(30) DEF TypeOK, Granted
    <2>6. PermitsConserved'
      <3>1. Cardinality(Granted') = Cardinality(Granted) + 1
        BY <2>5, Finite, AddOne, SMTT(30)
      <3> QED
        BY <1>2, <2>1, <3>1, Finite, SMTT(30) DEF TypeOK, PermitsConserved
    <2>7. AcceptedStreamsHeld'
      BY <2>1, <2>2, <2>3, TaskKeepsHeld, ZenonT(30) DEF TypeOK, DropTask, ConnStates
    <2>8. queue' # <<>> => permits' = 0
      BY <1>5, <2>1 DEF NoLostWakeup
    <2>9. ASSUME NEW k \in Listeners
          PROVE  (lst[k] = "queued" <=> \E i \in 1..Len(queue) : queue[i] = k)'
      <3>1. CASE k = h
        <4>1. \A i \in 1..Len(queue') : queue'[i] # h
          BY <2>2, SMTT(30) DEF NoLostWakeup
        <4> QED
          BY <2>1, <2>2, <3>1, <4>1, SMTT(30) DEF TypeOK
      <3>2. CASE k # h
        <4>1. lst'[k] = lst[k]
          BY <2>1, <3>2 DEF TypeOK
        <4>2. ASSUME NEW i \in 1..Len(queue), queue[i] = k
              PROVE  \E j \in 1..Len(queue') : queue'[j] = k
          <5>1. i # 1 /\ i - 1 \in 1..Len(queue')
            BY <2>2, <3>2, <4>2, SMTT(30)
          <5>2. queue'[i - 1] = queue[(i - 1) + 1] /\ (i - 1) + 1 = i
            BY <2>2, <5>1
          <5> QED
            BY <4>2, <5>1, <5>2
        <4>3. ASSUME NEW i \in 1..Len(queue'), queue'[i] = k
              PROVE  \E j \in 1..Len(queue) : queue[j] = k
          BY <2>2, <4>3
        <4> QED
          BY <4>1, <4>2, <4>3 DEF NoLostWakeup
      <3> QED
        BY <3>1, <3>2
    <2>10. \A i, j \in 1..Len(queue') : queue'[i] = queue'[j] => i = j
      BY <2>2, SMTT(30) DEF NoLostWakeup
    <2> QED
      BY <1>3, <2>4, <2>6, <2>7, <2>8, <2>9, <2>10, SMTT(30) DEF NoLostWakeup
  <1> QED
    BY <1>4, <1>5

\* Every step of the system preserves the invariant.
LEMMA ServerStep == ServerInv /\ [Next]_vars => ServerInv'
  <1> SUFFICES ASSUME ServerInv, [Next]_vars PROVE ServerInv'
    OBVIOUS
  <1>1. CASE \E l \in Listeners : ListenerStep(l)
    BY <1>1, AcceptKeeps, MoveKeeps, AcquireKeeps, SpawnKeeps, SMTT(30) DEF ListenerStep
  <1>2. CASE \E c \in Conns : TaskStep(c)
    BY <1>2, TaskStartsKeeps, HandshakeOkKeeps, DropTaskKeeps, GuardDroppedKeeps, SMTT(30)
    DEF TaskStep, HandshakeFails, ConnectionEnds
  <1>3. CASE TriggerShutdown \/ MainStep \/ Tick \/ Terminated \/ UNCHANGED vars
    BY <1>3, MainTypes, MainKeepsServer DEF ServerInv
  <1> QED
    BY <1>1, <1>2, <1>3 DEF Next

\* The invariant holds in every reachable state.
LEMMA ServerInvariant == Spec => []ServerInv
  BY ServerInit, ServerStep, PTL DEF Spec

\* The semaphore, over all listeners: permits are neither lost nor created,
\* so at most max_connections tasks own one.
THEOREM PermitsAreConserved == Spec => []PermitsConserved
  BY ServerInvariant, PTL DEF ServerInv

\* The state has its types; the counter, in particular, never goes below zero.
THEOREM TypeCorrect == Spec => []TypeOK
  BY ServerInvariant, PTL DEF ServerInv

\* The in-flight counter is the number of live guards.
THEOREM CounterIsExact == Spec => []CountedExactly
  BY ServerInvariant, PTL DEF ServerInv

\* No permit is free while an accept loop waits for one.
THEOREM NoWakeupIsLost == Spec => []NoLostWakeup
  BY ServerInvariant, PTL DEF ServerInv

\* Accepted streams stay with one running accept loop, shutdown or not.
THEOREM StreamsAreHeld == Spec => []AcceptedStreamsHeld
  BY ServerInvariant, PTL DEF ServerInv

-----------------------------------------------------------------------------
(* Sockets.                                                                *)

\* Tasks own at most max_connections sockets, and each accept loop at most one.
LEMMA SocketBound == ServerInv => SocketsBounded
  <1> SUFFICES ASSUME ServerInv PROVE SocketsBounded
    OBVIOUS
  <1> DEFINE Accepted == {c \in Conns : conn[c] = "accepted"}
             holder == [c \in Accepted |-> CHOOSE l \in Listeners : held[l] = c]
  <1>1. OpenSockets = Accepted \cup PermitHolders /\ Accepted \in SUBSET Conns
    BY DEF OpenSockets, PermitHolders
  <1>2. \A c \in Accepted : holder[c] \in Listeners /\ held[holder[c]] = c
    BY DEF ServerInv, AcceptedStreamsHeld
  <1>3. holder \in Injection(Accepted, Listeners)
    <2>1. holder \in [Accepted -> Listeners]
      BY <1>2, ZenonT(30)
    <2>2. \A a, b \in Accepted : holder[a] = holder[b] => a = b
      BY <1>2
    <2> HIDE DEF holder
    <2> QED
      BY <2>1, <2>2 DEF Injection, IsInjective
  <1>4. IsFiniteSet(Listeners) /\ Cardinality(Listeners) = NumListeners
    BY ListenersAssumption, FS_Interval DEF Listeners
  <1> HIDE DEF holder
  <1>5. IsFiniteSet(Accepted) /\ Cardinality(Accepted) <= NumListeners
    BY <1>3, <1>4, FS_Injection
  <1>6. Cardinality(Accepted) \in Nat
    BY <1>5, FS_CardinalityType
  <1>7. Cardinality(PermitHolders) <= MaxConnections
    BY Finite, CapAssumption DEF ServerInv, TypeOK, PermitsConserved
  <1>8. Accepted \cap PermitHolders = {}
    BY DEF PermitHolders
  <1>9. Cardinality(OpenSockets) = Cardinality(Accepted) + Cardinality(PermitHolders)
    <2>1. Cardinality(Accepted \cap PermitHolders) = 0
      BY <1>8, FS_EmptySet
    <2>2. Cardinality(OpenSockets) = Cardinality(Accepted) + Cardinality(PermitHolders)
                                     - Cardinality(Accepted \cap PermitHolders)
      BY <1>1, <1>5, Finite, FS_Union
    <2> QED
      BY <1>6, <2>1, <2>2, Finite
  <1> HIDE DEF Accepted
  <1> QED
    BY <1>5, <1>6, <1>7, <1>9, Finite, ListenersAssumption, CapAssumption, SMTT(30) DEF SocketsBounded

\* Client sockets exceed max_connections by at most one per listener.
THEOREM SocketsAreBounded == Spec => []SocketsBounded
  BY ServerInvariant, SocketBound, PTL

-----------------------------------------------------------------------------
(* The shutdown sequence.                                                  *)

\* run_server reports a drained server only when no guard is alive.
LEMMA DrainStep ==
    ServerInv /\ [Next]_vars =>
        (outcome' = "drained" /\ outcome # "drained" => GuardHolders = {})
  <1> SUFFICES ASSUME ServerInv, [Next]_vars, outcome' = "drained", outcome # "drained"
               PROVE  GuardHolders = {}
    BY SMTT(30)
  <1>1. DrainPoll \/ DrainReport
    BY DEF Next, ListenerStep, TaskStep, MainStep, Accept, AcceptFails, BackoffEnds,
           Acquire, Spawn, ListenerStops, TaskStarts, HandshakeOk, HandshakeFails,
           ConnectionEnds, DropTask, GuardDropped, TriggerShutdown, MainSeesShutdown,
           ListenerJoined, JoinTimesOut, NextHandle, Tick, Terminated, vars, mainVars
  <1>2. counter = 0
    BY <1>1 DEF DrainPoll, DrainReport
  <1> QED
    BY <1>2, Finite, FS_EmptySet, ZenonT(30) DEF ServerInv, CountedExactly

\* The report "all in-flight requests completed" is true of the guards.
THEOREM DrainIsTruthful == Spec => DrainSeesGuards
  BY ServerInvariant, DrainStep, PTL DEF Spec, DrainSeesGuards

\* Arithmetic the bound on the shutdown time needs.
LEMMA TimesMonotone ==
    ASSUME NEW a \in Nat, NEW b \in Nat, NEW t \in Nat, a <= b
    PROVE  a * t <= b * t
  <1>1. PICK d \in Nat : b = a + d
    <2>1. b - a \in Nat /\ b = a + (b - a)
      OBVIOUS
    <2> QED
      BY <2>1
  <1>2. b * t = a * t + d * t
    BY <1>1
  <1>3. a * t \in Nat /\ d * t \in Nat
    BY SMTT(30)
  <1> QED
    BY <1>2, <1>3

\* Steps of the server and of the signal task do not touch the clock.
LEMMA ServerKeepsClock ==
    ASSUME (\E l \in Listeners : ListenerStep(l)) \/ (\E c \in Conns : TaskStep(c))
             \/ TriggerShutdown \/ Terminated \/ UNCHANGED vars
    PROVE  UNCHANGED mainVars
  BY DEF ListenerStep, TaskStep, Accept, AcceptFails, BackoffEnds, Acquire, Spawn,
         ListenerStops, TaskStarts, HandshakeOk, HandshakeFails, ConnectionEnds,
         DropTask, GuardDropped, TriggerShutdown, Terminated, vars, mainVars

LEMMA ClockInit == Init => ClockInv
  <1> SUFFICES ASSUME Init PROVE ClockInv
    OBVIOUS
  <1>1. (1 - 1) * ShutdownTimeout + 0 = 0
    BY TimeoutAssumption
  <1> QED
    BY <1>1, ListenersAssumption, TimeoutAssumption DEF Init, ClockInv

LEMMA ClockStep == TypeOK /\ ClockInv /\ [Next]_vars => ClockInv'
  <1> SUFFICES ASSUME TypeOK, ClockInv, [Next]_vars PROVE ClockInv'
    OBVIOUS
  <1>1. CASE \/ \E l \in Listeners : ListenerStep(l)
             \/ \E c \in Conns : TaskStep(c)
             \/ TriggerShutdown \/ Terminated \/ UNCHANGED vars
    BY <1>1, ServerKeepsClock DEF ClockInv, mainVars
  <1>2. CASE MainSeesShutdown
    BY <1>2 DEF ClockInv, MainSeesShutdown
  <1>3. CASE ListenerJoined \/ JoinTimesOut
    <2>1. /\ main = "joining" /\ joining' = joining + 1 /\ waited' = 0 /\ elapsed' = elapsed
          /\ main' = IF joining = NumListeners THEN "draining" ELSE "joining"
      BY <1>3 DEF ListenerJoined, JoinTimesOut, NextHandle
    <2>2. (joining - 1) * ShutdownTimeout + ShutdownTimeout = (joining' - 1) * ShutdownTimeout
      BY <2>1, TimeoutAssumption DEF ClockInv
    <2>3. (joining - 1) * ShutdownTimeout \in Nat
      BY TimeoutAssumption DEF ClockInv
    <2>4. elapsed' <= (joining' - 1) * ShutdownTimeout + waited'
      BY <2>1, <2>2, <2>3, TimeoutAssumption, SMTT(30) DEF ClockInv, TypeOK
    <2> QED
      BY <2>1, <2>4, TimeoutAssumption, ListenersAssumption, SMTT(30) DEF ClockInv
  <1>4. CASE DrainPoll \/ DrainReport
    BY <1>4, TimeoutAssumption, SMTT(30) DEF ClockInv, TypeOK, DrainPoll, DrainReport
  <1>5. CASE Tick
    <2>1. (joining - 1) * ShutdownTimeout \in Nat
      BY TimeoutAssumption DEF ClockInv
    <2>2. /\ waited < ShutdownTimeout /\ waited' = waited + 1 /\ elapsed' = elapsed + 1
          /\ joining' = joining /\ main' \in {"joining", "draining"}
          /\ main' = "joining" => main = "joining"
      BY <1>5 DEF ClockInv, Tick
    <2>3. elapsed' <= (joining' - 1) * ShutdownTimeout + waited'
      BY <2>1, <2>2, SMTT(30) DEF ClockInv, TypeOK
    <2> QED
      BY <2>2, <2>3, TimeoutAssumption DEF ClockInv, TypeOK
  <1> QED
    BY <1>1, <1>2, <1>3, <1>4, <1>5, SMTT(30) DEF Next, MainStep

LEMMA ClockBound == TypeOK /\ ClockInv => ShutdownBounded
  <1> SUFFICES ASSUME TypeOK, ClockInv PROVE ShutdownBounded
    OBVIOUS
  <1>1. (joining - 1) * ShutdownTimeout <= NumListeners * ShutdownTimeout
    BY TimesMonotone, ListenersAssumption, TimeoutAssumption DEF ClockInv
  <1>2. (NumListeners + 1) * ShutdownTimeout = NumListeners * ShutdownTimeout + ShutdownTimeout
    BY ListenersAssumption, TimeoutAssumption
  <1>3. (joining - 1) * ShutdownTimeout \in Nat /\ NumListeners * ShutdownTimeout \in Nat
    BY ListenersAssumption, TimeoutAssumption DEF ClockInv
  <1> QED
    BY <1>1, <1>2, <1>3, TimeoutAssumption, SMTT(30) DEF ClockInv, ShutdownBounded, TypeOK

\* The time the shutdown sequence takes, for any number of listeners.
THEOREM ShutdownIsBounded == Spec => []ShutdownBounded
  <1>1. Spec => []ClockInv
    BY ClockInit, ClockStep, TypeCorrect, PTL DEF Spec
  <1> QED
    BY <1>1, TypeCorrect, ClockBound, PTL

-----------------------------------------------------------------------------
(* The implementation of Admission.                                        *)

\* The streams of the accept loops that a permit was assigned to.
GrantedStreams == {held[l] : l \in Granted}

\* Of the clients Admission counts as admitted, each one has a permit.
LEMMA AdmittedCount ==
    ASSUME ServerInv
    PROVE  Cardinality(Admitted) \in Nat /\ Cardinality(Admitted) = MaxConnections - permits
  <1> DEFINE hold == [l \in Granted |-> held[l]]
  <1>1. \A l \in Granted : /\ held[l] \in Conns /\ conn[held[l]] = "accepted"
                            /\ \A k \in Granted : held[k] = held[l] => k = l
    BY DEF ServerInv, TypeOK, AcceptedStreamsHeld, Granted
  <1>2. hold \in Bijection(Granted, GrantedStreams)
    <2>1. hold \in [Granted -> GrantedStreams]
      BY DEF GrantedStreams
    <2>2. \A a, b \in Granted : hold[a] = hold[b] => a = b
      BY <1>1
    <2>3. \A t \in GrantedStreams : \E l \in Granted : hold[l] = t
      BY DEF GrantedStreams
    <2> HIDE DEF hold
    <2> QED
      BY <2>1, <2>2, <2>3 DEF Bijection, Injection, Surjection, IsInjective
  <1> HIDE DEF hold
  <1>3. IsFiniteSet(GrantedStreams) /\ Cardinality(GrantedStreams) = Cardinality(Granted)
    BY <1>2, Finite, FS_Bijection DEF ExistsBijection
  <1>4. PermitHolders \cap GrantedStreams = {}
    BY <1>1 DEF PermitHolders, GrantedStreams
  <1>5. Cardinality(PermitHolders \cap GrantedStreams) = 0
    BY <1>4, FS_EmptySet
  <1>6. Cardinality(Admitted) = Cardinality(PermitHolders) + Cardinality(Granted)
    <2>1. Cardinality(PermitHolders \cup GrantedStreams)
              = Cardinality(PermitHolders) + Cardinality(GrantedStreams)
                - Cardinality(PermitHolders \cap GrantedStreams)
      BY <1>3, Finite, FS_Union
    <2>2. Admitted = PermitHolders \cup GrantedStreams
      BY DEF Admitted, GrantedStreams
    <2> QED
      BY <1>3, <1>5, <2>1, <2>2, Finite, SMTT(30)
  <1> QED
    BY <1>6, Finite, CapAssumption, SMTT(30) DEF ServerInv, TypeOK, PermitsConserved

\* The clients that wait are distinct connections.
LEMMA WaitingType ==
    ASSUME ServerInv
    PROVE  /\ Waiting \in Seq(Conns) /\ Len(Waiting) = Len(queue) /\ Len(queue) \in Nat
           /\ \A i \in 1..Len(queue) : /\ queue[i] \in Listeners /\ lst[queue[i]] = "queued"
                                        /\ Waiting[i] = held[queue[i]]
  <1>1. queue \in Seq(Listeners) /\ Len(queue) \in Nat
    BY LenProperties DEF ServerInv, TypeOK
  <1>2. \A i \in 1..Len(queue) : queue[i] \in Listeners /\ lst[queue[i]] = "queued"
    BY <1>1, ElementOfSeq DEF ServerInv, NoLostWakeup
  <1>3. \A i \in 1..Len(queue) : held[queue[i]] \in Conns
    BY <1>2 DEF ServerInv, TypeOK, AcceptedStreamsHeld
  <1> QED
    BY <1>1, <1>2, <1>3 DEF Waiting

\* Steps that change only the places of clients that neither wait nor have a
\* permit, or that keep one.
LEMMA KeepsWaiting ==
    ASSUME ServerInv, queue' = queue,
           \A l \in Listeners : lst[l] = "queued" => held'[l] = held[l]
    PROVE  Waiting' = Waiting
  <1>1. \A i \in 1..Len(queue) : held'[queue[i]] = held[queue[i]]
    BY WaitingType
  <1> QED
    BY <1>1 DEF Waiting

LEMMA ListenerKeeps ==
    ASSUME ServerInv, NEW l \in Listeners, ListenerStep(l), ~Acquire(l)
    PROVE  Waiting' = Waiting /\ Admitted' = Admitted
  <1> USE DEF ServerInv
  <1>1. ASSUME NEW c \in Conns, Accept(l, c) PROVE Waiting' = Waiting /\ Admitted' = Admitted
    <2>1. Waiting' = Waiting
      BY <1>1, KeepsWaiting, SMTT(30) DEF Accept, TypeOK
    <2>2. PermitHolders' = PermitHolders /\ Granted' = Granted
      BY <1>1 DEF Accept, TypeOK, PermitHolders, Granted
    <2>3. \A k \in Granted : held'[k] = held[k]
      BY <1>1 DEF Accept, TypeOK, Granted
    <2> QED
      BY <2>1, <2>2, <2>3, SMTT(30) DEF Admitted
  <1>2. CASE AcceptFails(l) \/ BackoffEnds(l) \/ ListenerStops(l)
    <2>1. Waiting' = Waiting
      BY <1>2, KeepsWaiting, SMTT(30) DEF AcceptFails, BackoffEnds, ListenerStops
    <2>2. UNCHANGED <<PermitHolders, Granted, held>>
      BY <1>2, SMTT(30) DEF AcceptFails, BackoffEnds, ListenerStops, TypeOK, PermitHolders, Granted
    <2> QED
      BY <2>1, <2>2 DEF Admitted
  <1>3. CASE Spawn(l)
    <2>1. held[l] \in Conns /\ conn[held[l]] = "accepted" /\ lst[l] = "granted"
      BY <1>3, SMTT(30) DEF TypeOK, Spawn, AcceptedStreamsHeld
    <2>2. Waiting' = Waiting
      BY <1>3, <2>1, KeepsWaiting, SMTT(30) DEF Spawn, TypeOK
    <2>3. PermitHolders' = PermitHolders \cup {held[l]} /\ Granted' = Granted \ {l}
      BY <1>3, <2>1, SMTT(30) DEF Spawn, TypeOK, PermitHolders, Granted
    <2>4. l \in Granted /\ \A k \in Granted \ {l} : held'[k] = held[k]
      BY <1>3, <2>1, SMTT(30) DEF Spawn, TypeOK, Granted
    <2> QED
      BY <2>2, <2>3, <2>4, SMTT(30) DEF Admitted
  <1> QED
    BY <1>1, <1>2, <1>3, SMTT(30) DEF ListenerStep

LEMMA OthersKeep ==
    ASSUME ServerInv,
           \/ \E c \in Conns : TaskStarts(c) \/ HandshakeOk(c) \/ GuardDropped(c)
           \/ UNCHANGED serverVars
    PROVE  Waiting' = Waiting /\ Admitted' = Admitted
  <1>1. UNCHANGED <<queue, held, lst>>
    BY DEF TaskStarts, HandshakeOk, GuardDropped, serverVars
  <1>2. PermitHolders' = PermitHolders
    BY DEF ServerInv, TypeOK, TaskStarts, HandshakeOk, GuardDropped, serverVars, PermitHolders
  <1> QED
    BY <1>1, <1>2 DEF Waiting, Admitted, Granted

\* Admission counts as this module does.
LEMMA SameCount == Cap!Cardinality(Admitted) = Cardinality(Admitted)
  BY DEF Cap!Cardinality, Cardinality, Cap!IsFiniteSet, IsFiniteSet

\* A client that calls acquire_owned arrives.
LEMMA AcquireArrives ==
    ASSUME ServerInv, NEW l \in Listeners, Acquire(l)
    PROVE  held[l] \in Conns /\ Cap!Arrive(held[l])
  <1> USE DEF ServerInv
  <1>1. lst[l] = "acquire" /\ held[l] \in Conns /\ conn[held[l]] = "accepted"
    BY SMTT(30) DEF Acquire, TypeOK, AcceptedStreamsHeld
  <1>2. held[l] \notin Admitted
    BY <1>1, SMTT(30) DEF Admitted, PermitHolders, Granted, AcceptedStreamsHeld
  <1>3. \A i \in 1..Len(Waiting) : Waiting[i] # held[l]
    BY <1>1, WaitingType DEF AcceptedStreamsHeld
  <1>4. UNCHANGED <<held, PermitHolders>>
    BY DEF Acquire, PermitHolders
  <1>5. CASE permits > 0
    <2>1. Granted' = Granted \cup {l}
      BY <1>5 DEF TypeOK, Acquire, Granted
    <2>2. Admitted' = Admitted \cup {held[l]}
      BY <1>4, <2>1, SMTT(30) DEF Admitted
    <2>3. Waiting' = Waiting
      BY <1>4, <1>5 DEF Acquire, Waiting
    <2>4. Cardinality(Admitted) < MaxConnections
      BY <1>5, AdmittedCount, CapAssumption, SMTT(30) DEF TypeOK
    <2> QED
      BY <1>1, <1>2, <1>3, <2>2, <2>3, <2>4, SameCount, SMTT(30) DEF Cap!Arrive, Cap!Waits
  <1>6. CASE ~(permits > 0)
    <2>1. Granted' = Granted
      BY <1>6 DEF TypeOK, Acquire, Granted
    <2>2. Admitted' = Admitted
      BY <1>4, <2>1, SMTT(30) DEF Admitted
    <2>3. queue \in Seq(Listeners) /\ queue' = Append(queue, l)
      BY <1>6 DEF TypeOK, Acquire
    <2>4. Waiting' = Append(Waiting, held[l])
      <3>1. /\ queue' \in Seq(Listeners) /\ Len(queue') = Len(queue) + 1
            /\ \A i \in 1..Len(queue) : queue'[i] = queue[i]
            /\ queue'[Len(queue) + 1] = l
        BY <2>3, AppendProperties
      <3>2. /\ Append(Waiting, held[l]) \in Seq(Conns)
            /\ Len(Append(Waiting, held[l])) = Len(queue) + 1
            /\ \A i \in 1..Len(queue) : Append(Waiting, held[l])[i] = Waiting[i]
            /\ Append(Waiting, held[l])[Len(queue) + 1] = held[l]
        BY <1>1, WaitingType, AppendProperties, SMTT(30)
      <3>3. Waiting' = [i \in 1..(Len(queue) + 1) |-> held[queue'[i]]]
        BY <1>4, <3>1, SMTT(30) DEF Waiting
      <3>4. \A i \in 1..(Len(queue) + 1) : Waiting'[i] = Append(Waiting, held[l])[i]
        BY <3>1, <3>2, <3>3, WaitingType, SMTT(30)
      <3>5. Waiting' \in Seq(Conns) /\ Len(Waiting') = Len(queue) + 1
        <4>1. \A i \in 1..(Len(queue) + 1) : held[queue'[i]] \in Conns
          BY <1>1, <3>1, WaitingType, ElementOfSeq, SMTT(30)
        <4> QED
          BY <3>3, <4>1, WaitingType, SMTT(30)
      <3> QED
        BY <3>2, <3>4, <3>5, SeqEqual, SMTT(30)
    <2>5. Cardinality(Admitted) = MaxConnections
      BY <1>6, AdmittedCount, CapAssumption DEF TypeOK
    <2> QED
      BY <1>1, <1>2, <1>3, <2>2, <2>4, <2>5, SameCount, SMTT(30) DEF Cap!Arrive, Cap!Waits
  <1> QED
    BY <1>1, <1>5, <1>6, SMTT(30)

\* A client whose task ends leaves, and the first waiting one is admitted.
LEMMA DropTaskLeaves ==
    ASSUME ServerInv, NEW c \in Conns, conn[c] \in {"handshake", "serving"}, DropTask(c)
    PROVE  Cap!Leave(c)
  <1> USE DEF ServerInv
  <1>1. PermitHolders' = PermitHolders \ {c} /\ c \in PermitHolders /\ held' = held
    BY SMTT(30) DEF TypeOK, DropTask, PermitHolders
  <1>2. c \in Admitted
    BY <1>1 DEF Admitted
  <1>3. \A k \in Granted : held[k] # c
    BY DEF TypeOK, AcceptedStreamsHeld, Granted
  <1>4. CASE queue = <<>>
    <2>1. UNCHANGED <<queue, lst, held>>
      BY <1>1, <1>4, SMTT(30) DEF DropTask, ReleasePermit
    <2>2. Waiting' = Waiting /\ Granted' = Granted
      BY <2>1 DEF Waiting, Granted
    <2>3. Waiting = <<>>
      <3>1. Waiting \in Seq(Conns) /\ Len(Waiting) = 0
        BY <1>4, WaitingType
      <3> QED
        BY <3>1, EmptySeq
    <2>4. Admitted' = Admitted \ {c}
      BY <1>1, <1>3, <2>1, <2>2, SMTT(30) DEF Admitted
    <2> QED
      BY <1>2, <2>2, <2>3, <2>4, SMTT(30) DEF Cap!Leave
  <1>5. CASE queue # <<>>
    <2> DEFINE h == Head(queue)
    <2>1. /\ queue \in Seq(Listeners) /\ queue' = Tail(queue)
          /\ lst' = [lst EXCEPT ![h] = "granted"]
      BY <1>5 DEF TypeOK, DropTask, ReleasePermit
    <2>2. /\ h \in Listeners /\ h = queue[1] /\ queue' \in Seq(Listeners)
          /\ Len(queue) \in Nat \ {0} /\ Len(queue') = Len(queue) - 1
          /\ \A i \in 1..Len(queue') : queue'[i] = queue[i + 1]
      <3>1. h = queue[1] /\ Len(queue) \in Nat \ {0}
        BY <1>5, <2>1, SMTT(30)
      <3> QED
        BY <1>5, <2>1, <3>1, HeadTailProperties, SMTT(30)
    <2> HIDE DEF h
    <2>3. Granted' = Granted \cup {h}
      BY <2>1, <2>2 DEF TypeOK, Granted
    <2>4. Waiting # <<>> /\ Head(Waiting) = held[h]
      <3>1. Waiting \in Seq(Conns) /\ Len(Waiting) \in Nat \ {0} /\ Waiting[1] = held[h]
        BY <2>2, WaitingType, SMTT(30)
      <3> QED
        BY <3>1, SMTT(30)
    <2>5. Admitted' = (Admitted \ {c}) \cup {Head(Waiting)}
      BY <1>1, <1>3, <2>3, <2>4, SMTT(30) DEF Admitted
    <2>6. Waiting' = Tail(Waiting)
      <3>1. /\ Tail(Waiting) \in Seq(Conns) /\ Len(Tail(Waiting)) = Len(queue')
            /\ \A i \in 1..Len(queue') : Tail(Waiting)[i] = Waiting[i + 1]
        BY <2>2, <2>4, WaitingType, HeadTailProperties, SMTT(30)
      <3>2. Waiting' = [i \in 1..Len(queue') |-> held[queue'[i]]]
        BY <1>1 DEF Waiting
      <3>3. \A i \in 1..Len(queue') : i + 1 \in 1..Len(queue) /\ Waiting'[i] = Waiting[i + 1]
        BY <2>2, <3>2, WaitingType
      <3>4. Waiting' \in Seq(Conns) /\ Len(Waiting') = Len(queue')
        <4>0. \A j \in 1..Len(queue) : Waiting[j] \in Conns
          BY WaitingType, ElementOfSeq, SMTT(30)
        <4>1. \A i \in 1..Len(queue') : held[queue'[i]] \in Conns
          BY <3>2, <3>3, <4>0, SMTT(30)
        <4>2. PICK n \in Nat : n = Len(queue')
          BY <2>2, SMTT(30)
        <4>3. Waiting' \in [1..n -> Conns]
          BY <3>2, <4>1, <4>2
        <4> QED
          BY <4>2, <4>3
      <3> QED
        BY <3>1, <3>3, <3>4, SeqEqual, SMTT(30)
    <2> QED
      BY <1>2, <2>4, <2>5, <2>6, SMTT(30) DEF Cap!Leave
  <1> QED
    BY <1>4, <1>5

LEMMA AdmissionInit == Init => Cap!Init
  <1> SUFFICES ASSUME Init PROVE Cap!Init
    OBVIOUS
  <1>1. Waiting = <<>>
    BY DEF Init, Waiting
  <1>2. Admitted = {}
    BY DEF Init, Admitted, PermitHolders, Granted
  <1> QED
    BY <1>1, <1>2 DEF Cap!Init

LEMMA AdmissionStep == ServerInv /\ [Next]_vars => [Cap!Next]_(Cap!vars)
  <1> SUFFICES ASSUME ServerInv, [Next]_vars
               PROVE  Cap!Next \/ (Waiting' = Waiting /\ Admitted' = Admitted)
    BY DEF Cap!vars
  <1>1. ASSUME NEW l \in Listeners, Acquire(l) PROVE Cap!Next
    BY <1>1, AcquireArrives DEF Cap!Next
  <1>2. ASSUME NEW c \in Conns, HandshakeFails(c) \/ ConnectionEnds(c) PROVE Cap!Next
    BY <1>2, DropTaskLeaves DEF Cap!Next, HandshakeFails, ConnectionEnds
  <1>3. CASE \E l \in Listeners : ListenerStep(l)
    BY <1>1, <1>3, ListenerKeeps
  <1>4. CASE \E c \in Conns : TaskStep(c)
    BY <1>2, <1>4, OthersKeep, SMTT(30) DEF TaskStep
  <1>5. CASE TriggerShutdown \/ MainStep \/ Tick \/ Terminated \/ UNCHANGED vars
    BY <1>5, MainTypes, OthersKeep DEF ServerInv
  <1> QED
    BY <1>3, <1>4, <1>5 DEF Next

\* HttpsServer implements Admission: with any number of listeners, connections
\* get their permits in the order in which their accept loops asked for them,
\* at most max_connections hold one, and no loop waits while one is free.
THEOREM ImplementsAdmission == Spec => FirstComeFirstServed
  BY AdmissionInit, AdmissionStep, ServerInvariant, PTL DEF Spec, FirstComeFirstServed, Cap!Spec
=============================================================================
