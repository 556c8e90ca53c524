---------------------------- MODULE HttpsServer ----------------------------
(***************************************************************************)
(* The HTTPS side of the proxy: one accept loop per listener               *)
(* (serve_https_listener), the connection semaphore they share, the task   *)
(* spawned for every accepted connection with its in-flight guard, and the *)
(* shutdown sequence of run_server (join the listeners, drain, exit).      *)
(*                                                                         *)
(* A connection identifier is recycled once its task is gone, so a finite  *)
(* Conns still gives behaviours with unboundedly many connections.  What   *)
(* happens inside a served connection is the subject of IdleTracking.      *)
(***************************************************************************)
EXTENDS Naturals, Sequences, FiniteSets

CONSTANTS
    NumListeners,     \* number of [[listeners]] entries, one accept loop each
    Conns,            \* connections that can be open at the same time
    MaxConnections,   \* max_connections of the static configuration
    ShutdownTimeout,  \* shutdown_timeout_secs, in polls of the drain loop
    NoConn            \* no accepted connection in the hands of a listener

Listeners == 1..NumListeners

ASSUME ListenersAssumption == NumListeners \in Nat \ {0}
ASSUME ConnsAssumption == IsFiniteSet(Conns) /\ NoConn \notin Conns
ASSUME CapAssumption == MaxConnections \in Nat \ {0}
ASSUME TimeoutAssumption == ShutdownTimeout \in Nat

VARIABLES
    lst,       \* where each accept loop is
    held,      \* the accepted stream an accept loop has not spawned a task for
    conn,      \* where each connection is
    permits,   \* permits of the semaphore nobody holds
    queue,     \* accept loops waiting in acquire_owned, first come first served
    counter,   \* InFlightCounter::count
    shutdown,  \* the value of the shutdown watch channel
    main,      \* where run_server is
    joining,   \* the listener handle run_server is joining
    waited,    \* time spent in the current join or in the drain
    elapsed,   \* time since run_server saw the shutdown signal
    outcome    \* what run_server reported before it returned

serverVars == <<lst, held, conn, permits, queue, counter>>
mainVars == <<main, joining, waited, elapsed, outcome>>
vars == <<lst, held, conn, permits, queue, counter, shutdown,
          main, joining, waited, elapsed, outcome>>

\* "select":  in tokio::select!, on accept() and shutdown_rx.changed()
\* "backoff": sleeping in handle_accept_error
\* "acquire": holds an accepted stream, about to call acquire_owned
\* "queued":  waiting in acquire_owned
\* "granted": a permit was assigned to it, the task is not spawned yet
\* "stopped": left the loop; the listening socket is closed
ListenerStates == {"select", "backoff", "acquire", "queued", "granted", "stopped"}

\* "none":      not open, or still in the kernel's backlog
\* "accepted":  accepted, held by an accept loop
\* "spawned":   its task exists and owns the permit, but was not polled yet
\* "handshake": guard created, TLS handshake running
\* "serving":   hyper serves requests on it
\* "closing":   stream and permit dropped, guard not yet dropped
ConnStates == {"none", "accepted", "spawned", "handshake", "serving", "closing"}

MainStates == {"running", "joining", "draining", "sleeping", "reporting", "exited"}

Alive == main # "exited"

\* Connections whose task owns a permit, and whose task owns a guard.
PermitHolders == {c \in Conns : conn[c] \in {"spawned", "handshake", "serving"}}
GuardHolders == {c \in Conns : conn[c] \in {"handshake", "serving", "closing"}}
Granted == {l \in Listeners : lst[l] = "granted"}

\* Connections that hold a file descriptor of the process.
OpenSockets == {c \in Conns : conn[c] \in {"accepted", "spawned", "handshake", "serving"}}

-----------------------------------------------------------------------------
(* The accept loops.                                                       *)

Init ==
    /\ lst = [l \in Listeners |-> "select"]
    /\ held = [l \in Listeners |-> NoConn]
    /\ conn = [c \in Conns |-> "none"]
    /\ permits = MaxConnections
    /\ queue = <<>>
    /\ counter = 0
    /\ shutdown = FALSE
    /\ main = "running"
    /\ joining = 1
    /\ waited = 0
    /\ elapsed = 0
    /\ outcome = "none"

\* The accept branch of select! wins.  select! is not biased: the branch can
\* win although shutdown_rx.changed() is ready too.
Accept(l, c) ==
    /\ lst[l] = "select"
    /\ conn[c] = "none"
    /\ lst' = [lst EXCEPT ![l] = "acquire"]
    /\ held' = [held EXCEPT ![l] = c]
    /\ conn' = [conn EXCEPT ![c] = "accepted"]
    /\ UNCHANGED <<permits, queue, counter, shutdown, mainVars>>

\* accept() fails.  A transient error is retried at once and changes nothing;
\* for any other error the loop sleeps inside the branch, so the shutdown
\* branch is not polled until the sleep ends.
AcceptFails(l) ==
    /\ lst[l] = "select"
    /\ lst' = [lst EXCEPT ![l] = "backoff"]
    /\ UNCHANGED <<held, conn, permits, queue, counter, shutdown, mainVars>>

BackoffEnds(l) ==
    /\ lst[l] = "backoff"
    /\ lst' = [lst EXCEPT ![l] = "select"]
    /\ UNCHANGED <<held, conn, permits, queue, counter, shutdown, mainVars>>

\* Mutant: waiters are queued last in, first out.
AcquireLifo(l) ==
    /\ lst[l] = "acquire"
    /\ IF permits > 0
       THEN /\ permits' = permits - 1
            /\ lst' = [lst EXCEPT ![l] = "granted"]
            /\ UNCHANGED queue
       ELSE /\ queue' = <<l>> \o queue
            /\ lst' = [lst EXCEPT ![l] = "queued"]
            /\ UNCHANGED permits
    /\ UNCHANGED <<held, conn, counter, shutdown, mainVars>>

\* conn_sem.acquire_owned().await, inside the accept branch: a free permit is
\* taken at once, otherwise the loop queues up and polls nothing else.
Acquire(l) ==
    /\ lst[l] = "acquire"
    /\ IF permits > 0
       THEN /\ permits' = permits - 1
            /\ lst' = [lst EXCEPT ![l] = "granted"]
            /\ UNCHANGED queue
       ELSE /\ queue' = Append(queue, l)
            /\ lst' = [lst EXCEPT ![l] = "queued"]
            /\ UNCHANGED permits
    /\ UNCHANGED <<held, conn, counter, shutdown, mainVars>>

\* tokio::spawn moves the stream and the permit into the connection's task.
Spawn(l) ==
    /\ lst[l] = "granted"
    /\ lst' = [lst EXCEPT ![l] = "select"]
    /\ held' = [held EXCEPT ![l] = NoConn]
    /\ conn' = [conn EXCEPT ![held[l]] = "spawned"]
    /\ UNCHANGED <<permits, queue, counter, shutdown, mainVars>>

\* Mutant: the shutdown branch also interrupts a loop that holds a stream.
ListenerStopsAnywhere(l) ==
    /\ lst[l] \in {"select", "acquire"}
    /\ shutdown
    /\ lst' = [lst EXCEPT ![l] = "stopped"]
    /\ UNCHANGED <<held, conn, permits, queue, counter, shutdown, mainVars>>

\* The shutdown branch of select! wins and the loop is left.
ListenerStops(l) ==
    /\ lst[l] = "select"
    /\ shutdown
    /\ lst' = [lst EXCEPT ![l] = "stopped"]
    /\ UNCHANGED <<held, conn, permits, queue, counter, shutdown, mainVars>>

-----------------------------------------------------------------------------
(* The task of a connection.                                               *)

\* Mutant: the guard is created without the increment.
TaskStartsUncounted(c) ==
    /\ conn[c] = "spawned"
    /\ conn' = [conn EXCEPT ![c] = "handshake"]
    /\ UNCHANGED <<lst, held, permits, queue, counter, shutdown, mainVars>>

\* First poll of the spawned task: InFlightGuard::new increments the counter,
\* then the TLS handshake starts.
TaskStarts(c) ==
    /\ conn[c] = "spawned"
    /\ conn' = [conn EXCEPT ![c] = "handshake"]
    /\ counter' = counter + 1
    /\ UNCHANGED <<lst, held, permits, queue, shutdown, mainVars>>

HandshakeOk(c) ==
    /\ conn[c] = "handshake"
    /\ conn' = [conn EXCEPT ![c] = "serving"]
    /\ UNCHANGED <<lst, held, permits, queue, counter, shutdown, mainVars>>

\* Dropping an OwnedSemaphorePermit: tokio's semaphore assigns the permit to
\* the first waiter, and adds it to the free permits only if nobody waits.
ReleasePermit ==
    IF queue = <<>>
    THEN /\ permits' = permits + 1
         /\ UNCHANGED <<queue, lst>>
    ELSE /\ lst' = [lst EXCEPT ![Head(queue)] = "granted"]
         /\ queue' = Tail(queue)
         /\ UNCHANGED permits

\* The end of the task's block.  The stream was moved into the handshake or
\* into hyper and is closed by now; locals are dropped in reverse order, so
\* the permit goes before the guard.
DropTask(c) ==
    /\ conn' = [conn EXCEPT ![c] = "closing"]
    /\ ReleasePermit
    /\ UNCHANGED <<held, counter, shutdown, mainVars>>

\* accept_tls_with_timeout returns an error or times out: the task returns.
HandshakeFails(c) == conn[c] = "handshake" /\ DropTask(c)

\* serve_connection ends or fails, or the idle watchdog fires first.
ConnectionEnds(c) == conn[c] = "serving" /\ DropTask(c)

GuardDropped(c) ==
    /\ conn[c] = "closing"
    /\ conn' = [conn EXCEPT ![c] = "none"]
    /\ counter' = counter - 1
    /\ UNCHANGED <<lst, held, permits, queue, shutdown, mainVars>>

-----------------------------------------------------------------------------
(* run_server after all listeners were started.                            *)

\* The signal task calls trigger_shutdown (see the module ControlPlane).
TriggerShutdown ==
    /\ ~shutdown
    /\ shutdown' = TRUE
    /\ UNCHANGED <<serverVars, mainVars>>

\* shutdown_rx.changed().await returns in run_server.
MainSeesShutdown ==
    /\ main = "running"
    /\ shutdown
    /\ main' = "joining"
    /\ UNCHANGED <<serverVars, shutdown, joining, waited, elapsed, outcome>>

\* The next handle of the loop, or the drain when all were awaited.
NextHandle ==
    /\ main' = IF joining = NumListeners THEN "draining" ELSE "joining"
    /\ joining' = joining + 1
    /\ waited' = 0
    /\ UNCHANGED <<serverVars, shutdown, elapsed, outcome>>

\* timeout(shutdown_timeout, handle) returns because the listener ended.
ListenerJoined ==
    /\ main = "joining"
    /\ lst[joining] = "stopped"
    /\ NextHandle

\* Mutant: the handle is awaited without a timeout.
JoinForever ==
    /\ main = "joining"
    /\ lst[joining] = "stopped"
    /\ waited = ShutdownTimeout
    /\ NextHandle

\* timeout(shutdown_timeout, handle) expires.  The handle is dropped, which
\* detaches the listener's task: it is not aborted and goes on running.
JoinTimesOut ==
    /\ main = "joining"
    /\ lst[joining] # "stopped"
    /\ waited = ShutdownTimeout
    /\ NextHandle

\* Mutant: the deadline of the drain is looked at before the counter.
DrainPollDeadlineOnly ==
    /\ main = "draining"
    /\ IF waited >= ShutdownTimeout
       THEN main' = "exited" /\ outcome' = "drained"
       ELSE main' = "sleeping" /\ UNCHANGED outcome
    /\ UNCHANGED <<serverVars, shutdown, joining, waited, elapsed>>

\* Mutant: the drain loop never looks at its deadline.
DrainPollForever ==
    /\ main = "draining"
    /\ IF counter = 0
       THEN main' = "exited" /\ outcome' = "drained"
       ELSE main' = "sleeping" /\ UNCHANGED outcome
    /\ UNCHANGED <<serverVars, shutdown, joining, waited, elapsed>>

\* One round of drain_in_flight.
DrainPoll ==
    /\ main = "draining"
    /\ IF counter = 0
       THEN main' = "exited" /\ outcome' = "drained"
       ELSE /\ main' = IF waited >= ShutdownTimeout THEN "reporting" ELSE "sleeping"
            /\ UNCHANGED outcome
    /\ UNCHANGED <<serverVars, shutdown, joining, waited, elapsed>>

\* The deadline has passed: drain_in_flight loads the counter once more and
\* run_server reports that value.  Returning from main drops the runtime and
\* with it every task.
DrainReport ==
    /\ main = "reporting"
    /\ main' = "exited"
    /\ outcome' = IF counter = 0 THEN "drained" ELSE "forced"
    /\ UNCHANGED <<serverVars, shutdown, joining, waited, elapsed>>

\* One poll interval passes.  Timers fire on time: a join that has reached its
\* deadline, and a drain that is about to poll, act before time goes on.
Tick ==
    /\ \/ main = "joining" /\ waited < ShutdownTimeout /\ main' = main
       \/ main = "sleeping" /\ main' = "draining"
    /\ waited' = waited + 1
    /\ elapsed' = elapsed + 1
    /\ UNCHANGED <<serverVars, shutdown, joining, outcome>>

Terminated == main = "exited" /\ UNCHANGED vars

-----------------------------------------------------------------------------

ListenerStep(l) ==
    \/ \E c \in Conns : Accept(l, c)
    \/ AcceptFails(l) \/ BackoffEnds(l)
    \/ Acquire(l) \/ Spawn(l)
    \/ ListenerStops(l)

TaskStep(c) ==
    \/ TaskStarts(c) \/ HandshakeOk(c) \/ HandshakeFails(c)
    \/ ConnectionEnds(c) \/ GuardDropped(c)

MainStep ==
    \/ MainSeesShutdown \/ ListenerJoined \/ JoinTimesOut
    \/ DrainPoll \/ DrainReport

Next ==
    \/ /\ Alive
       /\ \/ \E l \in Listeners : ListenerStep(l)
          \/ \E c \in Conns : TaskStep(c)
          \/ TriggerShutdown
          \/ MainStep
          \/ Tick
    \/ Terminated

\* The runtime keeps polling the main task and its timers expire.  Nothing is
\* assumed about clients: a connection may be served for ever.
MainFairness == WF_vars(Alive /\ MainStep) /\ WF_vars(Alive /\ Tick)

Spec == Init /\ [][Next]_vars /\ MainFairness

\* In addition, as long as no shutdown is requested, tasks that can run do run,
\* a handshake ends (its timeout sees to that) and a served connection ends at
\* some time.  After that clients may hold on for ever.
TaskFairness ==
    /\ \A l \in Listeners : WF_vars(~shutdown /\ Alive /\ Spawn(l))
    /\ \A c \in Conns :
        /\ WF_vars(~shutdown /\ Alive /\ TaskStarts(c))
        /\ WF_vars(~shutdown /\ Alive /\ (HandshakeOk(c) \/ HandshakeFails(c)))
        /\ WF_vars(~shutdown /\ Alive /\ ConnectionEnds(c))

EndingSpec == Spec /\ TaskFairness

-----------------------------------------------------------------------------
(* Properties.                                                             *)

TypeOK ==
    /\ lst \in [Listeners -> ListenerStates]
    /\ held \in [Listeners -> Conns \cup {NoConn}]
    /\ conn \in [Conns -> ConnStates]
    /\ permits \in Nat
    /\ queue \in Seq(Listeners)
    /\ counter \in Nat
    /\ shutdown \in BOOLEAN
    /\ main \in MainStates
    /\ joining \in Nat
    /\ waited \in Nat
    /\ elapsed \in Nat
    /\ outcome \in {"none", "drained", "forced"}

\* Every permit is free, assigned to an accept loop, or owned by exactly one
\* connection task, whatever way connections end.  So at most max_connections
\* tasks handshake or serve at a time, over all listeners together
\* (ConnectionSemaphore, serve_https_listener).
PermitsConserved ==
    permits + Cardinality(Granted) + Cardinality(PermitHolders) = MaxConnections

\* The counter that drain_in_flight polls is the number of live guards: it
\* does not drift however tasks end (InFlightGuard).
CountedExactly == counter = Cardinality(GuardHolders)

\* An accept loop waits in acquire_owned only while no permit is free, and
\* every waiting loop is in the semaphore's queue exactly once: a released
\* permit is never left unused with a connection waiting for it.
NoLostWakeup ==
    /\ queue # <<>> => permits = 0
    /\ \A l \in Listeners :
        lst[l] = "queued" <=> \E i \in 1..Len(queue) : queue[i] = l
    /\ \A i, j \in 1..Len(queue) : queue[i] = queue[j] => i = j

\* A stream that was accepted is in the hands of exactly one accept loop that
\* is still running and will spawn its task: shutdown does not strand it.
AcceptedStreamsHeld ==
    /\ \A l \in Listeners :
        /\ held[l] # NoConn <=> lst[l] \in {"acquire", "queued", "granted"}
        /\ held[l] # NoConn => conn[held[l]] = "accepted"
        /\ \A k \in Listeners : held[k] = held[l] /\ held[l] # NoConn => k = l
    /\ \A c \in Conns : conn[c] = "accepted" => \E l \in Listeners : held[l] = c

\* Client sockets exceed max_connections by at most one per listener: the one
\* stream each accept loop may hold while it waits for a permit.
SocketsBounded == Cardinality(OpenSockets) <= MaxConnections + NumListeners

\* The shutdown sequence takes at most one shutdown_timeout per listener and
\* one more for the drain.
ShutdownBounded == elapsed <= (NumListeners + 1) * ShutdownTimeout

\* run_server reports "all in-flight requests completed" only if no task holds
\* a guard at the moment of the report.
DrainSeesGuards ==
    [][outcome' = "drained" /\ outcome # "drained" => GuardHolders = {}]_vars

\* Once a shutdown is requested the process exits, even if clients never let
\* go of their connections and listeners never stop.
ShutdownCompletes == shutdown ~> main = "exited"

\* If served connections end at some time, an accept loop that waits for a
\* permit gets one or the process exits, whatever the other listeners do.
WaitersServed ==
    \A l \in Listeners : lst[l] = "queued" ~> (lst[l] = "granted" \/ ~Alive)

\* The clients that wait for a permit, and those that have one.
Waiting == [i \in 1..Len(queue) |-> held[queue[i]]]
Admitted == PermitHolders \cup {held[l] : l \in Granted}

Cap == INSTANCE Admission WITH
    Clients <- Conns, Cap <- MaxConnections, waiting <- Waiting, admitted <- Admitted

\* The accept loops, the semaphore and the connection tasks together implement
\* first come, first served admission with the cap max_connections, whatever
\* listener a connection came from (ConnectionSemaphore, serve_https_listener).
FirstComeFirstServed == Cap!Spec
=============================================================================
