---------------------------- MODULE IdleTracking ----------------------------
(***************************************************************************)
(* The idle timeout of one client connection: IdleState, the service and   *)
(* body wrappers that update it (IdleTrackingService, IdleTrackingBody)    *)
(* and idle_watchdog, whose return closes the connection.                  *)
(*                                                                         *)
(* On an HTTP/1 connection everything is polled by the connection's task,  *)
(* so nothing happens between two statements of the watchdog.  On HTTP/2   *)
(* hyper calls the service in the connection's task, but polls responses   *)
(* and their bodies in a task per stream: their steps interleave with the  *)
(* watchdog's.                                                             *)
(***************************************************************************)
EXTENDS Naturals, FiniteSets

CONSTANTS
    Requests,   \* requests that can be in progress at the same time
    Timeout,    \* connection_idle_timeout, in ticks
    MaxInFlight \* bound on in_flight, which reset streams can drive up

ASSUME RequestsAssumption == IsFiniteSet(Requests)
ASSUME IdleTimeoutAssumption == Timeout \in Nat \ {0}
ASSUME MaxInFlightAssumption == MaxInFlight \in Nat

VARIABLES
    http2,        \* the connection speaks HTTP/2, as ALPN chose
    req,          \* where each request is
    decremented,  \* IdleTrackingBody::decremented of each request's body
    inFlight,     \* IdleState::in_flight
    idle,         \* age of IdleState::last_activity, up to Timeout
    watchdog,     \* where idle_watchdog is
    remaining,    \* its local variable of that name
    timer,        \* what is left of its sleep
    open,         \* the connection is open
    quiet         \* time without any request in progress, up to Timeout + 1

stateVars == <<inFlight, idle>>
watchdogVars == <<watchdog, remaining, timer>>
vars == <<http2, req, decremented, inFlight, idle, watchdog, remaining, timer, open, quiet>>

\* "none":      no such request
\* "serving":   the inner service's future is pending
\* "body":      the response body is being streamed
\* "releasing": in release(), between fetch_sub and touch
\* "ended":     the body ended or failed, but was not dropped yet
RequestStates == {"none", "serving", "body", "releasing", "ended"}

\* "top":   at the top of the loop
\* "read":  idle_for was read, in_flight was not
\* "sleep": in tokio::time::sleep
\* "check": woke up and read in_flight = 0, idle_for is read next
WatchdogStates == {"top", "read", "sleep", "check"}

Active == {r \in Requests : req[r] \in {"serving", "body"}}

\* The connection's task is not inside the watchdog.
ConnTaskFree == watchdog = "sleep"

\* The task that polls a response can take a step.
StreamTaskFree == http2 \/ ConnTaskFree

Init ==
    /\ http2 \in BOOLEAN
    /\ req = [r \in Requests |-> "none"]
    /\ decremented = [r \in Requests |-> FALSE]
    /\ inFlight = 0
    /\ idle = 0
    /\ watchdog = "top"
    /\ remaining = 0
    /\ timer = 0
    /\ open = TRUE
    /\ quiet = 0

-----------------------------------------------------------------------------
(* Requests.                                                               *)

\* IdleTrackingService::call: touch, then count the request.  HTTP/1 serves
\* one request at a time.
Call(r) ==
    /\ open /\ ConnTaskFree
    /\ req[r] = "none"
    /\ http2 \/ \A q \in Requests : req[q] = "none"
    /\ inFlight < MaxInFlight
    /\ req' = [req EXCEPT ![r] = "serving"]
    /\ decremented' = [decremented EXCEPT ![r] = FALSE]
    /\ idle' = 0
    /\ inFlight' = inFlight + 1
    /\ quiet' = 0
    /\ UNCHANGED <<http2, watchdogVars, open>>

\* Mutant: the request is released when its response is ready, before the
\* body is streamed.
RespondReleases(r) ==
    /\ open /\ StreamTaskFree
    /\ req[r] = "serving"
    /\ req' = [req EXCEPT ![r] = "body"]
    /\ decremented' = [decremented EXCEPT ![r] = TRUE]
    /\ inFlight' = inFlight - 1
    /\ idle' = 0
    /\ UNCHANGED <<http2, watchdogVars, open, quiet>>

\* The inner service answers: the body is wrapped, the count is kept.  (Its
\* error type is Infallible, so the Err branch is never taken.)
Respond(r) ==
    /\ open /\ StreamTaskFree
    /\ req[r] = "serving"
    /\ req' = [req EXCEPT ![r] = "body"]
    /\ UNCHANGED <<http2, decremented, stateVars, watchdogVars, open, quiet>>

\* poll_frame yields a frame.
Frame(r) ==
    /\ open /\ StreamTaskFree
    /\ req[r] = "body"
    /\ idle' = 0
    /\ UNCHANGED <<http2, req, decremented, inFlight, watchdogVars, open, quiet>>

\* IdleTrackingBody::release.  On HTTP/2 the watchdog can run between the
\* decrement and the touch.
Release(r) ==
    /\ ~decremented[r]
    /\ decremented' = [decremented EXCEPT ![r] = TRUE]
    /\ inFlight' = inFlight - 1
    /\ IF http2
       THEN /\ req' = [req EXCEPT ![r] = "releasing"]
            /\ UNCHANGED idle
       ELSE /\ req' = [req EXCEPT ![r] = "ended"]
            /\ idle' = 0

ReleaseTouches(r) ==
    /\ open
    /\ req[r] = "releasing"
    /\ req' = [req EXCEPT ![r] = "ended"]
    /\ idle' = 0
    /\ UNCHANGED <<http2, decremented, inFlight, watchdogVars, open, quiet>>

\* The body ends or fails in poll_frame, or is dropped before that.
BodyEnds(r) ==
    /\ open /\ StreamTaskFree
    /\ req[r] = "body"
    /\ Release(r)
    /\ UNCHANGED <<http2, watchdogVars, open, quiet>>

\* Drop of a body that ended: release() finds decremented set.
BodyDropped(r) ==
    /\ open /\ StreamTaskFree
    /\ req[r] = "ended" /\ decremented[r]
    /\ req' = [req EXCEPT ![r] = "none"]
    /\ UNCHANGED <<http2, decremented, stateVars, watchdogVars, open, quiet>>

\* The client resets a stream whose response is not ready: hyper drops the
\* future of call().  Only IdleTrackingBody decrements, and there is none yet.
StreamReset(r) ==
    /\ open /\ http2
    /\ req[r] = "serving"
    /\ req' = [req EXCEPT ![r] = "none"]
    /\ UNCHANGED <<http2, decremented, stateVars, watchdogVars, open, quiet>>

\* serve_connection returns first, because the peer closed or failed.
ConnectionEnds ==
    /\ open /\ ConnTaskFree
    /\ open' = FALSE
    /\ UNCHANGED <<http2, req, decremented, stateVars, watchdogVars, quiet>>

-----------------------------------------------------------------------------
(* idle_watchdog.  Its return drops the connection.                        *)

\* let idle_for = ...; let remaining = timeout.saturating_sub(idle_for)
WatchdogReads ==
    /\ open
    /\ watchdog = "top"
    /\ watchdog' = "read"
    /\ remaining' = Timeout - idle
    /\ UNCHANGED <<http2, req, decremented, stateVars, timer, open, quiet>>

\* Mutant: with requests in flight the watchdog does not start a new sleep of
\* the whole timeout but goes on with what is left.
WatchdogDecidesOnIdle ==
    /\ open
    /\ watchdog = "read"
    /\ IF remaining > 0
       THEN watchdog' = "sleep" /\ timer' = remaining /\ UNCHANGED open
       ELSE open' = FALSE /\ UNCHANGED <<watchdog, timer>>
    /\ UNCHANGED <<http2, req, decremented, stateVars, remaining, quiet>>

\* Mutant: the watchdog always sleeps for the whole timeout.
WatchdogDecidesFull ==
    /\ open
    /\ watchdog = "read"
    /\ IF inFlight > 0 \/ remaining > 0
       THEN watchdog' = "sleep" /\ timer' = Timeout /\ UNCHANGED open
       ELSE open' = FALSE /\ UNCHANGED <<watchdog, timer>>
    /\ UNCHANGED <<http2, req, decremented, stateVars, remaining, quiet>>

\* in_flight is read: choose the sleep, or return.
WatchdogDecides ==
    /\ open
    /\ watchdog = "read"
    /\ IF inFlight > 0 \/ remaining > 0
       THEN /\ watchdog' = "sleep"
            /\ timer' = IF inFlight > 0 THEN Timeout ELSE remaining
            /\ UNCHANGED open
       ELSE /\ open' = FALSE
            /\ UNCHANGED <<watchdog, timer>>
    /\ UNCHANGED <<http2, req, decremented, stateVars, remaining, quiet>>

\* The sleep is over and in_flight() == 0 is evaluated.
WatchdogWakes ==
    /\ open
    /\ watchdog = "sleep" /\ timer = 0
    /\ watchdog' = IF inFlight = 0 THEN "check" ELSE "top"
    /\ UNCHANGED <<http2, req, decremented, stateVars, remaining, timer, open, quiet>>

\* Mutant: the second test of idle_for is missing.
WatchdogChecksNothing ==
    /\ open
    /\ watchdog = "check"
    /\ open' = FALSE
    /\ UNCHANGED <<http2, req, decremented, stateVars, watchdogVars, quiet>>

\* idle_for() >= timeout is evaluated.
WatchdogChecks ==
    /\ open
    /\ watchdog = "check"
    /\ IF idle >= Timeout
       THEN open' = FALSE /\ UNCHANGED watchdog
       ELSE watchdog' = "top" /\ UNCHANGED open
    /\ UNCHANGED <<http2, req, decremented, stateVars, remaining, timer, quiet>>

\* Time passes while the watchdog sleeps.  Its timer fires on time, and no
\* task stops for a whole tick between two statements.
Tick ==
    /\ open
    /\ watchdog = "sleep" /\ timer > 0
    /\ \A r \in Requests : req[r] # "releasing"
    /\ timer' = timer - 1
    /\ idle' = IF idle < Timeout THEN idle + 1 ELSE idle
    /\ quiet' = IF Active # {} THEN 0 ELSE IF quiet <= Timeout THEN quiet + 1 ELSE quiet
    /\ UNCHANGED <<http2, req, decremented, inFlight, watchdog, remaining, open>>

Closed == ~open /\ UNCHANGED vars

Next ==
    \/ \E r \in Requests :
        \/ Call(r) \/ Respond(r) \/ Frame(r)
        \/ BodyEnds(r) \/ ReleaseTouches(r) \/ BodyDropped(r) \/ StreamReset(r)
    \/ ConnectionEnds
    \/ WatchdogReads \/ WatchdogDecides \/ WatchdogWakes \/ WatchdogChecks
    \/ Tick
    \/ Closed

Spec == Init /\ [][Next]_vars

-----------------------------------------------------------------------------
(* Properties.                                                             *)

TypeOK ==
    /\ http2 \in BOOLEAN
    /\ req \in [Requests -> RequestStates]
    /\ decremented \in [Requests -> BOOLEAN]
    /\ inFlight \in Nat
    /\ idle \in 0..Timeout
    /\ watchdog \in WatchdogStates
    /\ remaining \in 0..Timeout
    /\ timer \in 0..Timeout
    /\ open \in BOOLEAN
    /\ quiet \in 0..(Timeout + 1)

\* in_flight counts every request whose handler runs or whose body streams,
\* however calls, bodies, drops and resets interleave; on HTTP/1 it counts
\* nothing else (IdleTrackingService, IdleTrackingBody).
CountCovers ==
    /\ Cardinality(Active) <= inFlight
    /\ ~http2 => Cardinality(Active) = inFlight

WatchdogCloses == open /\ ~open' /\ ~ConnTaskFree

\* The watchdog never closes a connection under a running handler or a
\* streaming body, even when a long request looks idle (idle_watchdog).
ActiveNotCut == [][WatchdogCloses => Active = {}]_vars

\* The watchdog closes an HTTP/1 connection only after it had no request for
\* the whole timeout.  On HTTP/2 it may close early (see the README).
NoEarlyClose == [][WatchdogCloses /\ ~http2 => quiet >= Timeout]_vars

\* An HTTP/1 connection without requests does not stay open for longer than the
\* timeout.
ClosedInTime == open /\ ~http2 => quiet <= Timeout

\* The same of every connection, which connection_idle_timeout_secs is
\* documented to mean for HTTP/2 connections too.
IdleClosedInTime == open => quiet <= Timeout
=============================================================================
