------------------------- MODULE IdleTrackingProofs -------------------------
(***************************************************************************)
(* Proofs about IdleTracking, for any set of requests and any timeout.     *)
(***************************************************************************)
EXTENDS IdleTracking, FiniteSetTheorems, TLAPS

\* What holds of every connection.  While the watchdog is between its two
\* tests after a sleep no request is active: only the connection's task, which
\* is inside the watchdog, could start one.
IdleInv ==
    /\ TypeOK
    /\ CountCovers
    /\ watchdog = "check" => Active = {}

\* What holds of an HTTP/1 connection: last_activity tells exactly for how
\* long there was no request, the value the watchdog read is not stale, and it
\* wakes up before that time exceeds the timeout.
Http1Inv ==
    /\ \A r \in Requests : req[r] # "releasing"
    /\ Active # {} => quiet = 0
    /\ Active = {} => idle = quiet
    /\ watchdog = "sleep" => quiet + timer <= Timeout
    /\ watchdog = "read" => remaining = Timeout - idle

\* The steps of one request.
RequestStep(r) ==
    \/ Call(r) \/ Respond(r) \/ Frame(r)
    \/ BodyEnds(r) \/ ReleaseTouches(r) \/ BodyDropped(r) \/ StreamReset(r)

WatchdogStep == WatchdogReads \/ WatchdogDecides \/ WatchdogWakes \/ WatchdogChecks

\* The active requests are finitely many.
LEMMA ActiveFinite == IsFiniteSet(Active) /\ Cardinality(Active) \in Nat
  <1>1. Active \in SUBSET Requests
    BY DEF Active
  <1>2. IsFiniteSet(Active)
    BY <1>1, RequestsAssumption, FS_Subset
  <1> QED
    BY <1>2, FS_CardinalityType

LEMMA ActiveEmpty == Active = {} <=> Cardinality(Active) = 0
  BY ActiveFinite, FS_EmptySet

LEMMA IdleInit == Init => IdleInv
  <1> SUFFICES ASSUME Init PROVE IdleInv
    OBVIOUS
  <1>1. Active = {}
    BY DEF Init, Active
  <1>2. CountCovers
    BY <1>1, FS_EmptySet DEF Init, CountCovers
  <1> QED
    BY <1>1, <1>2, IdleTimeoutAssumption
    DEF Init, IdleInv, TypeOK, RequestStates, WatchdogStates

LEMMA TypeStep == TypeOK /\ CountCovers /\ [Next]_vars => TypeOK'
  <1> SUFFICES ASSUME TypeOK, CountCovers, [Next]_vars PROVE TypeOK'
    OBVIOUS
  <1> USE IdleTimeoutAssumption DEF TypeOK, stateVars, watchdogVars
  <1>1. ASSUME NEW r \in Requests, Call(r) \/ Respond(r) \/ Frame(r) PROVE TypeOK'
    <2>1. CASE Call(r)
      <3>1. decremented' \in [Requests -> BOOLEAN]
        BY <2>1 DEF Call
      <3> QED
        BY <2>1, <3>1 DEF Call, RequestStates
    <2>2. CASE Respond(r)
      BY <2>2 DEF Respond, RequestStates
    <2>3. CASE Frame(r)
      BY <2>3 DEF Frame
    <2> QED
      BY <1>1, <2>1, <2>2, <2>3
  <1>2. ASSUME NEW r \in Requests, BodyEnds(r) PROVE TypeOK'
    <2>1. r \in Active
      BY <1>2 DEF BodyEnds, Active
    <2>2. inFlight > 0
      BY <2>1, ActiveFinite, ActiveEmpty DEF CountCovers
    <2> QED
      BY <1>2, <2>2 DEF BodyEnds, Release, RequestStates
  <1>3. ASSUME NEW r \in Requests, ReleaseTouches(r) \/ BodyDropped(r) \/ StreamReset(r)
        PROVE  TypeOK'
    BY <1>3 DEF ReleaseTouches, BodyDropped, StreamReset, RequestStates
  <1>4. CASE ConnectionEnds
    BY <1>4, ZenonT(30) DEF ConnectionEnds
  <1>5. CASE WatchdogReads
    BY <1>5 DEF WatchdogReads, WatchdogStates
  <1>6. CASE WatchdogDecides
    <2>1. open' \in BOOLEAN
      <3>1. open' = open \/ open' = FALSE
        BY <1>6, ZenonT(30) DEF WatchdogDecides
      <3> QED
        BY <3>1, ZenonT(30)
    <2>2. timer' \in 0..Timeout /\ watchdog' \in WatchdogStates
      <3>1. CASE inFlight > 0 \/ remaining > 0
        <4>1. watchdog' = "sleep" /\ (timer' = Timeout \/ timer' = remaining)
          BY <1>6, <3>1, ZenonT(30) DEF WatchdogDecides
        <4> QED
          BY <4>1 DEF WatchdogStates
      <3>2. CASE ~(inFlight > 0 \/ remaining > 0)
        BY <1>6, <3>2 DEF WatchdogDecides
      <3> QED
        BY <3>1, <3>2
    <2> QED
      BY <1>6, <2>1, <2>2 DEF WatchdogDecides
  <1>7. CASE WatchdogWakes \/ WatchdogChecks
    BY <1>7, ZenonT(30) DEF WatchdogWakes, WatchdogChecks, WatchdogStates
  <1>8. CASE Tick
    BY <1>8 DEF Tick
  <1>9. CASE Closed \/ UNCHANGED vars
    BY <1>9 DEF Closed, vars
  <1> QED
    BY <1>1, <1>2, <1>3, <1>4, <1>5, <1>6, <1>7, <1>8, <1>9 DEF Next

\* How each step changes the set of active requests.
LEMMA ActiveStep ==
    ASSUME TypeOK, [Next]_vars
    PROVE  \/ \E r \in Requests : /\ Call(r)
                                  /\ r \notin Active /\ Active' = Active \cup {r}
           \/ \E r \in Requests : /\ BodyEnds(r) \/ StreamReset(r)
                                  /\ r \in Active /\ Active' = Active \ {r}
           \/ Active' = Active /\ inFlight' = inFlight
  <1> USE DEF TypeOK, Active, stateVars
  <1>1. ASSUME NEW r \in Requests, Call(r)
        PROVE  r \notin Active /\ Active' = Active \cup {r}
    BY <1>1 DEF Call
  <1>2. ASSUME NEW r \in Requests, BodyEnds(r) \/ StreamReset(r)
        PROVE  r \in Active /\ Active' = Active \ {r}
    BY <1>2 DEF BodyEnds, Release, StreamReset
  <1>3. ASSUME NEW r \in Requests,
               Respond(r) \/ Frame(r) \/ ReleaseTouches(r) \/ BodyDropped(r)
        PROVE  Active' = Active /\ inFlight' = inFlight
    BY <1>3 DEF Respond, Frame, ReleaseTouches, BodyDropped
  <1>4. CASE ConnectionEnds \/ WatchdogStep \/ Tick \/ Closed \/ UNCHANGED vars
    BY <1>4 DEF ConnectionEnds, WatchdogStep, WatchdogReads, WatchdogDecides,
                WatchdogWakes, WatchdogChecks, Tick, Closed, vars
  <1> QED
    BY <1>1, <1>2, <1>3, <1>4 DEF Next, WatchdogStep

\* The protocol of a connection does not change.
LEMMA ProtocolStep == [Next]_vars => http2' = http2
  <1>1. ASSUME NEW r \in Requests, RequestStep(r) PROVE http2' = http2
    BY <1>1 DEF RequestStep, Call, Respond, Frame, BodyEnds, ReleaseTouches, BodyDropped,
                StreamReset
  <1>2. ASSUME ConnectionEnds \/ WatchdogStep \/ Tick \/ Closed \/ UNCHANGED vars
        PROVE  http2' = http2
    BY <1>2 DEF ConnectionEnds, WatchdogStep, WatchdogReads, WatchdogDecides,
                WatchdogWakes, WatchdogChecks, Tick, Closed, vars
  <1> QED
    BY <1>1, <1>2 DEF Next, RequestStep, WatchdogStep

LEMMA CountStep == TypeOK /\ CountCovers /\ [Next]_vars => CountCovers'
  <1> SUFFICES ASSUME TypeOK, CountCovers, [Next]_vars PROVE CountCovers'
    OBVIOUS
  <1>1. ASSUME NEW r \in Requests, Call(r), r \notin Active, Active' = Active \cup {r}
        PROVE  CountCovers'
    <2>1. Cardinality(Active') = Cardinality(Active) + 1
      BY <1>1, ActiveFinite, FS_AddElement
    <2> QED
      BY <1>1, <2>1, ActiveFinite DEF Call, CountCovers, TypeOK
  <1>2. ASSUME NEW r \in Requests, BodyEnds(r) \/ StreamReset(r),
               r \in Active, Active' = Active \ {r}
        PROVE  CountCovers'
    <2>1. Cardinality(Active') = Cardinality(Active) - 1
      BY <1>2, ActiveFinite, FS_RemoveElement
    <2>2. CASE BodyEnds(r)
      <3>1. inFlight' = inFlight - 1
        BY <2>2 DEF BodyEnds, Release
      <3> QED
        BY <2>1, <3>1, ActiveFinite, ProtocolStep DEF CountCovers, TypeOK
    <2>3. CASE StreamReset(r)
      <3>1. http2 /\ inFlight' = inFlight
        BY <2>3 DEF StreamReset, stateVars
      <3>2. http2'
        BY <3>1, ProtocolStep, ZenonT(30)
      <3>3. Cardinality(Active') <= inFlight'
        BY <2>1, <3>1, ActiveFinite DEF CountCovers, TypeOK
      <3> QED
        BY <3>2, <3>3 DEF CountCovers
    <2> QED
      BY <1>2, <2>2, <2>3
  <1>3. CASE Active' = Active /\ inFlight' = inFlight
    BY <1>3, ProtocolStep DEF CountCovers
  <1> QED
    BY <1>1, <1>2, <1>3, ActiveStep

\* Between its two tests the watchdog keeps new requests out.
LEMMA CheckStep ==
    ASSUME IdleInv, [Next]_vars, watchdog' = "check"
    PROVE  Active' = {}
  <1>1. CASE watchdog = "check"
    <2>1. Active = {}
      BY <1>1 DEF IdleInv
    <2>2. \A r \in Requests : ~Call(r)
      BY <1>1 DEF Call, ConnTaskFree
    <2> QED
      BY <2>1, <2>2, ActiveStep DEF IdleInv
  <1>2. CASE watchdog # "check"
    <2>1. WatchdogWakes
      BY <1>2 DEF Next, Call, Respond, Frame, BodyEnds, ReleaseTouches, BodyDropped,
                  StreamReset, ConnectionEnds, WatchdogReads, WatchdogDecides,
                  WatchdogChecks, Tick, Closed, vars, watchdogVars
    <2>2. inFlight = 0 /\ Active' = Active
      BY <2>1 DEF WatchdogWakes, Active
    <2> QED
      BY <2>2, ActiveFinite, ActiveEmpty DEF IdleInv, CountCovers
  <1> QED
    BY <1>1, <1>2

LEMMA IdleStep == IdleInv /\ [Next]_vars => IdleInv'
  BY TypeStep, CountStep, CheckStep DEF IdleInv

LEMMA IdleInvariant == Spec => []IdleInv
  BY IdleInit, IdleStep, PTL DEF Spec

\* The state has its types: in_flight does not underflow.
THEOREM TypeCorrect == Spec => []TypeOK
  BY IdleInvariant, PTL DEF IdleInv

\* in_flight covers every running handler and streaming body.
THEOREM CountIsCovering == Spec => []CountCovers
  BY IdleInvariant, PTL DEF IdleInv

\* The watchdog closes only in one of its two places.
LEMMA CloseStep ==
    ASSUME TypeOK, [Next]_vars, WatchdogCloses
    PROVE  \/ watchdog = "read" /\ inFlight = 0 /\ ~(remaining > 0)
           \/ watchdog = "check" /\ idle >= Timeout
  <1>1. open /\ ~open' /\ watchdog # "sleep"
    BY DEF WatchdogCloses, ConnTaskFree
  <1>2. ASSUME NEW r \in Requests PROVE ~RequestStep(r)
    BY <1>1, ZenonT(30) DEF RequestStep, Call, Respond, Frame, BodyEnds, ReleaseTouches, BodyDropped,
                StreamReset
  <1>3. ~ConnectionEnds /\ ~Tick
    BY <1>1, ZenonT(30) DEF ConnectionEnds, Tick, ConnTaskFree
  <1>4. ~WatchdogReads /\ ~WatchdogWakes /\ ~Closed /\ ~UNCHANGED vars
    BY <1>1, ZenonT(30) DEF WatchdogReads, WatchdogWakes, Closed, vars
  <1>5. CASE WatchdogDecides
    <2>1. ~(inFlight > 0 \/ remaining > 0) /\ watchdog = "read"
      BY <1>1, <1>5, ZenonT(30) DEF WatchdogDecides
    <2> QED
      BY <2>1 DEF TypeOK
  <1>6. CASE WatchdogChecks
    BY <1>1, <1>6, ZenonT(30) DEF WatchdogChecks
  <1> QED
    BY <1>2, <1>3, <1>4, <1>5, <1>6 DEF Next, RequestStep

LEMMA CutStep == IdleInv /\ [Next]_vars => (WatchdogCloses => Active = {})
  <1> SUFFICES ASSUME IdleInv, [Next]_vars, WatchdogCloses PROVE Active = {}
    OBVIOUS
  <1>1. CASE watchdog = "check"
    BY <1>1 DEF IdleInv
  <1>2. CASE inFlight = 0
    BY <1>2, ActiveFinite, ActiveEmpty DEF IdleInv, CountCovers
  <1> QED
    BY <1>1, <1>2, CloseStep DEF IdleInv

\* No request is cut off by the idle timeout, on HTTP/1 and on HTTP/2.
THEOREM ActiveIsNotCut == Spec => ActiveNotCut
  BY IdleInvariant, CutStep, PTL DEF Spec, ActiveNotCut

-----------------------------------------------------------------------------
(* HTTP/1, where nothing interleaves with the watchdog.                    *)

LEMMA Http1Init == Init => Http1Inv
  <1> SUFFICES ASSUME Init PROVE Http1Inv
    OBVIOUS
  <1>1. Active = {}
    BY DEF Init, Active
  <1> QED
    BY <1>1 DEF Init, Http1Inv

\* Without HTTP/2 the request steps run only while the watchdog sleeps.
LEMMA Http1Request ==
    ASSUME ~http2, IdleInv, Http1Inv, NEW r \in Requests, RequestStep(r)
    PROVE  Http1Inv'
  <1> USE IdleTimeoutAssumption DEF Http1Inv, watchdogVars, stateVars
  <1>1. watchdog = "sleep" /\ watchdog' = "sleep" /\ timer' = timer
    BY DEF RequestStep, Call, Respond, Frame, BodyEnds, ReleaseTouches, BodyDropped,
           StreamReset, StreamTaskFree, ConnTaskFree
  <1>2. CASE Call(r)
    <2>1. Active' # {} /\ quiet' = 0 /\ \A q \in Requests : req'[q] # "releasing"
      BY <1>2 DEF Call, Active, IdleInv, TypeOK
    <2> QED
      BY <1>1, <2>1 DEF IdleInv, TypeOK
  <1>3. CASE Respond(r) \/ Frame(r)
    <2>1. Active' = Active /\ Active # {} /\ quiet' = quiet
      BY <1>3 DEF Respond, Frame, Active, IdleInv, TypeOK
    <2>2. \A q \in Requests : req'[q] # "releasing"
      BY <1>3 DEF Respond, Frame, IdleInv, TypeOK
    <2> QED
      BY <1>1, <2>1, <2>2
  <1>4. CASE BodyEnds(r)
    <2>1. r \in Active /\ quiet' = quiet /\ idle' = 0
      BY <1>4 DEF BodyEnds, Release, Active
    <2>2. quiet = 0
      BY <2>1
    <2>3. \A q \in Requests : req'[q] # "releasing"
      BY <1>4 DEF BodyEnds, Release, IdleInv, TypeOK
    <2> QED
      BY <1>1, <2>1, <2>2, <2>3
  <1>5. CASE BodyDropped(r)
    <2>1. Active' = Active /\ quiet' = quiet /\ idle' = idle
      BY <1>5 DEF BodyDropped, Active, IdleInv, TypeOK
    <2>2. \A q \in Requests : req'[q] # "releasing"
      BY <1>5 DEF BodyDropped, IdleInv, TypeOK
    <2> QED
      BY <1>1, <2>1, <2>2
  <1>6. ~ReleaseTouches(r) /\ ~StreamReset(r)
    BY DEF ReleaseTouches, StreamReset
  <1> QED
    BY <1>2, <1>3, <1>4, <1>5, <1>6 DEF RequestStep

LEMMA Http1Watchdog ==
    ASSUME ~http2, IdleInv, Http1Inv, WatchdogStep
    PROVE  Http1Inv'
  <1> USE IdleTimeoutAssumption
  <1>1. UNCHANGED <<req, Active, idle, quiet>>
    BY DEF WatchdogStep, WatchdogReads, WatchdogDecides, WatchdogWakes, WatchdogChecks,
           stateVars, Active
  <1>2. CASE WatchdogReads
    BY <1>1, <1>2 DEF WatchdogReads, Http1Inv
  <1>3. CASE WatchdogDecides
    <2>1. CASE inFlight > 0
      <3>1. watchdog' = "sleep" /\ timer' = Timeout
        BY <1>3, <2>1, ZenonT(30) DEF WatchdogDecides
      <3>2. Active # {}
        BY <2>1, ActiveEmpty DEF IdleInv, TypeOK, CountCovers
      <3> QED
        BY <1>1, <3>1, <3>2 DEF Http1Inv
    <2>2. CASE ~(inFlight > 0) /\ remaining > 0
      <3>1. watchdog = "read" /\ watchdog' = "sleep" /\ timer' = remaining
        BY <1>3, <2>2, ZenonT(30) DEF WatchdogDecides
      <3>2. Active = {}
        BY <2>2, ActiveEmpty, ActiveFinite DEF IdleInv, TypeOK, CountCovers
      <3>3. quiet + timer' <= Timeout
        BY <3>1, <3>2 DEF Http1Inv, IdleInv, TypeOK
      <3> QED
        BY <1>1, <3>1, <3>3 DEF Http1Inv
    <2>3. CASE ~(inFlight > 0) /\ ~(remaining > 0)
      <3>1. watchdog' = "read" /\ watchdog = "read" /\ remaining' = remaining
        BY <1>3, <2>3, ZenonT(30) DEF WatchdogDecides
      <3> QED
        BY <1>1, <3>1 DEF Http1Inv
    <2> QED
      BY <2>1, <2>2, <2>3
  <1>4. CASE WatchdogWakes \/ WatchdogChecks
    <2>1. watchdog' \in {"top", "check"}
      BY <1>4 DEF WatchdogWakes, WatchdogChecks
    <2> QED
      BY <1>1, <2>1 DEF Http1Inv
  <1> QED
    BY <1>2, <1>3, <1>4 DEF WatchdogStep

LEMMA Http1Step == ~http2 /\ IdleInv /\ Http1Inv /\ [Next]_vars => Http1Inv'
  <1> SUFFICES ASSUME ~http2, IdleInv, Http1Inv, [Next]_vars PROVE Http1Inv'
    OBVIOUS
  <1>1. CASE Tick
    <2>1. Active' = Active /\ req' = req /\ watchdog' = watchdog /\ watchdog = "sleep"
      BY <1>1 DEF Tick, Active
    <2>2. timer \in Nat /\ timer > 0 /\ timer' = timer - 1 /\ quiet \in Nat /\ idle \in Nat
      BY <1>1, IdleTimeoutAssumption DEF Tick, IdleInv, TypeOK
    <2>3. CASE Active # {}
      BY <1>1, <2>1, <2>2, <2>3, IdleTimeoutAssumption DEF Tick, Http1Inv
    <2>4. CASE Active = {}
      <3>1. quiet < Timeout /\ idle = quiet
        BY <2>1, <2>2, <2>4, IdleTimeoutAssumption DEF Http1Inv
      <3>2. idle' = idle + 1 /\ quiet' = quiet + 1
        BY <1>1, <2>2, <2>4, <3>1, IdleTimeoutAssumption DEF Tick
      <3> QED
        BY <2>1, <2>2, <2>4, <3>1, <3>2, IdleTimeoutAssumption DEF Http1Inv
    <2> QED
      BY <2>3, <2>4
  <1>2. CASE ConnectionEnds \/ Closed \/ UNCHANGED vars
    BY <1>2 DEF ConnectionEnds, Closed, vars, stateVars, watchdogVars, Http1Inv, Active
  <1> QED
    BY <1>1, <1>2, Http1Request, Http1Watchdog DEF Next, RequestStep, WatchdogStep

Http1OnlyInv == ~http2 => Http1Inv

LEMMA Http1Invariant == Spec => []Http1OnlyInv
  <1>1. Init => Http1OnlyInv
    BY Http1Init DEF Http1OnlyInv
  <1>2. IdleInv /\ Http1OnlyInv /\ [Next]_vars => Http1OnlyInv'
    BY Http1Step, ProtocolStep DEF Http1OnlyInv
  <1> QED
    BY <1>1, <1>2, IdleInvariant, PTL DEF Spec

LEMMA EarlyStep ==
    IdleInv /\ Http1OnlyInv /\ [Next]_vars => (WatchdogCloses /\ ~http2 => quiet >= Timeout)
  <1> SUFFICES ASSUME IdleInv, Http1Inv, [Next]_vars, WatchdogCloses
               PROVE  quiet >= Timeout
    BY DEF Http1OnlyInv
  <1>1. Active = {} /\ idle = quiet
    BY CutStep DEF Http1Inv
  <1> QED
    BY <1>1, CloseStep, IdleTimeoutAssumption DEF IdleInv, Http1Inv, TypeOK

\* An HTTP/1 connection is closed only after a whole timeout without requests.
THEOREM Http1NoEarlyClose == Spec => NoEarlyClose
  BY IdleInvariant, Http1Invariant, EarlyStep, PTL DEF Spec, NoEarlyClose

LEMMA InTime == IdleInv /\ Http1OnlyInv => ClosedInTime
  BY IdleTimeoutAssumption DEF IdleInv, TypeOK, Http1Inv, Http1OnlyInv, ClosedInTime

\* An HTTP/1 connection without requests is closed when the timeout is over.
THEOREM Http1ClosedInTime == Spec => []ClosedInTime
  BY IdleInvariant, Http1Invariant, InTime, PTL
=============================================================================
