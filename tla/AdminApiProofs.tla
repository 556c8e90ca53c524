--------------------------- MODULE AdminApiProofs ---------------------------
(***************************************************************************)
(* TypeOK, KeyHeld and AnswersAtomic for any number of operators, keys and *)
(* sites.                                                                  *)
(***************************************************************************)
EXTENDS AdminApi, TLAPS

\* A request carries a key its operator has; it is checked only with one, and a
\* rotation returns a key that was made.
RequestInv(a) ==
    /\ req[a].token.key = 0 \/ req[a].token.key \in knows[a]
    /\ req[a].stage = "checked" => req[a].token.key # 0
    /\ Returned(a) # {} => req[a].token.key # 0 /\ req[a].value \in 1..made

\* The window of a request has what is stored now, and only a running process
\* has requests.
WindowInv(a) ==
    req[a].stage # "idle" => up /\ [key |-> key, sites |-> sites] \in window[a]

\* The key in the file is one that was made, and as soon as an operator knows
\* any key, one of them knows this one.
FileInv ==
    /\ \A t \in load_admin_key(keyFile) : t.key \in 1..made
    /\ \A a \in Operators : knows[a] # {} =>
           \A t \in load_admin_key(keyFile) : \E b \in Operators : t.key \in knows[b]

RequestsInv == \A b \in Operators : RequestInv(b) /\ WindowInv(b) /\ Atomic(b)

IInv ==
    /\ TypeOK
    /\ RequestsInv
    /\ FileInv
    /\ KeyHeld

LEMMA PlainKey ==
    ASSUME NEW k PROVE Plain(k).key = k /\ Plain(k).newline = FALSE
  BY DEF Plain

\* What is loaded from a file is the file's key without its line end.
LEMMA Loaded ==
    ASSUME NEW t \in Text
    PROVE  /\ load_admin_key({t}) = IF t.key = 0 THEN {} ELSE {Plain(t.key)}
           /\ load_admin_key({}) = {}
<1>1. trim(t) = Plain(t.key)
  BY DEF trim
<1>2. load_admin_key({}) = {}
  BY DEF load_admin_key
<1>3. CASE t.key = 0
  <2>1. {u \in {t} : u.key # 0} = {}
    BY <1>3
  <2> QED
    BY <1>2, <1>3, <2>1, ZenonT(30) DEF load_admin_key
<1>4. CASE t.key # 0
  <2>1. {u \in {t} : u.key # 0} = {t}
    BY <1>4
  <2>2. {trim(u) : u \in {t}} = {trim(t)}
    BY ZenonT(30)
  <2> QED
    BY <1>1, <1>2, <1>4, <2>1, <2>2, ZenonT(30) DEF load_admin_key
<1> QED
  BY <1>3, <1>4

LEMMA KeyOfFile ==
    ASSUME TypeOK
    PROVE  load_admin_key(keyFile) = {} \/ \E k \in Keys : load_admin_key(keyFile) = {Plain(k)}
<1>1. CASE keyFile = {}
  BY <1>1 DEF load_admin_key
<1>2. CASE keyFile # {}
  <2>1. PICK t \in Text : keyFile = {t}
    BY <1>2 DEF TypeOK
  <2>2. t.key = 0 \/ t.key \in Keys
    BY AdminAssumption DEF Text, Keys
  <2> QED
    BY <2>1, <2>2, Loaded, ZenonT(30)
<1> QED
  BY <1>1, <1>2

\* The stored hash is the one of a key.
LEMMA StoredTexts ==
    ASSUME TypeOK PROVE key \in SUBSET Text
<1>1. \A k \in Keys : Plain(k) \in Text
  BY AdminAssumption DEF Keys, Plain, Text
<1> QED
  BY <1>1 DEF TypeOK

LEMMA InitInv == Init => IInv
<1> SUFFICES ASSUME Init PROVE IInv
  OBVIOUS
<1>1. Plain(0) \in Text /\ Plain(1) \in Text /\ 1 \in Keys
  BY AdminAssumption DEF Plain, Text, Keys
<1>2. keyFile = {} \/ \E t \in Text : keyFile = {t}
  BY <1>1 DEF Init
<1>3. key = {} \/ \E k \in Keys : key = {Plain(k)}
  <2>1. load_admin_key({}) = {} /\ load_admin_key({Plain(0)}) = {}
    BY <1>1, Loaded, PlainKey, ZenonT(30)
  <2>2. load_admin_key({Plain(1)}) = {Plain(1)}
    <3>1. Plain(1).key = 1 /\ Plain(1).key # 0
      BY DEF Plain
    <3>2. load_admin_key({Plain(1)}) = {Plain(Plain(1).key)}
      <4>1. load_admin_key({Plain(1)}) = IF Plain(1).key = 0 THEN {} ELSE {Plain(Plain(1).key)}
        BY <1>1, Loaded, ZenonT(30)
      <4> QED
        BY <3>1, <4>1, ZenonT(30)
    <3> QED
      BY <3>1, <3>2, ZenonT(30)
  <2> QED
    BY <1>1, <2>1, <2>2, SMTT(30) DEF Init
<1>4. Idle \in Requests
  BY <1>1 DEF Idle, Requests, Ops
<1>5. TypeOK
  BY <1>1, <1>2, <1>3, <1>4, AdminAssumption DEF Init, TypeOK
<1>6. ASSUME NEW a \in Operators PROVE RequestInv(a) /\ WindowInv(a) /\ Atomic(a)
  BY PlainKey, ZenonT(30) DEF Init, RequestInv, WindowInv, Atomic, Idle, Returned
<1>7. \A t \in load_admin_key(keyFile) : t.key \in 1..made
  <2>1. load_admin_key({}) = {} /\ load_admin_key({Plain(0)}) = {}
    BY <1>1, Loaded, PlainKey, ZenonT(30)
  <2>2. CASE keyFile = {Plain(1)}
    <3>1. \A t \in load_admin_key({Plain(1)}) : t = Plain(1)
      BY DEF load_admin_key, trim, Plain
    <3> QED
      BY <2>2, <3>1 DEF Init, Plain
  <2> QED
    BY <2>1, <2>2 DEF Init
<1>8. FileInv /\ KeyHeld
  BY <1>7 DEF Init, FileInv, KeyHeld
<1> QED
  BY <1>5, <1>6, <1>8 DEF IInv, RequestsInv

\* The rest of the program leaves b's request alone and only adds to what b
\* knows and may have seen.
Kept(b) ==
    /\ req'[b] = req[b]
    /\ knows[b] \subseteq knows'[b]
    /\ window[b] \subseteq window'[b]
    /\ made <= made'
    /\ req[b].stage # "idle" => up' /\ [key |-> key', sites |-> sites'] \in window'[b]

LEMMA KeptInv ==
    ASSUME NEW b \in Operators, made \in Nat, made' \in Nat,
           RequestInv(b), Atomic(b), Kept(b)
    PROVE  RequestInv(b)' /\ WindowInv(b)' /\ Atomic(b)'
<1>1. RequestInv(b)'
  BY DEF RequestInv, Kept, Returned
<1>2. WindowInv(b)'
  BY DEF WindowInv, Kept
<1>3. Atomic(b)'
  BY DEF Atomic, Kept
<1> QED
  BY <1>1, <1>2, <1>3

\* What is known, returned or lost stays so, in one of these places.
Holds(k) == k \in lost \/ \E b \in Operators : k \in knows[b] \cup Returned(b)

LEMMA HeldKept ==
    ASSUME KeyHeld, key' = key, keyFile' = keyFile,
           \A k : Holds(k) => Holds(k)'
    PROVE  KeyHeld'
  BY DEF KeyHeld, Holds

LEMMA FileKept ==
    ASSUME FileInv, keyFile' = keyFile, made \in Nat, made' \in Nat, made <= made',
           \A b \in Operators : knows[b] \subseteq knows'[b],
           (\E b \in Operators : knows'[b] # {}) => (\E b \in Operators : knows[b] # {})
    PROVE  FileInv'
  BY DEF FileInv

-----------------------------------------------------------------------------
(* The steps of the operators.                                             *)

LEMMA AllKept ==
    ASSUME TypeOK, RequestsInv, made' \in Nat, \A b \in Operators : Kept(b)
    PROVE  RequestsInv'
<1> SUFFICES ASSUME NEW b \in Operators PROVE RequestInv(b)' /\ WindowInv(b)' /\ Atomic(b)'
  BY DEF RequestsInv
<1>1. made \in Nat
  BY AdminAssumption DEF TypeOK, Keys
<1> QED
  BY <1>1, KeptInv DEF RequestsInv

LEMMA LearnKeyStep ==
    ASSUME IInv, NEW a \in Operators, LearnKey(a) PROVE IInv'
<1> USE DEF LearnKey
<1>1. PICK t \in load_admin_key(keyFile) : knows' = [knows EXCEPT ![a] = @ \cup {t.key}]
  BY ZenonT(30)
<1>2. load_admin_key(keyFile) = {t}
  BY <1>1, KeyOfFile DEF IInv
<1>3. knows \in [Operators -> SUBSET (1..made)]
  BY DEF IInv, TypeOK
<1>4. \A b \in Operators : knows[b] \subseteq knows'[b]
  BY <1>1, <1>3
<1>5. t.key \in knows'[a]
  BY <1>1, <1>3
<1>6. FileInv'
  <2>1. \A u \in load_admin_key(keyFile)' : u.key \in (1..made)'
    BY DEF IInv, FileInv
  <2> QED
    BY <1>2, <1>5, <2>1, ZenonT(30) DEF FileInv
<1>7. KeyHeld'
  <2>1. \A k : Holds(k) => Holds(k)'
    BY <1>4 DEF Holds, Returned
  <2> QED
    BY <2>1, HeldKept DEF IInv
<1>8. RequestsInv'
  <2>1. \A b \in Operators : Kept(b)
    BY <1>4, AdminAssumption DEF Kept, IInv, RequestsInv, TypeOK, WindowInv, Keys
  <2> QED
    BY <2>1, AllKept, AdminAssumption DEF IInv, RequestsInv, TypeOK, Keys
<1>9. TypeOK'
  <2>1. t.key \in 1..made
    BY DEF IInv, FileInv
  <2>2. knows' \in [Operators -> SUBSET (1..made)]
    BY <1>1, <1>3, <2>1
  <2> QED
    BY <2>2 DEF IInv, TypeOK, Requests
<1> QED
  BY <1>6, <1>7, <1>8, <1>9 DEF IInv

\* Saving a key changes the file only.
LEMMA SaveKeeps ==
    ASSUME IInv, NEW t \in Text, keyFile' = {t},
           UNCHANGED <<up, key, sites, made, req, knows, lost, window>>
    PROVE  TypeOK' /\ RequestsInv'
<1>1. TypeOK'
  BY DEF IInv, TypeOK
<1>2. RequestsInv'
  BY SMTT(30) DEF IInv, RequestsInv, RequestInv, WindowInv, Atomic, Returned
<1> QED
  BY <1>1, <1>2

LEMMA SaveStartsStep ==
    ASSUME IInv, NEW a \in Operators, SaveStarts(a) PROVE IInv'
<1>1. Plain(0) \in Text /\ Plain(0).key = 0
  BY AdminAssumption DEF Plain, Text
<1>2. load_admin_key(keyFile)' = {}
  BY <1>1, Loaded DEF SaveStarts
<1>3. KeyHeld'
  <2>1. \A t \in load_admin_key(keyFile) : \E b \in Operators : t.key \in knows[b]
    BY DEF SaveStarts, IInv, FileInv
  <2> QED
    BY <2>1 DEF SaveStarts, IInv, KeyHeld, Returned
<1>4. FileInv'
  BY <1>2 DEF FileInv
<1> QED
  BY <1>1, <1>3, <1>4, SaveKeeps DEF SaveStarts, IInv

LEMMA SaveEndsStep ==
    ASSUME IInv, NEW a \in Operators, SaveEnds(a) PROVE IInv'
<1>1. PICK k \in knows[a] : keyFile' = {[key |-> k, newline |-> TRUE]}
  BY DEF SaveEnds
<1> DEFINE t == [key |-> k, newline |-> TRUE]
<1>2. k \in 1..made /\ t \in Text /\ t.key = k /\ k # 0
  BY AdminAssumption DEF IInv, TypeOK, Text, Keys
<1>3. load_admin_key(keyFile)' = {Plain(k)} /\ Plain(k).key = k
  BY <1>1, <1>2, Loaded, PlainKey, ZenonT(30)
<1>4. load_admin_key(keyFile) = {}
  <2>1. Plain(0) \in Text /\ Plain(0).key = 0
    BY AdminAssumption DEF Plain, Text
  <2> QED
    BY <2>1, Loaded, ZenonT(30) DEF SaveEnds
<1>5. KeyHeld'
  BY <1>4, ZenonT(30) DEF SaveEnds, IInv, KeyHeld, Returned
<1>6. FileInv'
  BY <1>2, <1>3, ZenonT(30) DEF SaveEnds, FileInv
<1> QED
  BY <1>1, <1>2, <1>5, <1>6, SaveKeeps, ZenonT(30) DEF SaveEnds, IInv

LEMMA SendRequestStep ==
    ASSUME IInv, NEW a \in Operators, NEW op \in Ops, SendRequest(a, op) PROVE IInv'
<1>1. PICK k \in knows[a] \cup {0} : req' = [req EXCEPT ![a] = Sent(op, k)]
  BY ZenonT(30) DEF SendRequest
<1> DEFINE r == Sent(op, k)
           now == [key |-> key, sites |-> sites]
<1>2. req' = [req EXCEPT ![a] = r]
  BY <1>1
<1>3. Plain(k) \in Text /\ Plain(k).key = k
  BY AdminAssumption DEF IInv, TypeOK, Text, Plain, Keys
<1>4. r \in Requests
  BY <1>3 DEF Requests, Sent
<1>5. now \in [key : SUBSET Text, sites : 1..MaxSites]
  <2>1. key \in SUBSET Text
    BY StoredTexts DEF IInv
  <2> QED
    BY <2>1 DEF IInv, TypeOK
<1>6. window' = [window EXCEPT ![a] = {now}]
  BY DEF SendRequest
<1> HIDE DEF r, now
<1>7. TypeOK'
  BY <1>2, <1>4, <1>5, <1>6 DEF SendRequest, IInv, TypeOK
<1>8. ASSUME NEW b \in Operators PROVE RequestInv(b)' /\ WindowInv(b)' /\ Atomic(b)'
  <2>1. CASE b = a
    <3>1. req'[b] = r /\ window'[b] = {now}
      BY <1>2, <1>6, <2>1 DEF IInv, TypeOK
    <3>2. r.stage = "sent" /\ r.token.key = k
      BY <1>3 DEF r, Sent
    <3>3. knows'[b] = knows[a] /\ up' /\ [key |-> key', sites |-> sites'] = now
      BY <2>1 DEF SendRequest, now
    <3>4. RequestInv(b)'
      BY <3>1, <3>2, <3>3 DEF RequestInv, Returned
    <3>5. WindowInv(b)'
      BY <3>1, <3>3 DEF WindowInv
    <3>6. Atomic(b)'
      BY <3>1, <3>2 DEF Atomic
    <3> QED
      BY <3>4, <3>5, <3>6
  <2>2. CASE b # a
    <3>1. Kept(b)
      BY <1>2, <1>6, <2>2, AdminAssumption DEF Kept, IInv, TypeOK, RequestsInv, WindowInv, SendRequest, Keys
    <3>2. made \in Nat /\ made' \in Nat
      BY AdminAssumption DEF IInv, TypeOK, SendRequest, Keys
    <3> QED
      BY <3>1, <3>2, KeptInv DEF IInv, RequestsInv
  <2> QED
    BY <2>1, <2>2
<1>9. KeyHeld'
  <2>1. \A b \in Operators : Returned(b) \subseteq Returned(b)'
    BY <1>2 DEF Returned, IInv, TypeOK, SendRequest
  <2> QED
    BY <2>1, HeldKept DEF SendRequest, IInv, Holds
<1>10. FileInv'
  BY DEF SendRequest, IInv, FileInv
<1> QED
  BY <1>7, <1>8, <1>9, <1>10 DEF IInv, RequestsInv

-----------------------------------------------------------------------------
(* The steps of the server.                                                *)

\* Every window keeps what it has and gets what is stored after the step.
Watched ==
    \A b \in Operators :
        /\ window[b] \subseteq window'[b]
        /\ req[b].stage # "idle" => up' /\ [key |-> key', sites |-> sites'] \in window'[b]

LEMMA SeenWatched ==
    ASSUME IInv, NEW k \in SUBSET Text, NEW n \in 1..MaxSites,
           key' = k, sites' = n, up' = up, window' = Seen(k, n)
    PROVE  Watched /\ window' \in [Operators -> SUBSET [key : SUBSET Text, sites : 1..MaxSites]]
<1> DEFINE now == [key |-> k, sites |-> n]
<1>1. now \in [key : SUBSET Text, sites : 1..MaxSites]
  OBVIOUS
<1>2. \A b \in Operators : window[b] \in SUBSET [key : SUBSET Text, sites : 1..MaxSites]
  BY DEF IInv, TypeOK
<1>3. window' = [b \in Operators |-> IF req[b].stage = "idle" THEN window[b] ELSE window[b] \cup {now}]
  BY DEF Seen
<1>4. \A b \in Operators : req[b].stage # "idle" => up
  BY DEF IInv, RequestsInv, WindowInv
<1>5. Watched
  BY <1>3, <1>4, ZenonT(30) DEF Watched
<1> HIDE DEF now
<1> QED
  BY <1>1, <1>2, <1>3, <1>5

LEMMA SameWatched ==
    ASSUME IInv, UNCHANGED <<up, key, sites, window>> PROVE Watched
  BY DEF IInv, RequestsInv, WindowInv, Watched

Codes == {200, 401, 404, 409, 500}

LEMMA AnsweredFields ==
    ASSUME TypeOK, NEW a \in Operators, NEW code \in Codes, NEW value \in Nat,
           req' = Answered(a, code, value)
    PROVE  /\ req' \in [Operators -> Requests]
           /\ \A b \in Operators : b # a => req'[b] = req[b]
           /\ req'[a].stage = "answered" /\ req'[a].code = code /\ req'[a].value = value
           /\ req'[a].op = req[a].op /\ req'[a].token = req[a].token
<1> DEFINE r == [req[a] EXCEPT !.stage = "answered", !.code = code, !.value = value]
<1>1. req[a] \in Requests
  BY DEF TypeOK
<1>2. r \in Requests
  <2>1. code \in {0, 200, 401, 404, 409, 500}
    BY DEF Codes
  <2>2. "answered" \in {"idle", "sent", "checked", "answered"}
    OBVIOUS
  <2> DEFINE S == {"idle", "sent", "checked", "answered"}
             C == {0, 200, 401, 404, 409, 500}
  <2>3. Requests = [stage : S, op : Ops, token : Text, code : C, value : Nat]
    BY DEF Requests
  <2>4. "answered" \in S /\ code \in C
    BY <2>1, <2>2
  <2> HIDE DEF S, C
  <2>5. req[a] \in [stage : S, op : Ops, token : Text, code : C, value : Nat]
    BY <1>1, <2>3
  <2>6. r \in [stage : S, op : Ops, token : Text, code : C, value : Nat]
    BY <2>4, <2>5, ZenonT(30)
  <2> QED
    BY <2>3, <2>6
<1>3. r.stage = "answered" /\ r.code = code /\ r.value = value
      /\ r.op = req[a].op /\ r.token = req[a].token
  BY <1>1 DEF Requests
<1>4. req' = [req EXCEPT ![a] = r]
  BY DEF Answered
<1> HIDE DEF r
<1>5. req'[a] = r /\ \A b \in Operators : b # a => req'[b] = req[b]
  BY <1>4 DEF TypeOK
<1>6. req' \in [Operators -> Requests]
  BY <1>2, <1>4 DEF TypeOK
<1> QED
  BY <1>3, <1>5, <1>6

\* An answer keeps the requests' invariant when it fits its own window.
LEMMA AnswerKeeps ==
    ASSUME IInv, NEW a \in Operators, NEW code \in Codes, NEW value \in Nat,
           req' = Answered(a, code, value), req[a].stage # "idle",
           Watched, knows' = knows, made' \in Nat, made <= made', Atomic(a)',
           req[a].op = "rotate" /\ code = 200 => req[a].token.key # 0 /\ value \in 1..made'
    PROVE  RequestsInv'
<1> SUFFICES ASSUME NEW b \in Operators PROVE RequestInv(b)' /\ WindowInv(b)' /\ Atomic(b)'
  BY DEF RequestsInv
<1>1. CASE b # a
  <2>1. Kept(b)
    BY <1>1, AnsweredFields DEF Kept, Watched, IInv
  <2>2. made \in Nat
    BY AdminAssumption DEF IInv, TypeOK, Keys
  <2> QED
    BY <2>1, <2>2, KeptInv DEF IInv, RequestsInv
<1>2. CASE b = a
  <2>1. /\ req'[a].stage = "answered" /\ req'[a].code = code /\ req'[a].value = value
        /\ req'[a].op = req[a].op /\ req'[a].token = req[a].token
    BY AnsweredFields DEF IInv
  <2>2. RequestInv(a)'
    BY <2>1 DEF RequestInv, Returned, IInv, RequestsInv
  <2>3. WindowInv(a)'
    BY DEF WindowInv, Watched
  <2> QED
    BY <1>2, <2>2, <2>3
<1> QED
  BY <1>1, <1>2

\* An answer that is not a rotation's.
LEMMA PlainAnswer ==
    ASSUME IInv, NEW a \in Operators, NEW code \in Codes, NEW value \in Nat,
           req' = Answered(a, code, value), req[a].stage \in {"sent", "checked"},
           UNCHANGED <<keyFile, up, key, made, knows, lost>>, sites' \in 1..MaxSites,
           window' \in [Operators -> SUBSET [key : SUBSET Text, sites : 1..MaxSites]],
           Watched, Atomic(a)', ~(req[a].op = "rotate" /\ code = 200)
    PROVE  IInv'
<1>1. req' \in [Operators -> Requests]
  BY AnsweredFields DEF IInv
<1>2. TypeOK'
  BY <1>1 DEF IInv, TypeOK
<1>3. RequestsInv'
  <2>1. made \in Nat
    BY AdminAssumption DEF IInv, TypeOK, Keys
  <2> QED
    BY <2>1, AnswerKeeps
<1>4. \A b \in Operators : Returned(b) \subseteq Returned(b)'
  <2> TAKE b \in Operators
  <2>1. CASE b = a
    BY <2>1 DEF Returned
  <2>2. CASE b # a
    BY <2>2, AnsweredFields DEF Returned, IInv
  <2> QED
    BY <2>1, <2>2
<1>5. KeyHeld'
  BY <1>4, HeldKept DEF IInv, Holds
<1>6. FileInv'
  BY DEF IInv, FileInv
<1> QED
  BY <1>2, <1>3, <1>5, <1>6 DEF IInv

LEMMA HealthStep ==
    ASSUME IInv, NEW a \in Operators, health_handler(a) PROVE IInv'
<1> USE DEF health_handler
<1>1. 200 \in Codes /\ 0 \in Nat
  BY DEF Codes
<1>2. Atomic(a)'
  BY <1>1, AnsweredFields DEF Atomic, IInv
<1> QED
  BY <1>1, <1>2, SameWatched, PlainAnswer DEF IInv, TypeOK

LEMMA NoRouteStep ==
    ASSUME IInv, NEW a \in Operators, NoRoute(a) PROVE IInv'
<1> USE DEF NoRoute
<1>1. 404 \in Codes /\ 0 \in Nat
  BY DEF Codes
<1>2. [key |-> {}, sites |-> sites] \in window[a]
  BY DEF IInv, RequestsInv, WindowInv
<1>3. Atomic(a)'
  BY <1>1, <1>2, AnsweredFields DEF Atomic, IInv
<1> QED
  BY <1>1, <1>3, SameWatched, PlainAnswer DEF IInv, TypeOK

LEMMA StatusStep ==
    ASSUME IInv, NEW a \in Operators, status_handler(a) PROVE IInv'
<1> USE DEF status_handler
<1>1. 200 \in Codes /\ sites \in Nat
  BY AdminAssumption, SMTT(30) DEF Codes, IInv, TypeOK
<1>2. [key |-> key, sites |-> sites] \in window[a]
  BY DEF IInv, RequestsInv, WindowInv
<1>3. \E w \in window[a] : w.key = {req[a].token}
  BY DEF IInv, RequestsInv, Atomic
<1>4. Atomic(a)'
  <2>1. /\ req'[a].stage = "answered" /\ req'[a].code = 200 /\ req'[a].value = sites
        /\ req'[a].op = "status" /\ req'[a].token = req[a].token
    BY <1>1, AnsweredFields DEF IInv
  <2>2. \E w \in window[a] : w.sites = sites
    BY <1>2
  <2> QED
    BY <1>3, <2>1, <2>2 DEF Atomic
<1> QED
  BY <1>1, <1>4, SameWatched, PlainAnswer DEF IInv, TypeOK

LEMMA ReloadStep ==
    ASSUME IInv, NEW a \in Operators, reload_handler(a) PROVE IInv'
<1> USE DEF reload_handler
<1>1. \E w \in window[a] : w.key = {req[a].token}
  BY DEF IInv, RequestsInv, Atomic
<1>2. ASSUME NEW code \in {200, 409, 500}, req' = Answered(a, code, 0), Watched,
             sites' \in 1..MaxSites,
             window' \in [Operators -> SUBSET [key : SUBSET Text, sites : 1..MaxSites]]
      PROVE  IInv'
  <2>1. code \in Codes /\ 0 \in Nat
    BY DEF Codes
  <2>2. /\ req'[a].stage = "answered" /\ req'[a].code = code
        /\ req'[a].op = "reload" /\ req'[a].token = req[a].token
    BY <1>2, <2>1, AnsweredFields DEF IInv
  <2>3. window[a] \subseteq window'[a]
    BY <1>2 DEF Watched
  <2>4. Atomic(a)'
    BY <1>1, <2>2, <2>3 DEF Atomic
  <2> QED
    BY <1>2, <2>1, <2>4, PlainAnswer
<1>3. CASE \E n \in 1..MaxSites :
              sites' = n /\ window' = Seen(key, n) /\ req' = Answered(a, 200, 0)
  BY <1>2, <1>3, SeenWatched, StoredTexts DEF IInv
<1>4. CASE \E code \in {409, 500} : req' = Answered(a, code, 0) /\ UNCHANGED <<sites, window>>
  BY <1>2, <1>4, SameWatched DEF IInv, TypeOK
<1> QED
  BY <1>3, <1>4

LEMMA AuthStep ==
    ASSUME IInv, NEW a \in Operators, admin_auth_middleware(a) PROVE IInv'
<1> USE DEF admin_auth_middleware
<1>1. PICK k \in Keys : key = {Plain(k)}
  BY DEF IInv, TypeOK
<1>2. Plain(k).key = k /\ Plain(0).key = 0 /\ k # 0
  <2>1. k # 0
    BY AdminAssumption DEF Keys
  <2> QED
    BY <2>1 DEF Plain
<1>3. [key |-> key, sites |-> sites] \in window[a]
  BY DEF IInv, RequestsInv, WindowInv
<1>4. CASE req[a].token # Plain(0) /\ key = {req[a].token}
  <2>1. req' = [req EXCEPT ![a].stage = "checked"]
    BY <1>4
  <2>2. req' \in [Operators -> Requests]
    BY <2>1, SMTT(30) DEF IInv, TypeOK, Requests
  <2>3. /\ req'[a].stage = "checked" /\ req'[a].token = req[a].token
        /\ \A b \in Operators : b # a => req'[b] = req[b]
    BY <2>1 DEF IInv, TypeOK, Requests
  <2>4. TypeOK'
    BY <2>2 DEF IInv, TypeOK
  <2>5. req[a].token.key # 0
    BY <1>1, <1>2, <1>4
  <2>6. ASSUME NEW b \in Operators PROVE RequestInv(b)' /\ WindowInv(b)' /\ Atomic(b)'
    <3>1. CASE b # a
      <4>1. Kept(b) /\ made \in Nat /\ made' \in Nat
        BY <2>3, <3>1, AdminAssumption DEF Kept, IInv, TypeOK, RequestsInv, WindowInv, Keys
      <4> QED
        BY <4>1, KeptInv DEF IInv, RequestsInv
    <3>2. CASE b = a
      <4>1. RequestInv(a)'
        BY <2>3, <2>5 DEF RequestInv, Returned, IInv, RequestsInv
      <4>2. WindowInv(a)'
        BY DEF WindowInv, IInv, RequestsInv
      <4>3. \E w \in window[a] : w.key = {req[a].token}
        BY <1>3, <1>4
      <4>4. Atomic(a)'
        BY <2>3, <4>3 DEF Atomic
      <4> QED
        BY <3>2, <4>1, <4>2, <4>4
    <3> QED
      BY <3>1, <3>2
  <2>7. \A b \in Operators : Returned(b) \subseteq Returned(b)'
    BY <2>3 DEF Returned
  <2>8. KeyHeld'
    BY <2>7, HeldKept DEF IInv, Holds
  <2>9. FileInv'
    BY DEF IInv, FileInv
  <2> QED
    BY <2>4, <2>6, <2>8, <2>9 DEF IInv, RequestsInv
<1>5. CASE ~(req[a].token # Plain(0) /\ key = {req[a].token})
  <2>1. req' = Answered(a, 401, 0) /\ 401 \in Codes /\ 0 \in Nat
    BY <1>5 DEF Codes
  <2>2. key \notin {{}, {req[a].token}}
    BY <1>1, <1>2, <1>5
  <2>3. /\ req'[a].stage = "answered" /\ req'[a].code = 401
        /\ req'[a].op # "health" /\ req'[a].token = req[a].token
    BY <2>1, AnsweredFields DEF IInv
  <2>4. \E w \in window'[a] : w.key \notin {{}, {req'[a].token}}
    BY <1>3, <2>2, <2>3
  <2>5. Atomic(a)'
    BY <2>3, <2>4 DEF Atomic
  <2> QED
    BY <2>1, <2>5, SameWatched, PlainAnswer DEF IInv, TypeOK
<1> QED
  BY <1>4, <1>5

LEMMA RotateStep ==
    ASSUME IInv, NEW a \in Operators, rotate_key_handler(a) PROVE IInv'
<1> USE DEF rotate_key_handler
<1>1. made \in Nat /\ made' \in Nat /\ made' \in Keys /\ made <= made' /\ made' = made + 1
  BY AdminAssumption DEF IInv, TypeOK, Keys
<1>2. 200 \in Codes /\ made' \in 1..made'
  BY <1>1 DEF Codes
<1>3. key' = {Plain(made')} /\ {Plain(made')} \in SUBSET Text
  BY <1>1, AdminAssumption DEF Plain, Text, Keys
<1>4. Watched /\ window' \in [Operators -> SUBSET [key : SUBSET Text, sites : 1..MaxSites]]
  BY <1>1, <1>3, SeenWatched, ZenonT(30) DEF IInv, TypeOK
<1>5. /\ req' \in [Operators -> Requests]
      /\ \A b \in Operators : b # a => req'[b] = req[b]
      /\ req'[a].stage = "answered" /\ req'[a].code = 200 /\ req'[a].value = made'
      /\ req'[a].op = "rotate" /\ req'[a].token = req[a].token
  BY <1>1, <1>2, AnsweredFields DEF IInv
<1>6. TypeOK'
  <2>1. \A b \in Operators : knows'[b] \in SUBSET (1..made')
    BY <1>1 DEF IInv, TypeOK
  <2>2. knows' \in [Operators -> SUBSET (1..made')] /\ lost' \subseteq 1..made'
    BY <1>1, <2>1 DEF IInv, TypeOK
  <2>3. key' = {} \/ \E k \in Keys : key' = {Plain(k)}
    BY <1>1, <1>3, ZenonT(30)
  <2>4. keyFile' = {} \/ \E t \in Text : keyFile' = {t}
    BY ZenonT(30) DEF IInv, TypeOK
  <2>5. up' \in BOOLEAN /\ sites' \in 1..MaxSites
    BY ZenonT(30) DEF IInv, TypeOK
  <2> QED
    BY <1>1, <1>4, <1>5, <2>2, <2>3, <2>4, <2>5, ZenonT(30) DEF TypeOK
<1>7. RequestsInv'
  <2>1. \E w \in window[a] : w.key = {req[a].token}
    BY DEF IInv, RequestsInv, Atomic
  <2>2. window[a] \subseteq window'[a]
    BY <1>4, ZenonT(30) DEF Watched
  <2>3. Atomic(a)'
    BY <1>5, <2>1, <2>2 DEF Atomic
  <2>4. req[a].token.key # 0
    BY DEF IInv, RequestsInv, RequestInv
  <2> QED
    BY <1>1, <1>2, <1>4, <2>3, <2>4, AnswerKeeps
<1>8. KeyHeld'
  <2>1. made' \in Returned(a)' /\ Plain(made').key = made'
    <3>1. Returned(a)' = {req'[a].value}
      BY <1>5, ZenonT(30) DEF Returned
    <3>2. req'[a].value = made'
      BY <1>5, ZenonT(30)
    <3>3. Plain(made').key = made'
      BY DEF Plain
    <3> QED
      BY <3>1, <3>2, <3>3, ZenonT(30)
  <2> QED
    BY <1>3, <2>1 DEF KeyHeld
<1>9. FileInv'
  BY <1>1, FileKept DEF IInv
<1> QED
  BY <1>6, <1>7, <1>8, <1>9 DEF IInv

-----------------------------------------------------------------------------
(* The end of a request, and of the process.                               *)

\* Forgetting a's request keeps the requests' invariant.
LEMMA CloseKeeps ==
    ASSUME IInv, NEW a \in Operators, Close(a), UNCHANGED <<up, key, sites, made>>,
           \A b \in Operators : knows[b] \subseteq knows'[b]
    PROVE  /\ RequestsInv'
           /\ req' \in [Operators -> Requests]
           /\ window' \in [Operators -> SUBSET [key : SUBSET Text, sites : 1..MaxSites]]
           /\ \A b \in Operators : b # a => Returned(b)' = Returned(b)
<1>1. Idle \in Requests /\ Idle.stage = "idle" /\ Idle.token.key = 0
  BY AdminAssumption DEF Idle, Requests, Ops, Plain, Text
<1>2. /\ req' \in [Operators -> Requests]
      /\ window' \in [Operators -> SUBSET [key : SUBSET Text, sites : 1..MaxSites]]
  BY <1>1 DEF Close, IInv, TypeOK
<1>3. ASSUME NEW b \in Operators PROVE RequestInv(b)' /\ WindowInv(b)' /\ Atomic(b)'
  <2>1. CASE b # a
    <3>1. Kept(b) /\ made \in Nat /\ made' \in Nat
      BY <2>1, AdminAssumption DEF Close, Kept, IInv, TypeOK, RequestsInv, WindowInv, Keys
    <3> QED
      BY <3>1, KeptInv DEF IInv, RequestsInv
  <2>2. CASE b = a
    <3>1. req'[b] = Idle
      BY <2>2 DEF Close, IInv, TypeOK
    <3> QED
      BY <1>1, <3>1 DEF RequestInv, WindowInv, Atomic, Returned
  <2> QED
    BY <2>1, <2>2
<1>4. \A b \in Operators : b # a => Returned(b)' = Returned(b)
  BY DEF Close, Returned, IInv, TypeOK
<1> QED
  BY <1>2, <1>3, <1>4 DEF RequestsInv

LEMMA ReturnedMade ==
    ASSUME IInv, NEW a \in Operators
    PROVE  Returned(a) \subseteq 1..made /\ (Returned(a) # {} => knows[a] # {})
  BY DEF IInv, RequestsInv, RequestInv, Returned

LEMMA ReceiveStep ==
    ASSUME IInv, NEW a \in Operators, ReceiveResponse(a) PROVE IInv'
<1> USE DEF ReceiveResponse
<1>1. knows \in [Operators -> SUBSET (1..made)] /\ made \in Nat
  BY AdminAssumption DEF IInv, TypeOK, Keys
<1>2. /\ \A b \in Operators : knows[b] \subseteq knows'[b]
      /\ knows'[a] = knows[a] \cup Returned(a)
      /\ \A b \in Operators : b # a => knows'[b] = knows[b]
  BY <1>1
<1>3. knows' \in [Operators -> SUBSET (1..made)]
  BY <1>1, ReturnedMade
<1>4. TypeOK' /\ RequestsInv'
  BY <1>2, <1>3, CloseKeeps DEF IInv, TypeOK
<1>5. KeyHeld'
  <2>1. \A k : Holds(k) => Holds(k)'
    BY <1>2, CloseKeeps DEF Holds
  <2> QED
    BY <2>1, HeldKept, SMTT(30) DEF IInv
<1>6. FileInv'
  <2>1. ASSUME NEW b \in Operators, knows'[b] # {} PROVE \E c \in Operators : knows[c] # {}
    BY <1>2, <2>1, ReturnedMade
  <2> QED
    BY <1>1, <1>2, <2>1, FileKept DEF IInv
<1> QED
  BY <1>4, <1>5, <1>6 DEF IInv

LEMMA LostStep ==
    ASSUME IInv, NEW a \in Operators, ConnectionLost(a) PROVE IInv'
<1> USE DEF ConnectionLost
<1>1. TypeOK' /\ RequestsInv'
  BY CloseKeeps, ReturnedMade, ZenonT(30) DEF IInv, TypeOK
<1>2. KeyHeld'
  <2>1. \A k : Holds(k) => Holds(k)'
    BY CloseKeeps DEF Holds
  <2> QED
    BY <2>1, HeldKept DEF IInv
<1>3. FileInv'
  BY DEF IInv, FileInv
<1> QED
  BY <1>1, <1>2, <1>3 DEF IInv

LEMMA CrashStep ==
    ASSUME IInv, Crash PROVE IInv'
<1> USE DEF Crash
<1>1. Idle \in Requests /\ Idle.stage = "idle" /\ Idle.token.key = 0
  BY AdminAssumption DEF Idle, Requests, Ops, Plain, Text
<1>2. TypeOK'
  BY <1>1, ZenonT(30) DEF IInv, TypeOK
<1>3. RequestsInv'
  BY <1>1 DEF RequestsInv, RequestInv, WindowInv, Atomic, Returned
<1>4. KeyHeld' /\ FileInv'
  BY DEF IInv, KeyHeld, FileInv
<1> QED
  BY <1>2, <1>3, <1>4 DEF IInv

LEMMA RestartStep ==
    ASSUME IInv, Restart PROVE IInv'
<1> USE DEF Restart
<1>1. TypeOK'
  BY KeyOfFile DEF IInv, TypeOK
<1>2. RequestsInv'
  <2>1. \A b \in Operators : req[b].stage = "idle"
    BY DEF IInv, RequestsInv, WindowInv
  <2> QED
    BY <2>1, SMTT(30) DEF IInv, RequestsInv, RequestInv, WindowInv, Atomic, Returned
<1>3. KeyHeld' /\ FileInv'
  BY DEF IInv, KeyHeld, FileInv
<1> QED
  BY <1>1, <1>2, <1>3 DEF IInv

LEMMA StepInv == IInv /\ [Next]_vars => IInv'
<1> SUFFICES ASSUME IInv, [Next]_vars PROVE IInv'
  OBVIOUS
<1>1. CASE Crash
  BY <1>1, CrashStep
<1>2. CASE Restart
  BY <1>2, RestartStep
<1>3. ASSUME NEW a \in Operators, Step(a) PROVE IInv'
  <2>1. CASE LearnKey(a) \/ SaveStarts(a) \/ SaveEnds(a)
    BY <2>1, LearnKeyStep, SaveStartsStep, SaveEndsStep
  <2>2. CASE \E op \in Ops : SendRequest(a, op)
    BY <2>2, SendRequestStep
  <2>3. CASE health_handler(a) \/ NoRoute(a) \/ admin_auth_middleware(a)
    BY <2>3, HealthStep, NoRouteStep, AuthStep
  <2>4. CASE status_handler(a) \/ reload_handler(a) \/ rotate_key_handler(a)
    BY <2>4, StatusStep, ReloadStep, RotateStep
  <2>5. CASE ReceiveResponse(a) \/ ConnectionLost(a)
    BY <2>5, ReceiveStep, LostStep
  <2> QED
    BY <1>3, <2>1, <2>2, <2>3, <2>4, <2>5 DEF Step
<1>4. CASE UNCHANGED vars
  <2> USE <1>4 DEF vars
  <2>1. TypeOK' /\ FileInv' /\ KeyHeld'
    BY DEF IInv, TypeOK, FileInv, KeyHeld, Returned
  <2>2. RequestsInv'
    BY SMTT(30) DEF IInv, RequestsInv, RequestInv, WindowInv, Atomic, Returned
  <2> QED
    BY <2>1, <2>2, SMTT(30) DEF IInv
<1> QED
  BY <1>1, <1>2, <1>3, <1>4 DEF Next

LEMMA Invariant == Spec => []IInv
  BY InitInv, StepInv, PTL DEF Spec

\* The stored admin key is a single trimmed key that is not empty, and a known
\* key was made, for any number of operators, rotations and restarts.
THEOREM TypeCorrect == Spec => []TypeOK
<1>1. IInv => TypeOK
  BY DEF IInv
<1> QED
  BY <1>1, Invariant, PTL

\* Whatever operators rotate and save, and whenever the process restarts, the
\* key that admin_auth_middleware accepts is in the file, known to an operator,
\* in a response, or was in a response that got lost.
THEOREM KeyIsHeld == Spec => []KeyHeld
<1>1. IInv => KeyHeld
  BY DEF IInv
<1> QED
  BY <1>1, Invariant, PTL

\* Although the token is checked before the handler runs, every answer of
\* admin_router is one that a single instant between request and answer
\* justifies.
THEOREM AnswersAreAtomic == Spec => []AnswersAtomic
<1>1. IInv => AnswersAtomic
  BY DEF IInv, RequestsInv, AnswersAtomic
<1> QED
  BY <1>1, Invariant, PTL
=============================================================================
