------------------------------ MODULE AdminApi ------------------------------
(***************************************************************************)
(* The health and admin endpoints: loading the admin key, checking a       *)
(* request's bearer token, and the status, reload and rotate-key handlers. *)
(* Requests of several operators run at the same time; the check of the    *)
(* token and the handler behind it are separate steps.  The key file and   *)
(* the crash and restart of the process are part of the model, since a     *)
(* rotated key lives in memory only.                                       *)
(***************************************************************************)
EXTENDS Naturals

CONSTANTS Operators, MaxKeys, MaxSites

ASSUME AdminAssumption == MaxKeys \in Nat \ {0} /\ MaxSites \in Nat \ {0}

VARIABLES
    keyFile,    \* the texts in the key file: none when it cannot be read
    up,         \* the process runs
    key,        \* the hash in the ArcSwap: none when the admin routes are off
    sites,      \* number of sites of the active configuration
    made,       \* keys made so far
    req,        \* each operator's request
    knows,      \* the keys each operator has
    lost,       \* keys of this process whose rotation was not answered
    window      \* history: the keys and site counts since a request was sent

vars == <<keyFile, up, key, sites, made, req, knows, lost, window>>

\* A text is a key and a line end; key 0 is no characters.  SHA-256 keeps
\* different texts apart, so a text stands for its hash.
Text == [key : 0..MaxKeys, newline : BOOLEAN]
Plain(k) == [key |-> k, newline |-> FALSE]
Idle == [stage |-> "idle", op |-> "health", token |-> Plain(0), code |-> 0, value |-> 0]
Ops == {"health", "status", "reload", "rotate"}

-----------------------------------------------------------------------------
(* The key file.                                                           *)

trim(t) == Plain(t.key)

\* Mutant: the text is hashed with its line end.
load_admin_key_raw(texts) == {t \in texts : t.key # 0}

\* None, also for a path that cannot be read; the error of an empty file
\* turns the admin routes off too.
load_admin_key(texts) == {trim(t) : t \in {u \in texts : u.key # 0}}

Init ==
    /\ keyFile \in {{}, {Plain(0)}, {Plain(1)}}
    /\ up = TRUE
    /\ key = load_admin_key(keyFile)
    /\ sites \in 1..MaxSites
    /\ made = 1
    /\ req = [a \in Operators |-> Idle]
    /\ knows = [a \in Operators |-> {}]
    /\ lost = {}
    /\ window = [a \in Operators |-> {}]

\* An operator reads the key from the file.
LearnKey(a) ==
    /\ \E t \in load_admin_key(keyFile) : knows' = [knows EXCEPT ![a] = @ \cup {t.key}]
    /\ UNCHANGED <<keyFile, up, key, sites, made, req, lost, window>>

\* An operator writes a key to the file, as echo does: the file is empty first
\* and ends in a line end.
SaveStarts(a) ==
    /\ knows[a] # {}
    /\ keyFile' = {Plain(0)}
    /\ UNCHANGED <<up, key, sites, made, req, knows, lost, window>>

SaveEnds(a) ==
    /\ keyFile = {Plain(0)}
    /\ \E k \in knows[a] : keyFile' = {[key |-> k, newline |-> TRUE]}
    /\ UNCHANGED <<up, key, sites, made, req, knows, lost, window>>

-----------------------------------------------------------------------------
(* A request.                                                              *)

\* The values that requests in progress may see from now on.
Seen(k, n) == [b \in Operators |-> IF req[b].stage = "idle" THEN window[b]
                                   ELSE window[b] \cup {[key |-> k, sites |-> n]}]

Sent(op, k) == [stage |-> "sent", op |-> op, token |-> Plain(k), code |-> 0, value |-> 0]

\* With a key the operator has, or without an Authorization header.
SendRequest(a, op) ==
    /\ up /\ req[a].stage = "idle"
    /\ \E k \in (IF op = "health" THEN {} ELSE knows[a]) \cup {0} :
           req' = [req EXCEPT ![a] = Sent(op, k)]
    /\ window' = [window EXCEPT ![a] = {[key |-> key, sites |-> sites]}]
    /\ UNCHANGED <<keyFile, up, key, sites, made, knows, lost>>

Answered(a, code, value) ==
    [req EXCEPT ![a] = [@ EXCEPT !.stage = "answered", !.code = code, !.value = value]]

health_handler(a) ==
    /\ req[a].stage = "sent" /\ req[a].op = "health"
    /\ req' = Answered(a, 200, 0)
    /\ UNCHANGED <<keyFile, up, key, sites, made, knows, lost, window>>

\* Without a key the router has no admin routes.
NoRoute(a) ==
    /\ req[a].stage = "sent" /\ req[a].op # "health" /\ key = {}
    /\ req' = Answered(a, 404, 0)
    /\ UNCHANGED <<keyFile, up, key, sites, made, knows, lost, window>>

\* Mutant: the token is compared with the key in the file.
admin_auth_file(a) ==
    /\ req[a].stage = "sent" /\ req[a].op # "health" /\ key # {}
    /\ req' = IF load_admin_key(keyFile) = {req[a].token}
              THEN [req EXCEPT ![a].stage = "checked"]
              ELSE Answered(a, 401, 0)
    /\ UNCHANGED <<keyFile, up, key, sites, made, knows, lost, window>>

admin_auth_middleware(a) ==
    /\ req[a].stage = "sent" /\ req[a].op # "health" /\ key # {}
    /\ req' = IF req[a].token # Plain(0) /\ key = {req[a].token}
              THEN [req EXCEPT ![a].stage = "checked"]
              ELSE Answered(a, 401, 0)
    /\ UNCHANGED <<keyFile, up, key, sites, made, knows, lost, window>>

status_handler(a) ==
    /\ req[a].stage = "checked" /\ req[a].op = "status"
    /\ req' = Answered(a, 200, sites)
    /\ UNCHANGED <<keyFile, up, key, sites, made, knows, lost, window>>

\* The reload of ConfigReload, which may be refused or change the sites.
reload_handler(a) ==
    /\ req[a].stage = "checked" /\ req[a].op = "reload"
    /\ \/ \E n \in 1..MaxSites :
              /\ sites' = n
              /\ window' = Seen(key, n)
              /\ req' = Answered(a, 200, 0)
       \/ \E code \in {409, 500} :
              /\ req' = Answered(a, code, 0)
              /\ UNCHANGED <<sites, window>>
    /\ UNCHANGED <<keyFile, up, key, made, knows, lost>>

\* Mutant: the random bytes are hashed and their hexadecimal form is returned.
rotate_key_bytes(a) ==
    /\ req[a].stage = "checked" /\ req[a].op = "rotate" /\ made + 1 < MaxKeys
    /\ made' = made + 2
    /\ key' = {Plain(made + 1)}
    /\ window' = Seen({Plain(made + 1)}, sites)
    /\ req' = Answered(a, 200, made + 2)
    /\ UNCHANGED <<keyFile, up, sites, knows, lost>>

\* The new key is random, so it is none of the earlier ones.
rotate_key_handler(a) ==
    /\ req[a].stage = "checked" /\ req[a].op = "rotate" /\ made < MaxKeys
    /\ made' = made + 1
    /\ key' = {Plain(made + 1)}
    /\ window' = Seen({Plain(made + 1)}, sites)
    /\ req' = Answered(a, 200, made + 1)
    /\ UNCHANGED <<keyFile, up, sites, knows, lost>>

\* The key an answered rotation returns.
Returned(a) ==
    IF req[a].stage = "answered" /\ req[a].op = "rotate" /\ req[a].code = 200
    THEN {req[a].value} ELSE {}

\* Between requests the window and the request are reset.
Close(a) == req' = [req EXCEPT ![a] = Idle] /\ window' = [window EXCEPT ![a] = {}]

ReceiveResponse(a) ==
    /\ req[a].stage = "answered"
    /\ knows' = [knows EXCEPT ![a] = @ \cup Returned(a)]
    /\ Close(a)
    /\ UNCHANGED <<keyFile, up, key, sites, made, lost>>

\* The connection breaks before the request is read or before the response
\* arrives.
ConnectionLost(a) ==
    /\ req[a].stage \in {"sent", "answered"}
    /\ lost' = lost \cup Returned(a)
    /\ Close(a)
    /\ UNCHANGED <<keyFile, up, key, sites, made, knows>>

-----------------------------------------------------------------------------
(* The process.                                                            *)

Crash ==
    /\ up
    /\ up' = FALSE /\ key' = {}
    /\ req' = [a \in Operators |-> Idle]
    /\ window' = [a \in Operators |-> {}]
    /\ lost' = {}
    /\ UNCHANGED <<keyFile, sites, made, knows>>

Restart ==
    /\ ~up
    /\ up' = TRUE /\ key' = load_admin_key(keyFile)
    /\ sites' \in 1..MaxSites
    /\ UNCHANGED <<keyFile, made, req, knows, lost, window>>

Step(a) ==
    \/ LearnKey(a) \/ SaveStarts(a) \/ SaveEnds(a)
    \/ \E op \in Ops : SendRequest(a, op)
    \/ health_handler(a) \/ NoRoute(a) \/ admin_auth_middleware(a)
    \/ status_handler(a) \/ reload_handler(a) \/ rotate_key_handler(a)
    \/ ReceiveResponse(a) \/ ConnectionLost(a)

Next == Crash \/ Restart \/ \E a \in Operators : Step(a)

Spec == Init /\ [][Next]_vars

-----------------------------------------------------------------------------
(* Properties.                                                             *)

Keys == 1..MaxKeys
Requests ==
    [stage : {"idle", "sent", "checked", "answered"}, op : Ops, token : Text,
     code : {0, 200, 401, 404, 409, 500}, value : Nat]

\* Every variable has its type: at most one key file text and one stored key,
\* stored without a line end and never the empty key.
TypeOK ==
    /\ keyFile = {} \/ \E t \in Text : keyFile = {t}
    /\ key = {} \/ \E k \in Keys : key = {Plain(k)}
    /\ up \in BOOLEAN
    /\ sites \in 1..MaxSites
    /\ made \in Keys
    /\ req \in [Operators -> Requests]
    /\ knows \in [Operators -> SUBSET (1..made)]
    /\ lost \subseteq 1..made
    /\ window \in [Operators -> SUBSET [key : SUBSET Text, sites : 1..MaxSites]]

\* The key that the middleware accepts is one an operator can present: it is in
\* the key file, an operator has it, or it is on its way in the response of
\* rotate_key_handler.  Only a lost response leaves the routes locked until a
\* restart.  Concurrent rotations, saves of an older key and restarts between
\* them do not change this.
KeyHeld ==
    \A t \in key :
        \/ t \in load_admin_key(keyFile)
        \/ \E a \in Operators : t.key \in knows[a] \cup Returned(a)
        \/ t.key \in lost

\* The outcome of a's request fits one instant of its window.
Atomic(a) ==
    LET r == req[a]
        Stored(k) == \E w \in window[a] : w.key = k
    IN  /\ r.stage = "checked" => Stored({r.token})
        /\ r.stage = "answered" =>
              CASE r.code = 404 -> Stored({})
                [] r.code = 401 -> \E w \in window[a] : w.key \notin {{}, {r.token}}
                [] r.op = "health" -> r.code = 200
                [] OTHER -> /\ Stored({r.token})
                            /\ r.op = "status" => \E w \in window[a] : w.sites = r.value

\* What admin_router answers is what it would have answered in one instant
\* between the request and the answer: a handler runs only for a token that was
\* the stored key in that time, a rotated key is refused to every request sent
\* after the rotation, a request is refused only when another key was stored,
\* and the site count of status_handler was the active one.
AnswersAtomic == \A a \in Operators : Atomic(a)
=============================================================================
