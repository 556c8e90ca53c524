---------------------------- MODULE RateLimiter ----------------------------
(***************************************************************************)
(* The per-client rate limiter: RateLimiter::check_and_consume run by      *)
(* concurrent requests, TokenBucket, the eviction task, and configuration  *)
(* reloads that change rate and burst under it.                            *)
(*                                                                         *)
(* Tokens are counted in fractions: one token is Unit of them, and a rate  *)
(* of r adds r of them per tick, so Unit ticks are a second.  The rounding *)
(* of f64 is not modelled.                                                 *)
(***************************************************************************)
EXTENDS Integers, FiniteSets

CONSTANTS
    Addresses,   \* client addresses, records with the fields kind, net, host
    Workers,     \* requests that can be in the middleware at the same time
    Configs,     \* the [rate, burst] records the configuration can have
    Unit,        \* fractions of a token that make a token
    MaxAge,      \* max_age of the eviction task, in ticks
    MaxTime      \* bound on the clock

\* The largest and the smallest rate and burst of any configuration.
TopRate == CHOOSE r \in {c.rate : c \in Configs} : \A c \in Configs : c.rate <= r
TopBurst == CHOOSE b \in {c.burst : c \in Configs} : \A c \in Configs : c.burst <= b
LowRate == CHOOSE r \in {c.rate : c \in Configs} : \A c \in Configs : r <= c.rate
LowBurst == CHOOSE b \in {c.burst : c \in Configs} : \A c \in Configs : b <= c.burst

\* requests_per_second is validated to be positive, burst may be zero.
ASSUME ConfigsAssumption ==
    /\ Configs # {} /\ IsFiniteSet(Configs)
    /\ \A c \in Configs : c.rate \in Nat \ {0} /\ c.burst \in Nat
    /\ TopRate \in Nat /\ \A c \in Configs : c.rate <= TopRate
    /\ TopBurst \in Nat /\ \A c \in Configs : c.burst <= TopBurst
    /\ LowRate \in Nat /\ \A c \in Configs : LowRate <= c.rate
    /\ LowBurst \in Nat /\ \A c \in Configs : LowBurst <= c.burst
ASSUME AddressesAssumption ==
    Addresses # {} /\ Addresses \subseteq [kind : {"v4", "v6"}, net : Nat, host : Nat]
ASSUME UnitAssumption == Unit \in Nat \ {0}
ASSUME AgeAssumption == MaxAge \in Nat \ {0}
ASSUME MaxTimeAssumption == MaxTime \in Nat

VARIABLES
    config,    \* the rate limit of the current DynamicConfig
    buckets,   \* the DashMap: a bucket for some of the keys
    now,       \* the clock
    pc,        \* where each request is
    addr,      \* its client address
    loaded,    \* the configuration it loaded
    passed,    \* its answer: passed on, or rejected with 429
    evictor,   \* where the eviction task is
    cutoff,    \* its cutoff
    scan,      \* keys its retain has not visited
    credit,    \* history: what an ideal bucket of the client would hold, if
               \* every configuration were the most generous one
    floor      \* history: the same for the least generous one

requestVars == <<pc, addr, loaded, passed>>
evictorVars == <<evictor, cutoff, scan>>
vars == <<config, buckets, now, pc, addr, loaded, passed, evictor, cutoff, scan, credit, floor>>
history == <<credit, floor>>

AtMost(a, b) == IF a <= b THEN a ELSE b

\* Mutant: IPv6 addresses are limited one by one.
normalize_ip_identity(a) == a

\* An IPv4 address is its own key, an IPv6 address is reduced to its /64.
normalize_ip(a) == IF a.kind = "v4" THEN a ELSE [a EXCEPT !.host = 0]

\* Whose budget a request uses: an IPv4 address', or that of an IPv6 /64.
Client(a) == IF a.kind = "v4" THEN a ELSE [kind |-> "v6", net |-> a.net, host |-> 0]
Clients == {Client(a) : a \in Addresses}

\* A bucket.  last_refill and last_access are set together and are one field
\* here; the fields rate and max never influence a decision.
Buckets == [tokens : Nat, last : Nat]

\* For the locals of a worker that serves no request.
AnyAddress == CHOOSE a \in Addresses : TRUE
AnyConfig == CHOOSE c \in Configs : TRUE

Init ==
    /\ config \in Configs
    /\ buckets = [k \in {} |-> 0]
    /\ now = 0
    /\ pc = [w \in Workers |-> "idle"]
    /\ addr = [w \in Workers |-> AnyAddress]
    /\ loaded = [w \in Workers |-> AnyConfig]
    /\ passed = [w \in Workers |-> FALSE]
    /\ evictor = "waiting"
    /\ cutoff = 0
    /\ scan = {}
    /\ credit = [k \in Clients |-> TopBurst * Unit]
    /\ floor = [k \in Clients |-> LowBurst * Unit]

-----------------------------------------------------------------------------
(* Requests.                                                               *)

\* check_and_consume loads the configuration; no lock is held yet.
LoadConfig(w, a) ==
    /\ pc[w] = "idle"
    /\ pc' = [pc EXCEPT ![w] = "loaded"]
    /\ addr' = [addr EXCEPT ![w] = a]
    /\ loaded' = [loaded EXCEPT ![w] = config]
    /\ passed' = [passed EXCEPT ![w] = FALSE]
    /\ UNCHANGED <<config, buckets, now, evictorVars, history>>

\* Mutant: only whole tokens are added, but the clock is reset all the same.
refill_whole(b, c) ==
    [tokens |-> AtMost(b.tokens + Unit * ((c.rate * (now - b.last)) \div Unit), c.burst * Unit),
     last |-> now]

\* TokenBucket::refill.  The rate of c is applied to the whole time since the
\* last refill.
refill(b, c) ==
    [tokens |-> AtMost(b.tokens + c.rate * (now - b.last), c.burst * Unit), last |-> now]

\* The bucket that the entry holds, or TokenBucket::new.
BucketOf(k, c) ==
    IF k \in DOMAIN buckets THEN buckets[k] ELSE [tokens |-> c.burst * Unit, last |-> now]

\* TokenBucket::try_consume.
try_consume(b, c) ==
    LET r == refill(b, c) IN
    IF r.tokens >= Unit
    THEN [passed |-> TRUE, bucket |-> [r EXCEPT !.tokens = @ - Unit]]
    ELSE [passed |-> FALSE, bucket |-> r]

\* The rest of check_and_consume, under the lock of the map's entry.
Consume(w) ==
    LET k == normalize_ip(addr[w])
        t == try_consume(BucketOf(k, loaded[w]), loaded[w])
    IN  /\ pc[w] = "loaded"
        /\ pc' = [pc EXCEPT ![w] = "idle"]
        /\ buckets' = [j \in DOMAIN buckets \cup {k} |-> IF j = k THEN t.bucket ELSE buckets[j]]
        /\ addr' = [addr EXCEPT ![w] = AnyAddress]
        /\ loaded' = [loaded EXCEPT ![w] = AnyConfig]
        /\ passed' = [passed EXCEPT ![w] = t.passed]
        /\ credit' = IF t.passed
                     THEN [credit EXCEPT ![Client(addr[w])] = @ - Unit]
                     ELSE credit
        /\ floor' = IF t.passed
                    THEN [floor EXCEPT ![Client(addr[w])] = @ - Unit]
                    ELSE floor
        /\ UNCHANGED <<config, now, evictorVars>>

-----------------------------------------------------------------------------
(* The eviction task, reloads and time.                                    *)

\* interval_timer.tick() wins: evict_stale computes its cutoff.
EvictStarts ==
    /\ evictor = "waiting"
    /\ evictor' = "scanning"
    /\ cutoff' = now - MaxAge
    /\ scan' = DOMAIN buckets
    /\ UNCHANGED <<config, buckets, now, requestVars, history>>

\* Mutant: a bucket last used exactly at the cutoff is kept.
EvictEntryKeepsEqual(k) ==
    /\ evictor = "scanning"
    /\ k \in scan
    /\ scan' = scan \ {k}
    /\ buckets' = IF buckets[k].last < cutoff
                  THEN [j \in DOMAIN buckets \ {k} |-> buckets[j]]
                  ELSE buckets
    /\ UNCHANGED <<config, now, requestVars, evictor, cutoff, history>>

\* retain visits one entry.
EvictEntry(k) ==
    /\ evictor = "scanning"
    /\ k \in scan
    /\ scan' = scan \ {k}
    /\ buckets' = IF buckets[k].last <= cutoff
                  THEN [j \in DOMAIN buckets \ {k} |-> buckets[j]]
                  ELSE buckets
    /\ UNCHANGED <<config, now, requestVars, evictor, cutoff, history>>

EvictEnds ==
    /\ evictor = "scanning" /\ scan = {}
    /\ evictor' = "waiting" /\ cutoff' = 0
    /\ UNCHANGED <<config, buckets, now, requestVars, scan, history>>

\* shutdown_rx.changed() wins: the task ends.
EvictionStops ==
    /\ evictor = "waiting"
    /\ evictor' = "stopped"
    /\ UNCHANGED <<config, buckets, now, requestVars, cutoff, scan, history>>

\* ConfigReloadHandle::reload stores a new DynamicConfig (see ConfigReload).
Reload(c) ==
    /\ config # c
    /\ config' = c
    /\ UNCHANGED <<buckets, now, requestVars, evictorVars, history>>

Tick ==
    /\ now < MaxTime
    /\ now' = now + 1
    /\ credit' = [k \in Clients |-> AtMost(credit[k] + TopRate, TopBurst * Unit)]
    /\ floor' = [k \in Clients |-> AtMost(floor[k] + LowRate, LowBurst * Unit)]
    /\ UNCHANGED <<config, buckets, requestVars, evictorVars>>

Next ==
    \/ \E w \in Workers : Consume(w) \/ \E a \in Addresses : LoadConfig(w, a)
    \/ EvictStarts \/ EvictEnds \/ EvictionStops
    \/ \E k \in scan : EvictEntry(k)
    \/ \E c \in Configs : Reload(c)
    \/ Tick

Spec == Init /\ [][Next]_vars

-----------------------------------------------------------------------------
(* Properties.                                                             *)

TypeOK ==
    /\ config \in Configs
    /\ DOMAIN buckets \subseteq Clients
    /\ \A k \in DOMAIN buckets : buckets[k] \in Buckets /\ buckets[k].last <= now
    /\ now \in 0..MaxTime
    /\ pc \in [Workers -> {"idle", "loaded"}]
    /\ addr \in [Workers -> Addresses]
    /\ loaded \in [Workers -> Configs]
    /\ passed \in [Workers -> BOOLEAN]
    /\ evictor \in {"waiting", "scanning", "stopped"}
    /\ cutoff \in Int /\ cutoff <= now - (IF evictor = "scanning" THEN MaxAge ELSE 0)
    /\ scan \subseteq DOMAIN buckets
    /\ credit \in [Clients -> Int]
    /\ floor \in [Clients -> Int]

\* In no stretch of time does a client get more requests through than the
\* largest burst plus what the largest rate adds in that time: not by
\* concurrent requests, by a reload between loading the configuration and using
\* it, by eviction of its bucket, or by changing the host part of an IPv6
\* address.  It needs MaxAge to be long enough to fill a bucket.
WithinCredit == \A k \in Clients : credit[k] >= 0

\* A request is rejected only if even an ideal bucket with the smallest rate and
\* burst holds less than a token: lazy refills, rejected requests, reloads and
\* eviction lose nothing that is due to a client (TokenBucket::refill).
NoFalseReject ==
    [][\A w \in Workers :
        pc[w] = "loaded" /\ pc'[w] = "idle" /\ ~passed'[w] =>
            floor[Client(addr[w])] < Unit]_vars

\* A pass of evict_stale leaves no bucket that was last used at or before its
\* cutoff, whatever requests do meanwhile.
EvictionThorough ==
    [][evictor = "scanning" /\ evictor' = "waiting" =>
        \A k \in DOMAIN buckets : buckets[k].last > cutoff]_vars
=============================================================================
