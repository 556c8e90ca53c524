------------------------- MODULE RateLimiterProofs -------------------------
(***************************************************************************)
(* Proofs about RateLimiter, for any clients, any number of concurrent     *)
(* requests and any set of configurations.                                 *)
(***************************************************************************)
EXTENDS RateLimiter, TLAPS

Cap == TopBurst * Unit
LowCap == LowBurst * Unit

\* The most a bucket could hold now if it were refilled by any configuration.
Potential(b) == AtMost(b.tokens + TopRate * (now - b.last), Cap)

\* The ideal bucket of a client holds at least what the client's real bucket
\* could hold; a client without a bucket has a full one.
CreditInv ==
    \A k \in Clients :
        /\ credit[k] <= Cap
        /\ IF k \in DOMAIN buckets THEN Potential(buckets[k]) <= credit[k]
                                   ELSE credit[k] = Cap

\* The least a bucket would hold now if it were refilled by any configuration.
Least(b) == AtMost(b.tokens + LowRate * (now - b.last), LowCap)

\* The ideal bucket of the least generous configuration holds no more than the
\* client's real bucket would.
FloorInv ==
    \A k \in Clients :
        /\ floor[k] <= LowCap
        /\ k \in DOMAIN buckets => floor[k] <= Least(buckets[k])

-----------------------------------------------------------------------------
(* Arithmetic and the operators of TokenBucket.                            *)

LEMMA TimesMonotone ==
    ASSUME NEW a \in Nat, NEW b \in Nat, NEW t \in Nat, a <= b
    PROVE  a * t <= b * t
  <1>1. PICK d \in Nat : b = a + d
    <2>1. b - a \in Nat /\ b = a + (b - a)
      OBVIOUS
    <2> QED
      BY <2>1
  <1>2. b * t = a * t + d * t
    BY <1>1
  <1>3. a * t \in Nat /\ d * t \in Nat
    OBVIOUS
  <1> QED
    BY <1>2, <1>3

LEMMA LowCapType == LowCap \in Nat
  BY ConfigsAssumption, UnitAssumption DEF LowCap

LEMMA CapType == Cap \in Nat
  BY ConfigsAssumption, UnitAssumption DEF Cap

\* normalize_ip gives every address the key of the client it belongs to.
LEMMA KeyIsClient ==
    ASSUME NEW a \in Addresses
    PROVE  normalize_ip(a) = Client(a) /\ Client(a) \in Clients
  <1>1. a \in [kind : {"v4", "v6"}, net : Nat, host : Nat]
    BY AddressesAssumption
  <1> QED
    BY <1>1 DEF normalize_ip, Client, Clients

\* A refill yields a bucket that holds no more than was possible.
LEMMA RefillBound ==
    ASSUME now \in Nat, NEW b \in Buckets, b.last <= now, NEW c \in Configs
    PROVE  /\ refill(b, c) \in Buckets
           /\ refill(b, c).last = now
           /\ refill(b, c).tokens <= Potential(b)
  <1>1. /\ c.rate \in Nat /\ c.burst \in Nat /\ TopRate \in Nat /\ TopBurst \in Nat
        /\ c.rate <= TopRate /\ c.burst <= TopBurst
    BY ConfigsAssumption
  <1> DEFINE d == now - b.last
  <1>2. d \in Nat /\ b.tokens \in Nat
    BY DEF Buckets
  <1>3. c.rate * d <= TopRate * d /\ c.rate * d \in Nat /\ TopRate * d \in Nat
    BY <1>1, <1>2, TimesMonotone
  <1>4. c.burst * Unit <= Cap /\ c.burst * Unit \in Nat /\ Cap \in Nat
    BY <1>1, TimesMonotone, UnitAssumption DEF Cap
  <1>5. /\ refill(b, c).last = now
        /\ refill(b, c).tokens = AtMost(b.tokens + c.rate * d, c.burst * Unit)
        /\ refill(b, c) = [tokens |-> refill(b, c).tokens, last |-> now]
    BY DEF refill
  <1>6. Potential(b) = AtMost(b.tokens + TopRate * d, Cap)
    BY DEF Potential
  <1> HIDE DEF d
  <1>7. /\ AtMost(b.tokens + c.rate * d, c.burst * Unit) \in Nat
        /\ AtMost(b.tokens + c.rate * d, c.burst * Unit) <= AtMost(b.tokens + TopRate * d, Cap)
    BY <1>2, <1>3, <1>4 DEF AtMost
  <1> QED
    BY <1>5, <1>6, <1>7 DEF Buckets

\* And no less than was due.
LEMMA RefillFloor ==
    ASSUME now \in Nat, NEW b \in Buckets, b.last <= now, NEW c \in Configs
    PROVE  Least(b) <= refill(b, c).tokens /\ Least(b) \in Int
  <1>1. /\ c.rate \in Nat /\ c.burst \in Nat /\ LowRate \in Nat /\ LowBurst \in Nat
        /\ LowRate <= c.rate /\ LowBurst <= c.burst
    BY ConfigsAssumption
  <1> DEFINE d == now - b.last
  <1>2. d \in Nat /\ b.tokens \in Nat
    BY DEF Buckets
  <1>3. LowRate * d <= c.rate * d /\ c.rate * d \in Nat /\ LowRate * d \in Nat
    BY <1>1, <1>2, TimesMonotone
  <1>4. LowCap <= c.burst * Unit /\ c.burst * Unit \in Nat /\ LowCap \in Nat
    BY <1>1, TimesMonotone, UnitAssumption DEF LowCap
  <1>5. refill(b, c).tokens = AtMost(b.tokens + c.rate * d, c.burst * Unit)
    BY DEF refill
  <1>6. Least(b) = AtMost(b.tokens + LowRate * d, LowCap)
    BY DEF Least
  <1> HIDE DEF d
  <1> QED
    BY <1>2, <1>3, <1>4, <1>5, <1>6 DEF AtMost

\* A request that passes pays with a token the bucket had.
LEMMA ConsumeBound ==
    ASSUME now \in Nat, NEW b \in Buckets, b.last <= now, NEW c \in Configs
    PROVE  LET t == try_consume(b, c) IN
           /\ t.passed \in BOOLEAN
           /\ t.bucket \in Buckets
           /\ t.bucket.last = now
           /\ t.passed => t.bucket.tokens + Unit <= Potential(b)
           /\ t.bucket.tokens <= Potential(b)
           /\ Least(b) <= t.bucket.tokens + (IF t.passed THEN Unit ELSE 0)
           /\ ~t.passed => t.bucket.tokens < Unit
  <1> DEFINE r == refill(b, c)
  <1>1. r \in Buckets /\ r.last = now /\ r.tokens <= Potential(b) /\ r.tokens \in Nat
    BY RefillBound DEF Buckets
  <1>0. Least(b) <= r.tokens /\ Least(b) \in Int
    BY RefillFloor
  <1>2. Potential(b) \in Int
    <2>1. TopRate * (now - b.last) \in Int /\ b.tokens \in Nat
      BY ConfigsAssumption DEF Buckets
    <2> QED
      BY <2>1, CapType DEF Potential, AtMost
  <1> HIDE DEF r
  <1>3. CASE r.tokens >= Unit
    <2>1. try_consume(b, c) = [passed |-> TRUE, bucket |-> [r EXCEPT !.tokens = @ - Unit]]
      BY <1>3 DEF try_consume, r
    <2>2. [r EXCEPT !.tokens = @ - Unit] = [tokens |-> r.tokens - Unit, last |-> now]
      BY <1>1 DEF Buckets
    <2>3. r.tokens - Unit \in Nat
      BY <1>1, <1>3, UnitAssumption
    <2> QED
      BY <1>0, <1>1, <1>2, <2>1, <2>2, <2>3, UnitAssumption DEF Buckets
  <1>4. CASE ~(r.tokens >= Unit)
    <2>1. try_consume(b, c) = [passed |-> FALSE, bucket |-> r]
      BY <1>4 DEF try_consume, r
    <2> QED
      BY <1>0, <1>1, <1>4, <2>1, UnitAssumption
  <1> QED
    BY <1>3, <1>4

-----------------------------------------------------------------------------
(* The bucket a request works on, and what Consume does with it.           *)

\* Clients whose bucket exists have a real bucket in the entry; others get a
\* full one of the loaded configuration.
LEMMA EntryBucket ==
    ASSUME TypeOK, NEW k \in Clients, NEW c \in Configs
    PROVE  /\ BucketOf(k, c) \in Buckets
           /\ BucketOf(k, c).last <= now
           /\ CreditInv => Potential(BucketOf(k, c)) <= credit[k]
           /\ FloorInv => floor[k] <= Least(BucketOf(k, c))
  <1>0. now \in Nat /\ Cap \in Nat /\ LowCap \in Nat
    BY CapType, LowCapType, MaxTimeAssumption DEF TypeOK
  <1>1. CASE k \in DOMAIN buckets
    BY <1>0, <1>1 DEF TypeOK, CreditInv, FloorInv, BucketOf
  <1>2. CASE k \notin DOMAIN buckets
    <2> DEFINE b == [tokens |-> c.burst * Unit, last |-> now]
    <2>1. BucketOf(k, c) = b
      BY <1>2 DEF BucketOf
    <2>2. c.burst * Unit \in Nat
      BY ConfigsAssumption, UnitAssumption
    <2>3. b \in Buckets /\ b.last = now
      BY <1>0, <2>2 DEF Buckets
    <2>4. Potential(b) <= Cap
      <3>1. TopRate * (now - b.last) = 0
        BY <1>0, <2>3, ConfigsAssumption
      <3> QED
        BY <1>0, <2>2, <3>1 DEF Potential, AtMost
    <2>5. Least(b) = LowCap
      <3>1. LowRate * (now - b.last) = 0
        BY <1>0, <2>3, ConfigsAssumption
      <3>2. LowCap <= c.burst * Unit
        BY ConfigsAssumption, UnitAssumption, TimesMonotone DEF LowCap
      <3> QED
        BY <1>0, <2>2, <3>1, <3>2 DEF Least, AtMost
    <2> HIDE DEF b
    <2> QED
      BY <1>0, <1>2, <2>1, <2>3, <2>4, <2>5 DEF CreditInv, FloorInv
  <1> QED
    BY <1>1, <1>2

\* Request w leaves client k the bucket b, and passes if ok.
Settles(w, k, b, ok) ==
    /\ b.last = now
    /\ buckets' = [j \in DOMAIN buckets \cup {k} |-> IF j = k THEN b ELSE buckets[j]]
    /\ passed' = [passed EXCEPT ![w] = ok]
    /\ credit' = IF ok THEN [credit EXCEPT ![k] = @ - Unit] ELSE credit
    /\ floor' = IF ok THEN [floor EXCEPT ![k] = @ - Unit] ELSE floor
    /\ CreditInv => b.tokens + (IF ok THEN Unit ELSE 0) <= credit[k]
    /\ FloorInv => floor[k] <= b.tokens + (IF ok THEN Unit ELSE 0)
    /\ k = Client(addr[w]) /\ (~ok => b.tokens < Unit)

\* The effect of Consume on one client's bucket and on the others.
LEMMA ConsumeEffect ==
    ASSUME TypeOK, NEW w \in Workers, Consume(w)
    PROVE  \E k \in Clients, b \in Buckets, ok \in BOOLEAN : Settles(w, k, b, ok)
  <1> DEFINE k == normalize_ip(addr[w])
             c == loaded[w]
             e == BucketOf(k, c)
             t == try_consume(e, c)
  <1>1. addr[w] \in Addresses /\ c \in Configs /\ now \in Nat
    BY MaxTimeAssumption DEF TypeOK
  <1>2. k \in Clients /\ k = Client(addr[w])
    BY <1>1, KeyIsClient
  <1>3. /\ e \in Buckets /\ e.last <= now
        /\ (CreditInv => Potential(e) <= credit[k])
        /\ (FloorInv => floor[k] <= Least(e))
    BY <1>1, <1>2, EntryBucket
  <1>4. /\ t.passed \in BOOLEAN /\ t.bucket \in Buckets /\ t.bucket.last = now
        /\ t.passed => t.bucket.tokens + Unit <= Potential(e)
        /\ t.bucket.tokens <= Potential(e)
        /\ Least(e) <= t.bucket.tokens + (IF t.passed THEN Unit ELSE 0)
        /\ ~t.passed => t.bucket.tokens < Unit
    BY <1>1, <1>3, ConsumeBound, SMTT(30)
  <1>5. Potential(e) \in Int /\ credit[k] \in Int /\ t.bucket.tokens \in Nat /\ Unit \in Nat
    <2>1. TopRate * (now - e.last) \in Int /\ e.tokens \in Nat
      BY <1>1, <1>3, ConfigsAssumption DEF Buckets
    <2> QED
      BY <1>2, <1>4, <2>1, CapType, UnitAssumption DEF Potential, AtMost, TypeOK, Buckets
  <1>6. /\ buckets' = [j \in DOMAIN buckets \cup {k} |-> IF j = k THEN t.bucket ELSE buckets[j]]
        /\ passed' = [passed EXCEPT ![w] = t.passed]
        /\ credit' = IF t.passed THEN [credit EXCEPT ![k] = @ - Unit] ELSE credit
        /\ floor' = IF t.passed THEN [floor EXCEPT ![k] = @ - Unit] ELSE floor
    BY <1>2 DEF Consume
  <1>7. CreditInv => t.bucket.tokens + (IF t.passed THEN Unit ELSE 0) <= credit[k]
    BY <1>3, <1>4, <1>5
  <1>8. FloorInv => floor[k] <= t.bucket.tokens + (IF t.passed THEN Unit ELSE 0)
    <2>1. Least(e) \in Int /\ floor[k] \in Int
      BY <1>1, <1>2, <1>3, RefillFloor, SMTT(30) DEF TypeOK
    <2> QED
      BY <1>3, <1>4, <1>5, <2>1
  <1>9. Settles(w, k, t.bucket, t.passed)
    BY <1>2, <1>4, <1>6, <1>7, <1>8 DEF Settles
  <1> HIDE DEF k, t
  <1> QED
    BY <1>2, <1>4, <1>9

-----------------------------------------------------------------------------
(* Type correctness.                                                       *)

LEMMA LocalsType == AnyAddress \in Addresses /\ AnyConfig \in Configs
  BY AddressesAssumption, ConfigsAssumption DEF AnyAddress, AnyConfig

LEMMA InitType == Init => TypeOK
  BY LocalsType, CapType, LowCapType, AgeAssumption, MaxTimeAssumption
  DEF Init, TypeOK, Cap, LowCap

LEMMA StepType == TypeOK /\ [Next]_vars => TypeOK'
  <1> SUFFICES ASSUME TypeOK, [Next]_vars PROVE TypeOK'
    OBVIOUS
  <1> USE AgeAssumption, MaxTimeAssumption
  <1>1. CASE \E w \in Workers : Consume(w)
    <2>1. PICK w \in Workers : Consume(w)
      BY <1>1
    <2>2. PICK k \in Clients, b \in Buckets, ok \in BOOLEAN : Settles(w, k, b, ok)
      BY <2>1, ConsumeEffect
    <2>3. /\ pc' = [pc EXCEPT ![w] = "idle"]
          /\ addr' = [addr EXCEPT ![w] = AnyAddress]
          /\ loaded' = [loaded EXCEPT ![w] = AnyConfig]
          /\ UNCHANGED <<config, now, evictor, cutoff, scan>>
      BY <2>1 DEF Consume, evictorVars
    <2>4. /\ DOMAIN buckets' \subseteq Clients
          /\ \A j \in DOMAIN buckets' : buckets'[j] \in Buckets /\ buckets'[j].last <= now'
          /\ scan' \subseteq DOMAIN buckets'
      BY <2>2, <2>3 DEF TypeOK, Settles
    <2>5. credit' \in [Clients -> Int] /\ floor' \in [Clients -> Int]
      <3>1. CASE ok
        BY <2>2, <3>1, UnitAssumption DEF TypeOK, Settles
      <3>2. CASE ~ok
        BY <2>2, <3>2 DEF TypeOK, Settles
      <3> QED
        BY <3>1, <3>2
    <2>6. passed' \in [Workers -> BOOLEAN]
      BY <2>2 DEF TypeOK, Settles
    <2> QED
      BY <2>3, <2>4, <2>5, <2>6, LocalsType, ZenonT(30) DEF TypeOK
  <1>2. CASE \E w \in Workers, a \in Addresses : LoadConfig(w, a)
    BY <1>2 DEF TypeOK, LoadConfig, evictorVars, history
  <1>3. CASE EvictStarts
    BY <1>3 DEF TypeOK, EvictStarts, requestVars, history
  <1>4. CASE EvictEnds
    BY <1>4 DEF TypeOK, EvictEnds, requestVars, history
  <1>5. CASE EvictionStops
    BY <1>5 DEF TypeOK, EvictionStops, requestVars, history
  <1>6. CASE \E k \in scan : EvictEntry(k)
    BY <1>6 DEF TypeOK, EvictEntry, requestVars, history
  <1>7. CASE \E c \in Configs : Reload(c)
    BY <1>7 DEF TypeOK, Reload, requestVars, evictorVars, history
  <1>8. CASE Tick
    <2>1. credit' \in [Clients -> Int] /\ floor' \in [Clients -> Int]
      <3>1. \A k \in Clients :
              /\ AtMost(credit[k] + TopRate, TopBurst * Unit) \in Int
              /\ AtMost(floor[k] + LowRate, LowBurst * Unit) \in Int
        BY CapType, LowCapType, ConfigsAssumption DEF TypeOK, AtMost, Cap, LowCap
      <3> QED
        BY <1>8, <3>1 DEF Tick
    <2>2. now' = now + 1 /\ now' \in 0..MaxTime /\ now \in Nat
      BY <1>8 DEF Tick, TypeOK
    <2>3. UNCHANGED <<config, buckets, pc, addr, loaded, passed, evictor, cutoff, scan>>
      BY <1>8 DEF Tick, requestVars, evictorVars
    <2>4. /\ \A k \in DOMAIN buckets : buckets[k] \in Buckets /\ buckets[k].last <= now'
          /\ cutoff <= now' - (IF evictor = "scanning" THEN MaxAge ELSE 0)
      BY <2>2 DEF TypeOK, Buckets
    <2> QED
      BY <2>1, <2>2, <2>3, <2>4 DEF TypeOK
  <1>9. CASE UNCHANGED vars
    BY <1>9 DEF TypeOK, vars
  <1> QED
    BY <1>1, <1>2, <1>3, <1>4, <1>5, <1>6, <1>7, <1>8, <1>9 DEF Next

\* Every bucket belongs to a client and holds a number of tokens that is not
\* negative, and no bucket is refilled in the future (RateLimiter::buckets).
THEOREM TypeCorrect == Spec => []TypeOK
  BY InitType, StepType, PTL DEF Spec

-----------------------------------------------------------------------------
(* Eviction.                                                               *)

\* What retain has visited, or what was inserted meanwhile, is fresh.
ScanInv == evictor = "scanning" => \A k \in DOMAIN buckets \ scan : buckets[k].last > cutoff

LEMMA StepScan == TypeOK /\ ScanInv /\ [Next]_vars => ScanInv'
  <1> SUFFICES ASSUME TypeOK, ScanInv, [Next]_vars PROVE ScanInv'
    OBVIOUS
  <1> USE AgeAssumption, MaxTimeAssumption DEF ScanInv
  <1>1. CASE \E w \in Workers : Consume(w)
    <2>1. PICK w \in Workers : Consume(w)
      BY <1>1
    <2>2. PICK k \in Clients, b \in Buckets, ok \in BOOLEAN : Settles(w, k, b, ok)
      BY <2>1, ConsumeEffect
    <2>3. UNCHANGED <<evictor, cutoff, scan>>
      BY <2>1 DEF Consume, evictorVars
    <2>4. evictor = "scanning" => cutoff < now
      <3>1. cutoff \in Int /\ now \in Int /\ MaxAge \in Nat \ {0}
        BY DEF TypeOK
      <3>2. evictor = "scanning" => cutoff <= now - MaxAge
        BY DEF TypeOK
      <3> QED
        BY <3>1, <3>2
    <2> QED
      BY <2>2, <2>3, <2>4 DEF Settles
  <1>2. CASE EvictStarts
    BY <1>2 DEF EvictStarts
  <1>3. CASE \E k \in scan : EvictEntry(k)
    BY <1>3 DEF EvictEntry, TypeOK, Buckets
  <1>4. CASE EvictEnds \/ EvictionStops
    BY <1>4 DEF EvictEnds, EvictionStops
  <1>5. CASE \/ \E w \in Workers, a \in Addresses : LoadConfig(w, a)
             \/ \E c \in Configs : Reload(c)
             \/ Tick
             \/ UNCHANGED vars
    BY <1>5 DEF LoadConfig, Reload, Tick, vars, evictorVars
  <1> QED
    BY <1>1, <1>2, <1>3, <1>4, <1>5 DEF Next

LEMMA StepThorough ==
    ASSUME ScanInv, [Next]_vars, evictor = "scanning", evictor' = "waiting"
    PROVE  \A k \in DOMAIN buckets : buckets[k].last > cutoff
  <1>1. EvictEnds
    BY DEF Next, vars, Consume, LoadConfig, EvictStarts, EvictionStops, EvictEntry, Reload, Tick,
           evictorVars
  <1> QED
    BY <1>1 DEF EvictEnds, ScanInv

\* A pass of evict_stale leaves no bucket that was last used at or before its
\* cutoff, for any number of clients and concurrent requests.
THEOREM EvictionIsThorough == Spec => EvictionThorough
  <1>1. Init => ScanInv
    BY DEF Init, ScanInv
  <1>2. ScanInv /\ [Next]_vars =>
          [evictor = "scanning" /\ evictor' = "waiting" =>
             \A k \in DOMAIN buckets : buckets[k].last > cutoff]_vars
    BY StepThorough
  <1> QED
    BY <1>1, <1>2, InitType, StepType, StepScan, PTL DEF Spec, EvictionThorough

-----------------------------------------------------------------------------
(* Credit.                                                                 *)

\* A bucket old enough to be evicted could be full by now.
AgeFillsBucket == Cap <= TopRate * MaxAge

LEMMA PotentialType ==
    ASSUME TypeOK, NEW k \in DOMAIN buckets
    PROVE  /\ buckets[k].tokens \in Nat
           /\ TopRate * (now - buckets[k].last) \in Nat
           /\ Potential(buckets[k]) \in Nat
  <1>1. buckets[k].tokens \in Nat /\ now - buckets[k].last \in Nat
    BY MaxTimeAssumption DEF TypeOK, Buckets
  <1>2. TopRate * (now - buckets[k].last) \in Nat
    BY <1>1, ConfigsAssumption
  <1> QED
    BY <1>1, <1>2, CapType DEF Potential, AtMost

LEMMA InitCredit == Init => CreditInv
  BY CapType DEF Init, CreditInv, Cap

LEMMA ConsumeCredit ==
    ASSUME TypeOK, CreditInv, NEW w \in Workers, Consume(w)
    PROVE  CreditInv'
  <1>1. PICK k \in Clients, b \in Buckets, ok \in BOOLEAN : Settles(w, k, b, ok)
    BY ConsumeEffect, SMTT(30)
  <1>2. now' = now /\ now \in Nat /\ Cap \in Nat /\ Unit \in Nat
    BY CapType, UnitAssumption, MaxTimeAssumption DEF Consume, TypeOK
  <1>3. b.tokens \in Nat /\ b.last = now /\ credit \in [Clients -> Int]
    BY <1>1 DEF Settles, Buckets, TypeOK
  <1>4. b.tokens <= credit'[k] /\ credit'[k] <= credit[k] /\ credit'[k] \in Int
    <2>1. CASE ok
      BY <1>1, <1>2, <1>3, <2>1 DEF Settles
    <2>2. CASE ~ok
      BY <1>1, <1>2, <1>3, <2>2 DEF Settles
    <2> QED
      BY <2>1, <2>2
  <1>5. \A j \in Clients \ {k} : credit'[j] = credit[j]
    <2>1. CASE ok
      BY <1>1, <1>3, <2>1 DEF Settles
    <2>2. CASE ~ok
      BY <1>1, <2>2 DEF Settles
    <2> QED
      BY <2>1, <2>2
  <1>6. SUFFICES ASSUME NEW j \in Clients
                 PROVE  /\ credit'[j] <= Cap
                        /\ IF j \in DOMAIN buckets' THEN Potential(buckets[j])' <= credit'[j]
                                                    ELSE credit'[j] = Cap
    BY DEF CreditInv, Cap
  <1>7. CASE j = k
    <2>1. buckets'[k] = b /\ k \in DOMAIN buckets'
      BY <1>1 DEF Settles
    <2>2. TopRate * (now' - b.last) = 0
      BY <1>2, <1>3, ConfigsAssumption
    <2>3. Potential(buckets[k])' <= b.tokens /\ Potential(buckets[k])' \in Int
      BY <1>2, <1>3, <2>1, <2>2 DEF Potential, AtMost, Cap
    <2>4. credit[k] <= Cap /\ credit[k] \in Int
      BY <1>3 DEF CreditInv
    <2> QED
      BY <1>2, <1>3, <1>4, <1>7, <2>1, <2>3, <2>4
  <1>8. CASE j # k
    <2>1. (j \in DOMAIN buckets' <=> j \in DOMAIN buckets) /\ credit'[j] = credit[j]
      BY <1>1, <1>5, <1>8 DEF Settles
    <2>2. j \in DOMAIN buckets => buckets'[j] = buckets[j]
      BY <1>1, <1>8 DEF Settles
    <2>3. j \in DOMAIN buckets => Potential(buckets[j])' = Potential(buckets[j])
      BY <1>2, <2>2 DEF Potential, Cap
    <2> QED
      BY <2>1, <2>3 DEF CreditInv
  <1> QED
    BY <1>7, <1>8

LEMMA EvictCredit ==
    ASSUME TypeOK, CreditInv, AgeFillsBucket, NEW k \in scan, EvictEntry(k)
    PROVE  CreditInv'
  <1>1. now' = now /\ credit' = credit /\ k \in DOMAIN buckets /\ k \in Clients
    BY DEF EvictEntry, TypeOK, history
  <1>2. \A j \in DOMAIN buckets' : j \in DOMAIN buckets /\ buckets'[j] = buckets[j]
    BY DEF EvictEntry
  <1>3. \A j \in DOMAIN buckets' : Potential(buckets[j])' = Potential(buckets[j])
    BY <1>1, <1>2 DEF Potential, Cap
  <1>4. \A j \in DOMAIN buckets \ DOMAIN buckets' : j = k /\ buckets[k].last <= cutoff
    BY DEF EvictEntry
  <1>5. ASSUME buckets[k].last <= cutoff PROVE credit[k] = Cap
    <2> DEFINE d == now - buckets[k].last
    <2>1. d \in Nat /\ MaxAge <= d /\ MaxAge \in Nat
      BY <1>1, <1>5, AgeAssumption, MaxTimeAssumption DEF TypeOK, EvictEntry, Buckets
    <2>2. MaxAge * TopRate <= d * TopRate /\ TopRate \in Nat
      BY <2>1, ConfigsAssumption, TimesMonotone
    <2>3. TopRate * MaxAge = MaxAge * TopRate /\ TopRate * d = d * TopRate
      BY <2>1, <2>2
    <2>4. Cap <= TopRate * d /\ TopRate * d \in Nat
      BY <2>1, <2>2, <2>3, CapType DEF AgeFillsBucket
    <2>5. Potential(buckets[k]) = AtMost(buckets[k].tokens + TopRate * d, Cap)
      BY DEF Potential
    <2>6. buckets[k].tokens \in Nat
      BY <1>1, PotentialType
    <2> HIDE DEF d
    <2>7. AtMost(buckets[k].tokens + TopRate * d, Cap) = Cap
      BY <2>4, <2>6, CapType DEF AtMost
    <2> QED
      BY <1>1, <2>5, <2>7, CapType DEF CreditInv, TypeOK
  <1> QED
    BY <1>1, <1>2, <1>3, <1>4, <1>5 DEF CreditInv, Cap

LEMMA TickCredit ==
    ASSUME TypeOK, CreditInv, Tick
    PROVE  CreditInv'
  <1>1. now' = now + 1 /\ buckets' = buckets /\ now \in Nat /\ Cap \in Nat /\ TopRate \in Nat
    BY CapType, MaxTimeAssumption, ConfigsAssumption DEF Tick, TypeOK
  <1>2. SUFFICES ASSUME NEW k \in Clients
                 PROVE  /\ credit'[k] <= Cap
                        /\ IF k \in DOMAIN buckets THEN Potential(buckets[k])' <= credit'[k]
                                                   ELSE credit'[k] = Cap
    BY <1>1 DEF CreditInv, Cap
  <1>3. credit'[k] = AtMost(credit[k] + TopRate, Cap) /\ credit[k] \in Int /\ credit[k] <= Cap
    BY DEF Tick, TypeOK, CreditInv, Cap
  <1>4. CASE k \in DOMAIN buckets
    <2> DEFINE x == TopRate * (now - buckets[k].last)
    <2>1. x \in Nat /\ buckets[k].tokens \in Nat /\ buckets[k].last \in Nat
      BY <1>4, PotentialType DEF TypeOK, Buckets
    <2>2. TopRate * (now' - buckets[k].last) = x + TopRate
      BY <1>1, <2>1
    <2>3. /\ Potential(buckets[k])' = AtMost(buckets[k].tokens + x + TopRate, Cap)
          /\ AtMost(buckets[k].tokens + x, Cap) <= credit[k]
      <3>1. Potential(buckets[k])' = AtMost(buckets[k].tokens + (x + TopRate), Cap)
        BY <1>1, <2>2 DEF Potential, Cap
      <3>2. Potential(buckets[k]) = AtMost(buckets[k].tokens + x, Cap)
        BY DEF Potential
      <3> QED
        BY <1>1, <1>4, <2>1, <3>1, <3>2 DEF CreditInv
    <2> HIDE DEF x
    <2> QED
      BY <1>1, <1>3, <1>4, <2>1, <2>3 DEF AtMost
  <1>5. CASE k \notin DOMAIN buckets
    BY <1>1, <1>3, <1>5 DEF CreditInv, AtMost
  <1> QED
    BY <1>4, <1>5

LEMMA StepCredit ==
    ASSUME TypeOK, CreditInv, AgeFillsBucket, [Next]_vars
    PROVE  CreditInv'
  <1>1. CASE \/ \E w \in Workers, a \in Addresses : LoadConfig(w, a)
             \/ EvictStarts \/ EvictEnds \/ EvictionStops
             \/ \E c \in Configs : Reload(c)
             \/ UNCHANGED vars
    <2>1. UNCHANGED <<buckets, now, credit>>
      BY <1>1 DEF LoadConfig, EvictStarts, EvictEnds, EvictionStops, Reload, vars, history
    <2> QED
      BY <2>1 DEF CreditInv, Potential, Cap
  <1> QED
    BY <1>1, ConsumeCredit, EvictCredit, TickCredit DEF Next

LEMMA CreditNotNegative == TypeOK /\ CreditInv => WithinCredit
  <1> SUFFICES ASSUME TypeOK, CreditInv, NEW k \in Clients PROVE credit[k] >= 0
    BY DEF WithinCredit
  <1> QED
    BY PotentialType, CapType DEF CreditInv, TypeOK

\* If a bucket can fill within max_age, no client ever gets more requests
\* through than its ideal bucket allows, for any clients, requests, rates,
\* bursts and reloads (check_and_consume, evict_stale).
THEOREM ClientsStayWithinCredit == ASSUME AgeFillsBucket PROVE Spec => []WithinCredit
  <1>1. Init => TypeOK /\ CreditInv
    BY InitType, InitCredit
  <1>2. TypeOK /\ CreditInv /\ [Next]_vars => (TypeOK /\ CreditInv)'
    BY StepType, StepCredit
  <1>3. TypeOK /\ CreditInv => WithinCredit
    BY CreditNotNegative
  <1> QED
    BY <1>1, <1>2, <1>3, PTL DEF Spec

-----------------------------------------------------------------------------
(* Rejections.                                                             *)

LEMMA ConsumeFloor ==
    ASSUME TypeOK, FloorInv, NEW w \in Workers, Consume(w)
    PROVE  FloorInv'
  <1>1. PICK k \in Clients, b \in Buckets, ok \in BOOLEAN : Settles(w, k, b, ok)
    BY ConsumeEffect
  <1>2. now' = now /\ now \in Nat /\ LowCap \in Nat /\ Unit \in Nat
    BY LowCapType, UnitAssumption, MaxTimeAssumption DEF Consume, TypeOK
  <1>3. b.tokens \in Nat /\ b.last = now /\ floor \in [Clients -> Int]
    BY <1>1 DEF Settles, Buckets, TypeOK
  <1>4. /\ floor'[k] <= b.tokens /\ floor'[k] <= floor[k] /\ floor'[k] \in Int
        /\ \A j \in Clients \ {k} : floor'[j] = floor[j]
    <2>1. CASE ok
      BY <1>1, <1>2, <1>3, <2>1 DEF Settles
    <2>2. CASE ~ok
      BY <1>1, <1>2, <1>3, <2>2 DEF Settles
    <2> QED
      BY <2>1, <2>2
  <1>5. SUFFICES ASSUME NEW j \in Clients
                 PROVE  /\ floor'[j] <= LowCap
                        /\ j \in DOMAIN buckets' => floor'[j] <= Least(buckets[j])'
    BY DEF FloorInv, LowCap
  <1>6. CASE j = k
    <2>1. buckets'[k] = b
      BY <1>1 DEF Settles
    <2>2. LowRate * (now' - b.last) = 0
      BY <1>2, <1>3, ConfigsAssumption
    <2>3. Least(buckets[k])' = AtMost(b.tokens, LowCap)
      BY <1>2, <1>3, <2>1, <2>2 DEF Least, LowCap
    <2>4. floor[k] <= LowCap /\ floor[k] \in Int
      BY <1>3 DEF FloorInv
    <2> QED
      BY <1>2, <1>3, <1>4, <1>6, <2>3, <2>4 DEF AtMost
  <1>7. CASE j # k
    <2>1. (j \in DOMAIN buckets' => j \in DOMAIN buckets /\ buckets'[j] = buckets[j])
      BY <1>1, <1>7, SMTT(30) DEF Settles
    <2>2. j \in DOMAIN buckets' => Least(buckets[j])' = Least(buckets[j])
      BY <1>2, <2>1 DEF Least, LowCap
    <2> QED
      BY <1>4, <1>7, <2>1, <2>2 DEF FloorInv
  <1> QED
    BY <1>6, <1>7

LEMMA TickFloor ==
    ASSUME TypeOK, FloorInv, Tick
    PROVE  FloorInv'
  <1>1. now' = now + 1 /\ buckets' = buckets /\ now \in Nat /\ LowCap \in Nat /\ LowRate \in Nat
    BY LowCapType, MaxTimeAssumption, ConfigsAssumption DEF Tick, TypeOK
  <1>2. SUFFICES ASSUME NEW k \in Clients
                 PROVE  /\ floor'[k] <= LowCap
                        /\ k \in DOMAIN buckets => floor'[k] <= Least(buckets[k])'
    BY <1>1 DEF FloorInv, LowCap
  <1>3. floor'[k] = AtMost(floor[k] + LowRate, LowCap) /\ floor[k] \in Int /\ floor[k] <= LowCap
    BY DEF Tick, TypeOK, FloorInv, LowCap
  <1>4. CASE k \in DOMAIN buckets
    <2> DEFINE x == LowRate * (now - buckets[k].last)
    <2>1. buckets[k].tokens \in Nat /\ buckets[k].last \in Nat /\ now - buckets[k].last \in Nat
      BY <1>1, <1>4 DEF TypeOK, Buckets
    <2>2. x \in Nat
      BY <1>1, <2>1
    <2>3. LowRate * (now' - buckets[k].last) = x + LowRate
      BY <1>1, <2>1
    <2>4. Least(buckets[k])' = AtMost(buckets[k].tokens + (x + LowRate), LowCap)
      BY <1>1, <2>3 DEF Least, LowCap
    <2>5. floor[k] <= AtMost(buckets[k].tokens + x, LowCap)
      BY <1>4 DEF Least, FloorInv
    <2> HIDE DEF x
    <2> QED
      BY <1>1, <1>3, <2>1, <2>2, <2>4, <2>5 DEF AtMost
  <1>5. CASE k \notin DOMAIN buckets
    BY <1>1, <1>3, <1>5 DEF AtMost
  <1> QED
    BY <1>4, <1>5, SMTT(30)

LEMMA StepFloor ==
    ASSUME TypeOK, FloorInv, [Next]_vars
    PROVE  FloorInv'
  <1>1. CASE \/ \E w \in Workers, a \in Addresses : LoadConfig(w, a)
             \/ EvictStarts \/ EvictEnds \/ EvictionStops
             \/ \E k \in scan : EvictEntry(k)
             \/ \E c \in Configs : Reload(c)
             \/ UNCHANGED vars
    <2>1. UNCHANGED <<now, floor>>
      BY <1>1, ZenonT(30) DEF LoadConfig, EvictStarts, EvictEnds, EvictionStops, EvictEntry, Reload, vars,
                  history
    <2>2. \A j \in DOMAIN buckets' : j \in DOMAIN buckets /\ buckets'[j] = buckets[j]
      BY <1>1, ZenonT(30) DEF LoadConfig, EvictStarts, EvictEnds, EvictionStops, EvictEntry, Reload, vars
    <2> QED
      BY <2>1, <2>2 DEF FloorInv, Least, LowCap
  <1> QED
    BY <1>1, ConsumeFloor, TickFloor DEF Next

\* A request is rejected only if its client is not even due a token by the
\* smallest rate and burst, for any clients, requests, reloads and evictions
\* (TokenBucket::refill, check_and_consume).
THEOREM RejectsAreDue == Spec => NoFalseReject
  <1>1. Init => FloorInv
    BY LowCapType DEF Init, FloorInv, LowCap
  <1>2. TypeOK /\ FloorInv /\ [Next]_vars =>
          [\A w \in Workers :
             pc[w] = "loaded" /\ pc'[w] = "idle" /\ ~passed'[w] =>
               floor[Client(addr[w])] < Unit]_vars
    <2> SUFFICES ASSUME TypeOK, FloorInv, Next, NEW w \in Workers,
                        pc[w] = "loaded", pc'[w] = "idle", ~passed'[w]
                 PROVE  floor[Client(addr[w])] < Unit
      BY SMTT(30) DEF vars
    <2>1. Consume(w)
      <3>1. pc' # pc
        OBVIOUS
      <3>2. \/ \E v \in Workers : Consume(v)
            \/ \E v \in Workers, a \in Addresses : LoadConfig(v, a)
        BY <3>1, ZenonT(30) DEF Next, EvictStarts, EvictEnds, EvictionStops, EvictEntry, Reload, Tick,
                    requestVars
      <3>3. ASSUME NEW v \in Workers, NEW a \in Addresses, LoadConfig(v, a) PROVE FALSE
        BY <3>3, SMTT(30) DEF LoadConfig, TypeOK
      <3>4. ASSUME NEW v \in Workers, Consume(v) PROVE v = w
        BY <3>4, SMTT(30) DEF Consume, TypeOK
      <3> QED
        BY <3>2, <3>3, <3>4, SMTT(30)
    <2>2. PICK k \in Clients, b \in Buckets, ok \in BOOLEAN : Settles(w, k, b, ok)
      BY <2>1, ConsumeEffect
    <2>3. ~ok
      BY <2>2 DEF Settles, TypeOK
    <2>4. floor[k] <= b.tokens + 0 /\ b.tokens < Unit /\ k = Client(addr[w])
      BY <2>2, <2>3 DEF Settles
    <2> QED
      BY <2>2, <2>4, UnitAssumption, SMTT(30) DEF TypeOK, Buckets
  <1>3. TypeOK /\ FloorInv /\ [Next]_vars => FloorInv'
    BY StepFloor
  <1> QED
    BY <1>1, <1>2, <1>3, InitType, StepType, PTL DEF Spec, NoFalseReject
=============================================================================
