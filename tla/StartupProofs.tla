--------------------------- MODULE StartupProofs ----------------------------
(***************************************************************************)
(* TypeOK, ReadyIsComplete, ExitCodes, AcceptedStarts, ServesWhatItAccepts *)
(* and RedirectReachesSite for every environment: any file, any number of  *)
(* listeners and sites, any ports in use, any Host header that is a host   *)
(* and perhaps a port.                                                     *)
(***************************************************************************)
EXTENDS Startup, SequenceTheorems, WellFoundedInduction, TLAPS

Running == {"subscribe", "wait", "drain"}   \* after READY=1

\* The configuration in use is the file's, and validation found no error in it.
Loaded ==
    /\ Parses(env.file) /\ conf = FullConfig(env.file)
    /\ validate(conf, env.wildcard, DOMAIN env.files) = {}
    /\ table = into_dynamic(conf).routing_table

ConfInv ==
    /\ env \in Scenarios
    /\ pc = "load" => conf = NoConfig /\ web.at = "idle"
    /\ pc \notin {"load", "exited"} => Loaded
    /\ pc = "exited" => conf = NoConfig \/ Loaded

HealthSockets(c) == IF c.health_check_port # "0" THEN {HealthSocket(c)} ELSE {}
RedirectSockets(l) == IF l.http_port # "0" THEN {RedirectSocket(l)} ELSE {}

\* The sockets once the first n listeners are bound.
BoundUpTo(n) ==
    HealthSockets(conf) \cup UNION {ListenerSockets(conf.listeners[i]) : i \in 1..n}

\* How far the loop over the listeners is.
SocketInv ==
    /\ pc \in {"load", "log", "register", "key"} => next = 1 /\ sockets = {}
    /\ pc \in {"redirect", "https", "tls"} => next \in Listeners
    /\ pc = "redirect" => sockets = BoundUpTo(next - 1)
    /\ pc = "https" => sockets = BoundUpTo(next - 1) \cup RedirectSockets(Listener)
    /\ pc \in {"tls", "spawn", "notify"} \cup Running => sockets = WantedSockets(conf)

AcceptorInv ==
    /\ acceptors \in Seq(SUBSET {"h2", "http/1.1", "acme-tls/1"})
    /\ pc \in {"load", "log", "register", "key", "redirect", "https"} => acceptors = <<>>
    /\ pc = "tls" => Len(acceptors) = next - 1
    /\ pc \in {"spawn", "notify"} \cup Running => Len(acceptors) = Len(conf.listeners)

\* What READY=1 and the shutdown follow.
PhaseInv ==
    /\ pc # "exited" => (serving <=> pc \in {"notify"} \cup Running)
    /\ pc # "exited" => (notified <=> pc \in Running)
    /\ pc \notin {"drain", "exited"} => seen = 0
    /\ pc = "drain" => version = 1

\* The redirect leads to a host that is looked up like the one asked for.
WebInv ==
    /\ web.at = "301" => normalize_host(web.authority) = normalize_host(web.host)
    /\ RedirectReachesSite

IInv ==
    /\ TypeOK /\ ConfInv /\ SocketInv /\ AcceptorInv /\ PhaseInv /\ WebInv
    /\ ExitCodes /\ AcceptedStarts

-----------------------------------------------------------------------------
(* Numbers and sequences.                                                  *)

LEMMA FunctionIsSeq ==
    ASSUME NEW S, NEW n \in Nat, NEW f \in [1..n -> S]
    PROVE  f \in Seq(S) /\ Len(f) = n
<1>1. f \in Seq(S)
  BY SeqDef
<1>2. DOMAIN f = 1..Len(f) /\ Len(f) \in Nat
  BY <1>1, LenProperties
<1> QED
  BY <1>1, <1>2

LEMMA LeastUnder ==
    ASSUME NEW R, IsWellFoundedOn(R, Nat), \A x, y \in Nat : <<x, y>> \in R <=> x < y,
           NEW T \in SUBSET Nat, T # {}
    PROVE  \E x \in T : \A y \in T : x <= y
<1>1. T \subseteq Nat
  OBVIOUS
<1>2. \E x \in T : \A y \in T : ~ (<<y, x>> \in R)
  <2>1. \A RR, S, TT : IsWellFoundedOn(RR, S) /\ TT \subseteq S /\ TT # {} =>
            \E x \in TT : \A y \in TT : ~ (<<y, x>> \in RR)
    BY WFMin
  <2>2. IsWellFoundedOn(R, Nat) /\ T \subseteq Nat /\ T # {} =>
            \E x \in T : \A y \in T : ~ (<<y, x>> \in R)
    BY ONLY <2>1, Zenon
  <2> QED
    BY <1>1, <2>2
<1>3. \E x \in T : \A y \in T : ~ (y < x)
  BY <1>1, <1>2, Zenon
<1> QED
  BY <1>3

\* A set of naturals has a least element: induction in a form without a
\* predicate as a parameter.
LEMMA LeastElement ==
    ASSUME NEW T \in SUBSET Nat, T # {}
    PROVE  \E x \in T : \A y \in T : x <= y
<1>1. PICK R : IsWellFoundedOn(R, Nat) /\ \A x, y \in Nat : <<x, y>> \in R <=> x < y
  <2>1. \A x, y \in Nat : <<x, y>> \in OpToRel(<, Nat) <=> x < y
    BY DEF OpToRel
  <2>2. IsWellFoundedOn(OpToRel(<, Nat), Nat)
    BY NatLessThanWellFounded, Zenon
  <2> QED
    BY <2>1, <2>2, Zenon
<1> QED
  BY <1>1, LeastUnder

\* A bounded one has a greatest.
LEMMA GreatestElement ==
    ASSUME NEW n \in Nat, NEW T \in SUBSET (0..n), T # {}
    PROVE  \E x \in T : \A y \in T : y <= x
<1> DEFINE U == {n - x : x \in T}
<1>1. U \in SUBSET Nat /\ U # {}
  <2>1. \A x \in T : n - x \in Nat
    OBVIOUS
  <2> QED
    BY <2>1, Zenon
<1>2. PICK u \in U : \A v \in U : u <= v
  <2> HIDE DEF U
  <2> QED
    BY <1>1, LeastElement
<1>3. PICK x \in T : u = n - x
  BY <1>2, Zenon
<1>4. ASSUME NEW y \in T PROVE y <= x
  <2>1. n - y \in U
    OBVIOUS
  <2>2. n - x <= n - y
    BY <1>2, <1>3, <2>1
  <2> QED
    BY <2>2
<1> QED
  BY <1>4

\* The recursion by which AllSites joins the lists has a solution.
LEMMA JoinExists ==
    ASSUME NEW L, NEW m \in Nat
    PROVE  \E g : g = [i \in 0..m |-> IF i = 0 THEN <<>> ELSE g[i - 1] \o L[i].sites]
<1> DEFINE Solves(g, n) == g = [i \in 0..n |-> IF i = 0 THEN <<>> ELSE g[i - 1] \o L[i].sites]
           T == {n \in Nat : ~ \E g : Solves(g, n)}
<1>1. T \in SUBSET Nat
  BY Zenon
<1>2. SUFFICES ASSUME T # {} PROVE FALSE
  BY Zenon
<1>3. PICK n \in T : \A k \in T : n <= k
  <2> HIDE DEF T
  <2> QED
    BY <1>1, <1>2, LeastElement
<1>4. n # 0
  <2>1. Solves([i \in 0..0 |-> <<>>], 0)
    OBVIOUS
  <2> QED
    BY <2>1, Zenon
<1>5. n - 1 \in Nat /\ n - 1 \notin T
  <2>1. n \in Nat
    BY <1>1
  <2>2. n - 1 \in Nat /\ ~ (n <= n - 1)
    BY <1>4, <2>1
  <2> HIDE DEF T
  <2> QED
    BY <1>3, <2>2
<1>6. PICK g : Solves(g, n - 1)
  BY <1>5, Zenon
<1> DEFINE h == [i \in 0..n |-> IF i = n THEN g[i - 1] \o L[i].sites ELSE g[i]]
<1>7. \A i \in 0..(n - 1) : h[i] = g[i]
  BY <1>5, SMTT(30)
<1>8. \A i \in 0..(n - 1) : g[i] = IF i = 0 THEN <<>> ELSE g[i - 1] \o L[i].sites
  BY <1>6
<1>9. \A i \in 0..n : h[i] = IF i = 0 THEN <<>> ELSE h[i - 1] \o L[i].sites
  <2> SUFFICES ASSUME NEW i \in 0..n
               PROVE  h[i] = IF i = 0 THEN <<>> ELSE h[i - 1] \o L[i].sites
    BY Zenon
  <2>1. i # 0 => h[i - 1] = g[i - 1]
    BY <1>5, <1>7
  <2>2. CASE i = n
    <3>1. h[i] = g[i - 1] \o L[i].sites
      BY <2>2, Zenon
    <3> QED
      BY <1>4, <2>1, <2>2, <3>1, Zenon
  <2>3. CASE i # n
    <3>1. h[i] = g[i] /\ i \in 0..(n - 1)
      BY <2>3
    <3> QED
      BY <1>8, <2>1, <3>1
  <2> QED
    BY <2>2, <2>3
<1>10. h = [i \in 0..n |-> h[i]]
  OBVIOUS
<1>11. Solves(h, n)
  <2> HIDE DEF h
  <2> QED
    BY <1>9, <1>10, Zenon
<1> QED
  BY <1>3, <1>11, Zenon

\* The lists of all listeners, joined, are a list of their sites.
LEMMA JoinType ==
    ASSUME NEW c, Len(c.listeners) \in Nat,
           NEW S, \A i \in 1..Len(c.listeners) : c.listeners[i].sites \in Seq(S)
    PROVE  AllSites(c) \in Seq(S)
<1> DEFINE L == c.listeners
           n == Len(L)
           g == CHOOSE g : g = [i \in 0..n |-> IF i = 0 THEN <<>> ELSE g[i - 1] \o L[i].sites]
           T == {i \in 0..n : g[i] \notin Seq(S)}
<1>1. AllSites(c) = g[n]
  BY DEF AllSites
<1>2. g = [i \in 0..n |-> IF i = 0 THEN <<>> ELSE g[i - 1] \o L[i].sites]
  <2> HIDE DEF n, L
  <2>1. n \in Nat
    BY DEF n, L
  <2> QED
    BY <2>1, JoinExists, Zenon
<1> HIDE DEF g
<1>3. n \in Nat /\ \A i \in 1..n : L[i].sites \in Seq(S)
  OBVIOUS
<1> HIDE DEF n, L
<1>4. \A i \in 0..n : g[i] = IF i = 0 THEN <<>> ELSE g[i - 1] \o L[i].sites
  BY <1>2, Zenon
<1>5. T = {}
  <2> SUFFICES ASSUME T # {} PROVE FALSE
    OBVIOUS
  <2>1. T \in SUBSET Nat
    BY <1>3
  <2>2. PICK i \in T : \A k \in T : i <= k
    <3> HIDE DEF T
    <3> QED
      BY <2>1, LeastElement
  <2>3. i \in 0..n /\ g[i] \notin Seq(S)
    OBVIOUS
  <2>4. i # 0
    BY <1>3, <1>4, <2>3, EmptySeq, Zenon
  <2>5. i \in 1..n /\ g[i - 1] \in Seq(S)
    BY <1>3, <2>2, <2>3, <2>4
  <2>6. g[i] = g[i - 1] \o L[i].sites
    BY <1>4, <2>3, <2>4, Zenon
  <2>7. g[i - 1] \o L[i].sites \in Seq(S)
    BY <1>3, <2>5, ConcatProperties
  <2> QED
    BY <2>3, <2>6, <2>7
<1> QED
  BY <1>1, <1>3, <1>5

-----------------------------------------------------------------------------
(* Hosts.                                                                  *)

\* The strings, with those named that the proofs build texts from.
Token == STRING \cup {":", "443", "8443", "git", "alk", "GIT", "Alk"}

LEMMA TextsAreTokens ==
    ASSUME NEW h \in Seq(STRING)
    PROVE  h \in Seq(Token)
BY SeqDef DEF Token

\* A text that a port can follow: it does not begin with a bracket and has no
\* colon and no closing bracket.
PlainHost(g) ==
    /\ g \in Seq(Token) /\ ~starts_with(g, "[")
    /\ \A i \in 1..Len(g) : g[i] # ":" /\ g[i] # "]"

LEMMA MapIsSeq ==
    ASSUME NEW S, NEW n \in Nat, NEW f, f = [i \in 1..n |-> f[i]], \A i \in 1..n : f[i] \in S
    PROVE  f \in Seq(S) /\ Len(f) = n
<1>1. f \in [1..n -> S]
  BY Zenon
<1> QED
  BY <1>1, FunctionIsSeq

LEMMA OnlyElement ==
    ASSUME NEW x \in Int
    PROVE  Max({x}) = x /\ Min({x}) = x
<1>1. x >= x /\ x =< x
  OBVIOUS
<1>2. Max({x}) = x
  BY <1>1, Zenon DEF Max
<1>3. Min({x}) = x
  BY <1>1, Zenon DEF Min
<1> QED
  BY <1>2, <1>3

\* Every token of a dotted text is a dot or in a label: Labels loses nothing.
LEMMA LabelsCover ==
    ASSUME NEW h \in Seq(Token), NEW i \in 1..Len(h), h[i] # "."
    PROVE  \E l \in Labels(h) : \E j \in 1..Len(l) : l[j] = h[i]
<1> DEFINE cuts == {0, Len(h) + 1} \cup {k \in 1..Len(h) : h[k] = "."}
           below == {c \in cuts : c < i}
           above == {c \in cuts : i < c}
<1>1. Len(h) \in Nat /\ \A k \in 1..Len(h) : h[k] \in Token
  BY LenProperties, ElementOfSeq
<1>2. cuts \subseteq 0..(Len(h) + 1) /\ i \notin cuts
  BY <1>1
<1>3. PICK lo \in below : \A c \in below : c <= lo
  <2>1. Len(h) + 1 \in Nat /\ below \in SUBSET (0..(Len(h) + 1)) /\ below # {}
    BY <1>1, <1>2
  <2> HIDE DEF below
  <2> QED
    BY <2>1, GreatestElement, Zenon
<1>4. PICK hi \in above : \A c \in above : hi <= c
  <2>1. above \in SUBSET Nat /\ above # {}
    BY <1>1, <1>2
  <2> HIDE DEF above
  <2> QED
    BY <2>1, LeastElement
<1>5. lo \in cuts /\ hi \in cuts /\ lo \in 0..(Len(h) + 1) /\ hi \in 0..(Len(h) + 1)
      /\ lo < i /\ i < hi
  BY <1>2
<1>6. \A c \in cuts : c <= lo \/ hi <= c
  <2> TAKE c \in cuts
  <2>1. c < i \/ i < c
    BY <1>2
  <2> QED
    BY <1>3, <1>4, <2>1
<1> DEFINE l == SubSeq(h, lo + 1, hi - 1)
<1>7. l \in Labels(h)
  <2> DEFINE pairs == {p \in cuts \X cuts : p[1] < p[2] /\ \A c \in cuts : c <= p[1] \/ p[2] <= c}
  <2>1. <<lo, hi>> \in pairs
    <3> HIDE DEF cuts
    <3> QED
      BY <1>5, <1>6
  <2>2. Labels(h) = {SubSeq(h, p[1] + 1, p[2] - 1) : p \in pairs}
    BY DEF Labels
  <2>3. <<lo, hi>>[1] = lo /\ <<lo, hi>>[2] = hi
    OBVIOUS
  <2> HIDE DEF pairs
  <2>4. SubSeq(h, <<lo, hi>>[1] + 1, <<lo, hi>>[2] - 1) \in Labels(h)
    BY <2>1, <2>2, Zenon
  <2> QED
    BY <2>3, <2>4, Zenon
<1>8. \A k \in (lo + 1)..(hi - 1) : h[k] \in Token
  BY <1>1, <1>5
<1>9. /\ Len(l) = hi - 1 - (lo + 1) + 1
      /\ \A k \in 1..(hi - 1 - (lo + 1) + 1) : l[k] = h[lo + 1 + k - 1]
  BY <1>5, <1>8, SubSeqProperties
<1>10. i - lo \in 1..Len(l) /\ l[i - lo] = h[i]
  <2> HIDE DEF l
  <2>1. i - lo \in 1..(hi - 1 - (lo + 1) + 1) /\ lo + 1 + (i - lo) - 1 = i
    BY <1>1, <1>5
  <2> QED
    BY <1>9, <2>1
<1> QED
  BY <1>7, <1>10, Zenon

\* What is_valid_hostname accepts has only letters, digits, hyphens and dots.
LEMMA ValidIsPlain ==
    ASSUME NEW h \in Seq(Token), is_valid_hostname(h)
    PROVE  PlainHost(h) /\ h # <<>>
<1> DEFINE Allowed == Alphanumeric \cup {"-", "."}
<1>1. Len(h) \in Nat
  BY LenProperties
<1>2. h # <<>> /\ Len(h) # 0
  BY <1>1, EmptySeq DEF is_valid_hostname
<1>3. ASSUME NEW i \in 1..Len(h) PROVE h[i] \in Allowed
  <2>1. CASE h[i] = "."
    BY <2>1
  <2>2. CASE h[i] # "." /\ Contains(h, ".")
    <3>1. PICK l \in Labels(h) : \E j \in 1..Len(l) : l[j] = h[i]
      BY <2>2, LabelsCover
    <3>2. is_valid_label(l)
      BY <2>2, <3>1 DEF is_valid_hostname
    <3> QED
      BY <3>1, <3>2 DEF is_valid_label
  <2>3. CASE ~Contains(h, ".")
    BY <2>3 DEF is_valid_hostname
  <2> QED
    BY <2>1, <2>2, <2>3
<1>4. ":" \notin Allowed /\ "[" \notin Allowed /\ "]" \notin Allowed
  BY DEF Alphanumeric, Words, Numbers, PortNumbers, Octets, LowerCase
<1> HIDE DEF Allowed
<1>5. \A i \in 1..Len(h) : h[i] # ":" /\ h[i] # "[" /\ h[i] # "]"
  BY <1>3, <1>4
<1>6. ~starts_with(h, "[")
  BY <1>1, <1>2, <1>5 DEF starts_with
<1> QED
  BY <1>2, <1>5, <1>6 DEF PlainHost

\* Lower case changes letters only.
LEMMA LowerFacts ==
    ASSUME NEW h \in Seq(Token)
    PROVE  /\ to_lowercase(h) \in Seq(Token) /\ Len(to_lowercase(h)) = Len(h)
           /\ \A i \in 1..Len(h) : to_lowercase(h)[i] =
                  IF h[i] = "GIT" THEN "git" ELSE IF h[i] = "Alk" THEN "alk" ELSE h[i]
<1>1. Len(h) \in Nat /\ \A k \in 1..Len(h) : h[k] \in Token
  BY LenProperties, ElementOfSeq
<1>2. DOMAIN LowerCase = {"GIT", "Alk"} /\ LowerCase["GIT"] = "git" /\ LowerCase["Alk"] = "alk"
  BY DEF LowerCase
<1>3. \A i \in 1..Len(h) : to_lowercase(h)[i] =
          IF h[i] = "GIT" THEN "git" ELSE IF h[i] = "Alk" THEN "alk" ELSE h[i]
  BY <1>2 DEF to_lowercase
<1>4. to_lowercase(h) = [i \in 1..Len(h) |-> to_lowercase(h)[i]]
  BY DEF to_lowercase
<1>5. \A i \in 1..Len(h) : to_lowercase(h)[i] \in Token
  BY <1>1, <1>3 DEF Token
<1>6. to_lowercase(h) \in Seq(Token) /\ Len(to_lowercase(h)) = Len(h)
  BY <1>1, <1>4, <1>5, MapIsSeq
<1> QED
  BY <1>3, <1>6

LEMMA UpperFacts ==
    ASSUME NEW h \in Seq(Token)
    PROVE  /\ UpperCase(h) \in Seq(Token) /\ Len(UpperCase(h)) = Len(h)
           /\ \A i \in 1..Len(h) : UpperCase(h)[i] =
                  IF h[i] = "git" THEN "GIT" ELSE IF h[i] = "alk" THEN "Alk" ELSE h[i]
<1>1. Len(h) \in Nat /\ \A k \in 1..Len(h) : h[k] \in Token
  BY LenProperties, ElementOfSeq
<1>2. DOMAIN LowerCase = {"GIT", "Alk"} /\ LowerCase["GIT"] = "git" /\ LowerCase["Alk"] = "alk"
  BY DEF LowerCase
<1>3. /\ (CHOOSE u \in {"GIT", "Alk"} : LowerCase[u] = "git") = "GIT"
      /\ (CHOOSE u \in {"GIT", "Alk"} : LowerCase[u] = "alk") = "Alk"
  BY <1>2
<1>4. \A x : IF \E u \in DOMAIN LowerCase : LowerCase[u] = x
             THEN x \in {"git", "alk"} ELSE x \notin {"git", "alk"}
  BY <1>2
<1>5. \A i \in 1..Len(h) : UpperCase(h)[i] =
          IF h[i] = "git" THEN "GIT" ELSE IF h[i] = "alk" THEN "Alk" ELSE h[i]
  BY <1>2, <1>3, <1>4 DEF UpperCase
<1>6. UpperCase(h) = [i \in 1..Len(h) |-> UpperCase(h)[i]]
  BY DEF UpperCase
<1>7. \A i \in 1..Len(h) : UpperCase(h)[i] \in Token
  BY <1>1, <1>5, Zenon DEF Token
<1>8. UpperCase(h) \in Seq(Token) /\ Len(UpperCase(h)) = Len(h)
  BY <1>1, <1>6, <1>7, MapIsSeq
<1> QED
  BY <1>5, <1>8

\* Every spelling of a plain host is plain and the same in lower case.
LEMMA SpellingsAgree ==
    ASSUME NEW h, PlainHost(h), h # <<>>, NEW g \in {h, to_lowercase(h), UpperCase(h)}
    PROVE  PlainHost(g) /\ g # <<>> /\ to_lowercase(g) = to_lowercase(h)
<1>1. h \in Seq(Token) /\ Len(h) \in Nat /\ Len(h) # 0
  BY LenProperties, EmptySeq DEF PlainHost
<1>2. g \in Seq(Token) /\ Len(g) = Len(h)
  BY <1>1, LowerFacts, UpperFacts
<1>3. \A i \in 1..Len(h) :
          g[i] \in {h[i], "git", "alk", "GIT", "Alk"} /\ to_lowercase(g)[i] = to_lowercase(h)[i]
  <2>1. CASE g = h
    BY <2>1
  <2>2. CASE g = to_lowercase(h)
    BY <1>1, <1>2, <2>2, LowerFacts, SMTT(30)
  <2>3. CASE g = UpperCase(h)
    BY <1>1, <1>2, <2>3, LowerFacts, UpperFacts, SMTT(30)
  <2> QED
    BY <2>1, <2>2, <2>3
<1>4. to_lowercase(g) = to_lowercase(h)
  BY <1>1, <1>2, <1>3, LowerFacts, SeqEqual, SMTT(30)
<1>5. \A i \in 1..Len(h) : h[i] # ":" /\ h[i] # "]"
  BY DEF PlainHost
<1>6. h[1] # "["
  BY <1>1 DEF PlainHost, starts_with
<1>7. g # <<>> /\ g[1] # "["
  BY <1>1, <1>2, <1>3, <1>6
<1> QED
  BY <1>2, <1>3, <1>4, <1>5, <1>7 DEF PlainHost, starts_with

\* What find and rfind return: the first or the last place, or 0.
LEMMA FindFacts ==
    ASSUME NEW S, NEW h \in Seq(S), NEW t
    PROVE  /\ find(h, t) \in 0..Len(h)
           /\ find(h, t) = 0 => \A i \in 1..Len(h) : h[i] # t
           /\ find(h, t) # 0 =>
                h[find(h, t)] = t /\ \A i \in 1..(find(h, t) - 1) : h[i] # t
<1> DEFINE I == {i \in 1..Len(h) : h[i] = t}
<1>1. Len(h) \in Nat
  BY LenProperties
<1>2. I \in SUBSET Nat
  OBVIOUS
<1>3. find(h, t) = IF I # {} THEN Min(I) ELSE 0
  BY DEF find, Contains
<1>4. I # {} => Min(I) \in I /\ \A i \in I : Min(I) <= i
  <2> HIDE DEF I
  <2>1. I # {} => \E x \in I : \A y \in I : x <= y
    BY <1>2, LeastElement
  <2> QED
    BY <2>1, Zenon DEF Min
<1>5. CASE I = {}
  BY <1>1, <1>3, <1>5
<1>6. CASE I # {}
  <2>1. find(h, t) \in I /\ \A i \in I : find(h, t) <= i
    <3> HIDE DEF I
    <3> QED
      BY <1>3, <1>4, <1>6, SMTT(30)
  <2> QED
    BY <1>1, <2>1
<1> QED
  BY <1>5, <1>6

LEMMA RfindFacts ==
    ASSUME NEW S, NEW h \in Seq(S), NEW t
    PROVE  /\ rfind(h, t) \in 0..Len(h)
           /\ rfind(h, t) = 0 => \A i \in 1..Len(h) : h[i] # t
           /\ rfind(h, t) # 0 =>
                h[rfind(h, t)] = t /\ \A i \in (rfind(h, t) + 1)..Len(h) : h[i] # t
<1> DEFINE I == {i \in 1..Len(h) : h[i] = t}
<1>1. Len(h) \in Nat
  BY LenProperties
<1>2. I \in SUBSET (0..Len(h))
  BY <1>1
<1>3. rfind(h, t) = IF I # {} THEN Max(I) ELSE 0
  BY DEF rfind, Contains
<1>4. I # {} => Max(I) \in I /\ \A i \in I : Max(I) >= i
  <2> HIDE DEF I
  <2>1. I # {} => \E x \in I : \A y \in I : y <= x
    BY <1>1, <1>2, GreatestElement, Zenon
  <2>2. I # {} => \E x \in I : \A y \in I : x >= y
    BY <1>2, <2>1
  <2> QED
    BY <2>2, Zenon DEF Max
<1>5. CASE I = {}
  BY <1>1, <1>3, <1>5
<1>6. CASE I # {}
  <2>1. rfind(h, t) \in I /\ \A i \in I : rfind(h, t) >= i
    <3> HIDE DEF I
    <3> QED
      BY <1>3, <1>4, <1>6
  <2> QED
    BY <1>1, <2>1
<1> QED
  BY <1>5, <1>6

\* A host without a colon is what is left when a port after it is stripped.
LEMMA StripPort ==
    ASSUME NEW S, NEW g \in Seq(S), NEW x \in S, x # ":", ":" \in S,
           ~starts_with(g, "["), \A i \in 1..Len(g) : g[i] # ":"
    PROVE  strip_port_from_host(g) = g /\ strip_port_from_host(g \o <<":", x>>) = g
<1>1. Len(g) \in Nat
  BY LenProperties
<1>2. strip_port_from_host(g) = g
  <2>1. ~(rfind(g, ":") > 0)
    BY <1>1, RfindFacts
  <2> QED
    BY <2>1 DEF strip_port_from_host
<1> DEFINE h == g \o <<":", x>>
<1>3. <<":", x>> \in Seq(S) /\ Len(<<":", x>>) = 2
  OBVIOUS
<1>4. /\ h \in Seq(S) /\ Len(h) = Len(g) + 2
      /\ \A i \in 1..(Len(g) + 2) : h[i] = IF i <= Len(g) THEN g[i] ELSE <<":", x>>[i - Len(g)]
  BY <1>3, ConcatProperties
<1>5. h[Len(g) + 1] = ":" /\ h[Len(g) + 2] = x /\ \A i \in 1..Len(g) : h[i] = g[i]
  BY <1>1, <1>4
<1> HIDE DEF h
<1>6. ~starts_with(h, "[")
  <2>1. CASE Len(g) = 0
    BY <1>5, <2>1 DEF starts_with
  <2>2. CASE Len(g) # 0
    BY <1>1, <1>5, <2>2 DEF starts_with
  <2> QED
    BY <2>1, <2>2
<1>7. rfind(h, ":") = Len(g) + 1
  BY <1>1, <1>4, <1>5, RfindFacts
<1>8. SubSeq(h, 1, Len(g)) = g
  <2>1. /\ Len(SubSeq(h, 1, Len(g))) = Len(g)
        /\ \A i \in 1..Len(g) : SubSeq(h, 1, Len(g))[i] = h[i]
        /\ SubSeq(h, 1, Len(g)) \in Seq(S)
    BY <1>1, <1>4, SubSeqProperties
  <2> QED
    BY <1>5, <2>1, SeqEqual, SMTT(30)
<1>9. strip_port_from_host(h) = SubSeq(h, 1, Len(g) + 1 - 1)
  BY <1>1, <1>6, <1>7, SMTT(30) DEF strip_port_from_host
<1> QED
  BY <1>1, <1>2, <1>8, <1>9 DEF h

\* A plain host is looked up in lower case, with a port or without.
LEMMA NormalizePlain ==
    ASSUME NEW g, PlainHost(g), NEW h \in {g, g \o <<":", "443">>, g \o <<":", "8443">>}
    PROVE  normalize_host(h) = to_lowercase(g)
<1>1. g \in Seq(Token) /\ Len(g) \in Nat
  BY LenProperties DEF PlainHost
<1>2. strip_port_from_host(h) = g
  <2>1. {":", "443", "8443"} \subseteq Token
    BY DEF Token
  <2> QED
    BY <1>1, <2>1, StripPort, Zenon DEF PlainHost
<1>3. ~starts_with(to_lowercase(g), "[") /\ ~ends_with(to_lowercase(g), "]")
  <2>1. CASE g = <<>>
    <3>1. to_lowercase(g) \in Seq(Token) /\ Len(to_lowercase(g)) = 0
      BY <1>1, <2>1, LowerFacts, Zenon
    <3>2. to_lowercase(g) = <<>>
      BY <3>1, EmptySeq
    <3> QED
      BY <3>2 DEF starts_with, ends_with
  <2>2. CASE g # <<>>
    BY <1>1, <2>2, LowerFacts DEF PlainHost, starts_with, ends_with
  <2> QED
    BY <2>1, <2>2
<1> QED
  BY <1>2, <1>3 DEF normalize_host

\* The redirect's host is looked up like the host of the request: the port is
\* stripped from either (build_redirect_authority against normalize_host).
LEMMA RedirectKeepsHost ==
    ASSUME NEW h \in RequestHosts, NEW port, port # ":"
    PROVE  normalize_host(build_redirect_authority(h, port)) = normalize_host(h)
<1> DEFINE S == Token \cup {port}
           s == strip_port_from_host(h)
<1>1. /\ h \in Seq(Token)
      /\ IF starts_with(h, "[") THEN Contains(h, "]")
         ELSE \A i, j \in 1..Len(h) : h[i] = ":" /\ h[j] = ":" => i = j
  BY HostsAssumption, TextsAreTokens
<1>2. h \in Seq(S) /\ Len(h) \in Nat /\ \A i \in 1..Len(h) : h[i] \in S
  BY <1>1, SeqDef, LenProperties, ElementOfSeq
<1>3. ":" \in S /\ port \in S
  BY DEF Token
<1> HIDE DEF S, s
<1>4. CASE starts_with(h, "[")
  <2> DEFINE k == find(h, "]")
  <2>1. k \in 1..Len(h) /\ h[k] = "]" /\ \A i \in 1..(k - 1) : h[i] # "]"
    BY <1>1, <1>2, <1>4, FindFacts DEF Contains
  <2> HIDE DEF k
  <2>2. s = SubSeq(h, 1, k)
    BY <1>4, <2>1 DEF strip_port_from_host, k, s
  <2>3. s \in Seq(S) /\ Len(s) = k /\ \A i \in 1..k : s[i] = h[i]
    BY <1>2, <2>1, <2>2, SubSeqProperties
  <2>4. ASSUME NEW q \in Seq(S) PROVE strip_port_from_host(s \o q) = s
    <3> DEFINE a == s \o q
    <3>1. Len(q) \in Nat
      BY LenProperties
    <3>2. a \in Seq(S) /\ Len(a) = k + Len(q) /\ \A i \in 1..k : a[i] = h[i]
      <4>1. /\ a \in Seq(S) /\ Len(a) = Len(s) + Len(q)
            /\ \A i \in 1..(Len(s) + Len(q)) : a[i] = IF i <= Len(s) THEN s[i] ELSE q[i - Len(s)]
        BY <2>3, ConcatProperties, Zenon
      <4> HIDE DEF a
      <4> QED
        BY <2>1, <2>3, <3>1, <4>1
    <3> HIDE DEF a
    <3>3. find(a, "]") = k
      BY <2>1, <3>1, <3>2, FindFacts, SMTT(30)
    <3>4. starts_with(a, "[")
      BY <1>4, <2>1, <3>1, <3>2 DEF starts_with
    <3>5. SubSeq(a, 1, k) \in Seq(S) /\ Len(SubSeq(a, 1, k)) = k
          /\ \A i \in 1..k : SubSeq(a, 1, k)[i] = a[i]
      <4>1. \A i \in 1..k : a[i] \in S
        BY <1>2, <2>1, <3>2
      <4> QED
        BY <2>1, <4>1, SubSeqProperties
    <3>6. SubSeq(a, 1, k) = s
      BY <2>3, <3>2, <3>5, SeqEqual
    <3>7. strip_port_from_host(a) = s
      BY <2>1, <3>3, <3>4, <3>6 DEF strip_port_from_host
    <3> QED
      BY <3>7 DEF a
  <2>5. <<>> \in Seq(S) /\ <<":", port>> \in Seq(S)
    BY <1>3
  <2>6. strip_port_from_host(build_redirect_authority(h, port)) = s
    BY <2>4, <2>5, Zenon DEF build_redirect_authority, s
  <2> QED
    BY <2>6 DEF normalize_host, s
<1>5. CASE ~starts_with(h, "[")
  <2> DEFINE r == rfind(h, ":")
  <2>1. /\ r \in 0..Len(h)
        /\ r = 0 => \A i \in 1..Len(h) : h[i] # ":"
        /\ r # 0 => h[r] = ":"
    BY <1>2, RfindFacts
  <2>2. s = IF r > 0 THEN SubSeq(h, 1, r - 1) ELSE h
    BY <1>5 DEF strip_port_from_host, s
  <2> HIDE DEF r
  <2>3. /\ s \in Seq(S) /\ Len(s) \in Nat /\ Len(s) <= Len(h)
        /\ \A i \in 1..Len(s) : s[i] = h[i] /\ s[i] # ":"
    <3>1. CASE r = 0
      BY <1>2, <2>1, <2>2, <3>1
    <3>2. CASE r # 0
      <4>1. \A i \in 1..(r - 1) : h[i] \in S /\ h[i] # ":"
        BY <1>1, <1>2, <1>5, <2>1, <3>2
      <4>2. s = SubSeq(h, 1, r - 1)
        BY <2>1, <2>2, <3>2
      <4>3. s \in Seq(S) /\ Len(s) = r - 1 /\ \A i \in 1..(r - 1) : s[i] = h[i]
        BY <1>2, <2>1, <3>2, <4>1, <4>2, SubSeqProperties, SMTT(30)
      <4> QED
        BY <1>2, <2>1, <3>2, <4>1, <4>3, SMTT(30)
    <3> QED
      BY <3>1, <3>2
  <2>4. ~starts_with(s, "[")
    <3>1. s # <<>> => 1 \in 1..Len(s) /\ 1 \in 1..Len(h)
      BY <1>2, <2>3, EmptySeq
    <3>2. h # <<>> \/ Len(h) = 0
      BY <1>2, EmptySeq
    <3> QED
      BY <1>5, <2>3, <3>1, <3>2 DEF starts_with
  <2>5. strip_port_from_host(s) = s /\ strip_port_from_host(s \o <<":", port>>) = s
    BY <1>3, <2>3, <2>4, StripPort
  <2>6. s \o <<>> = s
    BY <2>3, ConcatEmptySeq
  <2>7. strip_port_from_host(build_redirect_authority(h, port)) = s
    BY <2>5, <2>6, Zenon DEF build_redirect_authority, s
  <2> QED
    BY <2>7 DEF normalize_host, s
<1> QED
  BY <1>4, <1>5

\* An upstream that validation accepts makes a URI, unless it is an IPv6 address
\* without brackets (is_valid_upstream against build_upstream_uri).
LEMMA UpstreamMakesUri ==
    ASSUME NEW u \in Seq(Token), is_valid_upstream(u)
    PROVE  build_upstream_uri(u) \/ u[1] = ":"
<1> DEFINE c == rfind(u, ":")
           host == SubSeq(u, 1, c - 1)
           port == SubSeq(u, c + 1, Len(u))
<1>1. Len(u) \in Nat /\ \A i \in 1..Len(u) : u[i] \in Token
  BY LenProperties, ElementOfSeq
<1>a. c > 1 /\ Len(port) = 1 /\ port[1] \in PortNumbers
  BY Zenon DEF is_valid_upstream
<1>2. IF starts_with(host, "[") /\ ends_with(host, "]")
      THEN IsIpv6(SubSeq(host, 2, Len(host) - 1))
      ELSE IsIpv4(host) \/ IsIpv6(host) \/ is_valid_hostname(host)
  BY Zenon DEF is_valid_upstream
<1>b. c \in 0..Len(u) /\ (c # 0 => u[c] = ":")
  BY RfindFacts
<1> HIDE DEF c
<1>3. c \in 2..Len(u) /\ u[c] = ":"
  BY <1>1, <1>a, <1>b
<1>c. c - 1 \in Int /\ \A i \in 1..(c - 1) : u[i] \in Token
  BY <1>1, <1>3
<1>d. c + 1 \in Int /\ \A i \in (c + 1)..Len(u) : u[i] \in Token
  BY <1>1, <1>3
<1>4. /\ host \in Seq(Token) /\ Len(host) = c - 1
      /\ \A i \in 1..(c - 1) : host[i] = u[i]
  <2>1. /\ host \in Seq(Token) /\ Len(host) = IF 1 <= c - 1 THEN c - 1 - 1 + 1 ELSE 0
        /\ \A i \in 1..(c - 1 - 1 + 1) : host[i] = u[1 + i - 1]
    BY <1>c, SubSeqProperties
  <2> HIDE DEF host
  <2> QED
    BY <1>3, <2>1
<1>5. /\ port \in Seq(Token)
      /\ Len(port) = IF c + 1 <= Len(u) THEN Len(u) - (c + 1) + 1 ELSE 0
      /\ \A i \in 1..(Len(u) - (c + 1) + 1) : port[i] = u[c + 1 + i - 1]
  BY <1>1, <1>d, SubSeqProperties, SMTT(30)
<1> HIDE DEF host, port
<1>6. Len(u) = c + 1 /\ u[c + 1] = port[1]
  <2>1. Len(u) = c + 1
    <3>1. PICK n : n = Len(port)
      OBVIOUS
    <3>2. n = 1 /\ n = IF c + 1 <= Len(u) THEN Len(u) - (c + 1) + 1 ELSE 0
      BY <1>a, <1>5, <3>1, Zenon
    <3> QED
      BY <1>1, <1>3, <3>2
  <2> QED
    BY <1>3, <1>5, <2>1
<1>7. u[c + 1] # ":" /\ u[c + 1] # "]"
  BY <1>a, <1>6 DEF PortNumbers, Octets
<1>8. ASSUME NEW k \in 0..c, find(u, "]") = k,
             \A i \in (k + 1)..Len(u) : u[i] = ":" => i = c
      PROVE  build_upstream_uri(u)
  <2> DEFINE rest == SubSeq(u, k + 1, Len(u))
  <2>1. /\ Len(rest) = Len(u) - k
        /\ \A i \in 1..(Len(u) - (k + 1) + 1) : rest[i] = u[k + 1 + i - 1]
    <3>1. \A i \in (k + 1)..Len(u) : u[i] \in Token
      BY <1>1
    <3>2. /\ Len(rest) = IF k + 1 <= Len(u) THEN Len(u) - (k + 1) + 1 ELSE 0
          /\ \A i \in 1..(Len(u) - (k + 1) + 1) : rest[i] = u[k + 1 + i - 1]
      BY <1>1, <3>1, SubSeqProperties
    <3> HIDE DEF rest
    <3> QED
      BY <1>1, <1>3, <1>6, <3>2
  <2> HIDE DEF rest
  <2>2. \A i \in 1..Len(rest) : rest[i] = ":" => i = c - k
    <3>1. \A i \in 1..Len(rest) : i \in 1..(Len(u) - (k + 1) + 1) /\ k + 1 + i - 1 = k + i
                                  /\ k + i \in (k + 1)..Len(u)
      BY <1>1, <2>1
    <3>2. \A i \in 1..Len(rest) : rest[i] = ":" => k + i = c
      BY <1>8, <2>1, <3>1, SMTT(30)
    <3> QED
      BY <1>3, <3>2
  <2> QED
    BY <1>8, <2>2, ZenonT(60) DEF build_upstream_uri, rest
<1>9. ASSUME \A i \in 1..(c - 1) : u[i] # ":" /\ u[i] # "]"
      PROVE  build_upstream_uri(u)
  <2>1. \A i \in 1..Len(u) : u[i] # "]" /\ (u[i] = ":" => i = c)
    BY <1>3, <1>6, <1>7, <1>9, SMTT(30)
  <2>2. find(u, "]") = 0
    BY <1>1, <2>1, FindFacts
  <2> QED
    BY <1>3, <1>8, <2>1, <2>2, SMTT(30)
<1>10. CASE starts_with(host, "[") /\ ends_with(host, "]")
  <2> DEFINE inner == SubSeq(host, 2, Len(host) - 1)
  <2>1. /\ inner \in Seq(Token) /\ Len(inner) = IF 2 <= c - 2 THEN c - 3 ELSE 0
        /\ \A i \in 1..(c - 3) : inner[i] = host[i + 1]
    <3>1. \A i \in 2..(c - 2) : host[i] \in Token
      BY <1>1, <1>3, <1>4, SMTT(30)
    <3>2. /\ inner \in Seq(Token) /\ Len(inner) = IF 2 <= c - 2 THEN c - 2 - 2 + 1 ELSE 0
          /\ \A i \in 1..(c - 2 - 2 + 1) : inner[i] = host[2 + i - 1]
      BY <1>3, <1>4, <3>1, SubSeqProperties, SMTT(30)
    <3> HIDE DEF inner
    <3> QED
      BY <1>3, <3>2
  <2>2. Len(inner) = 3 /\ inner[1] = ":" /\ inner[2] = ":" /\ inner[3] \in Octets
    BY <1>2, <1>10, Zenon DEF IsIpv6
  <2> HIDE DEF inner
  <2>3. c = 6
    <3>1. PICK n : n = Len(inner)
      OBVIOUS
    <3>2. n = 3 /\ n = IF 2 <= c - 2 THEN c - 3 ELSE 0
      BY <2>1, <2>2, <3>1, Zenon
    <3> QED
      BY <1>3, <3>2
  <2>4. host[1] = "[" /\ host[2] = ":" /\ host[3] = ":" /\ host[4] \in Octets /\ host[5] = "]"
    BY <1>4, <1>10, <2>1, <2>2, <2>3, SMTT(30) DEF starts_with, ends_with
  <2>5. u[5] = "]" /\ \A i \in 1..4 : u[i] # "]"
    BY <1>4, <2>3, <2>4, SMTT(30) DEF Octets
  <2>6. find(u, "]") = 5
    BY <1>1, <1>6, <2>3, <2>5, FindFacts, SMTT(30)
  <2>7. \A i \in 6..Len(u) : u[i] = ":" => i = c
    BY <1>6, <1>7, <2>3
  <2> QED
    BY <1>8, <2>3, <2>6, <2>7, SMTT(30)
<1>11. CASE IsIpv4(host)
  <2>1. \A i \in 1..(c - 1) : host[i] \in Octets \cup {"."}
    BY <1>3, <1>4, <1>11, Zenon DEF IsIpv4
  <2>2. \A i \in 1..(c - 1) : u[i] # ":" /\ u[i] # "]"
    BY <1>4, <2>1 DEF Octets
  <2> QED
    BY <1>9, <2>2
<1>12. CASE IsIpv6(host)
  BY <1>2, <1>3, <1>4, <1>12, SMTT(30) DEF IsIpv6
<1>13. CASE is_valid_hostname(host)
  BY <1>4, <1>9, <1>13, ValidIsPlain DEF PlainHost
<1> QED
  BY <1>2, <1>10, <1>11, <1>12, <1>13, SMTT(30)

\* Valid sites, no two with the same host: each is found however its host is
\* written (build_routing_table against lookup).
LEMMA SiteIsFound ==
    ASSUME NEW sites, Len(sites) \in Nat, NEW i \in 1..Len(sites),
           PlainHost(sites[i].host), sites[i].host # <<>>,
           \A j \in 1..Len(sites) : to_lowercase(sites[j].host) = to_lowercase(sites[i].host) => j = i,
           NEW h \in Spellings(sites[i].host)
    PROVE  lookup(build_routing_table(sites), h) = sites[i]
<1> DEFINE key == to_lowercase(sites[i].host)
           same == {j \in 1..Len(sites) : to_lowercase(sites[j].host) = key}
<1>1. PICK g \in {sites[i].host, to_lowercase(sites[i].host), UpperCase(sites[i].host)} :
          h \in {g, g \o <<":", "443">>, g \o <<":", "8443">>}
  BY Zenon DEF Spellings
<1>2. PlainHost(g) /\ to_lowercase(g) = key
  BY SpellingsAgree
<1>3. normalize_host(h) = key
  BY <1>1, <1>2, NormalizePlain, Zenon
<1>4. same = {i}
  OBVIOUS
<1>5. Max(same) = i
  BY <1>4, OnlyElement
<1>6. key \in {to_lowercase(sites[j].host) : j \in 1..Len(sites)}
  BY Zenon
<1> HIDE DEF key
<1>7. build_routing_table(sites)[key] = sites[i] /\ key \in DOMAIN build_routing_table(sites)
  BY <1>5, <1>6, SMTT(30) DEF build_routing_table
<1> QED
  BY <1>3, <1>7, Zenon DEF lookup
-----------------------------------------------------------------------------
(* Configurations.                                                         *)

\* What the properties use of a listener that was parsed.
LEMMA ListenerFacts ==
    ASSUME NEW l,
           "https_port" \in DOMAIN l => l.https_port # ":",
           "sites" \in DOMAIN l => Len(l.sites) \in Nat,
           "sites" \in DOMAIN l => \A j \in 1..Len(l.sites) :
               /\ "host" \in DOMAIN l.sites[j] /\ l.sites[j].host \in Seq(STRING)
               /\ "upstream" \in DOMAIN l.sites[j] /\ l.sites[j].upstream \in Seq(STRING)
    PROVE  LET L == ListenerConfig(l)
           IN  /\ L.https_port # ":"
               /\ Len(L.sites) \in Nat
               /\ L.sites = [j \in 1..Len(L.sites) |-> L.sites[j]]
               /\ \A j \in 1..Len(L.sites) :
                     L.sites[j].host \in Seq(Token) /\ L.sites[j].upstream \in Seq(Token)
<1> DEFINE full == WithDefaults(l, ListenerDefaults)
           raw == full.sites
           L == ListenerConfig(l)
<1>1. /\ {"http_port", "https_port", "sites"} \subseteq DOMAIN full
      /\ full.https_port = IF "https_port" \in DOMAIN l THEN l.https_port ELSE "443"
      /\ raw = IF "sites" \in DOMAIN l THEN l.sites ELSE <<>>
  BY DEF WithDefaults, ListenerDefaults
<1>2. DOMAIN full = DOMAIN l \cup DOMAIN ListenerDefaults /\ full = [x \in DOMAIN full |-> full[x]]
  BY DEF WithDefaults
<1> HIDE DEF full
<1>3. /\ L.https_port = full.https_port
      /\ L.sites = [j \in 1..Len(raw) |-> SiteConfig(raw[j])]
  BY <1>1, <1>2, SMTT(30) DEF ListenerConfig, full
<1>4. Len(raw) \in Nat
  BY <1>1, SMTT(30)
<1>5. ASSUME NEW j \in 1..Len(raw)
      PROVE  SiteConfig(raw[j]).host \in Seq(Token) /\ SiteConfig(raw[j]).upstream \in Seq(Token)
  <2>1. /\ "host" \in DOMAIN raw[j] /\ raw[j].host \in Seq(STRING)
        /\ "upstream" \in DOMAIN raw[j] /\ raw[j].upstream \in Seq(STRING)
    BY <1>1, SMTT(30)
  <2>2. SiteConfig(raw[j]).host = raw[j].host /\ SiteConfig(raw[j]).upstream = raw[j].upstream
    BY <2>1 DEF SiteConfig, WithDefaults
  <2> QED
    BY <2>1, <2>2, TextsAreTokens, SMTT(30)
<1> HIDE DEF raw, L
<1>6. Len(L.sites) = Len(raw) /\ L.sites = [j \in 1..Len(raw) |-> L.sites[j]]
  <2> DEFINE S == {SiteConfig(raw[j]) : j \in 1..Len(raw)}
  <2>1. L.sites = [j \in 1..Len(raw) |-> L.sites[j]] /\ \A j \in 1..Len(raw) : L.sites[j] \in S
    BY <1>3
  <2> HIDE DEF S
  <2> QED
    BY <1>4, <2>1, MapIsSeq, SMTT(30)
<1>7. L.https_port # ":"
  BY <1>1, <1>3
<1>8. \A j \in 1..Len(raw) : L.sites[j].host \in Seq(Token) /\ L.sites[j].upstream \in Seq(Token)
  BY <1>3, <1>5, ZenonT(60)
<1> QED
  BY <1>4, <1>6, <1>7, <1>8, SMTT(30) DEF L

\* ... and of a whole configuration.
LEMMA ConfigFacts ==
    ASSUME NEW f, WellTyped(f), Parses(f)
    PROVE  LET L == FullConfig(f).listeners
           IN  /\ Len(L) \in Nat /\ L = [i \in 1..Len(L) |-> L[i]]
               /\ \A i \in 1..Len(L) :
                    /\ L[i].https_port # ":"
                    /\ Len(L[i].sites) \in Nat
                    /\ L[i].sites = [j \in 1..Len(L[i].sites) |-> L[i].sites[j]]
                    /\ \A j \in 1..Len(L[i].sites) :
                          L[i].sites[j].host \in Seq(Token) /\ L[i].sites[j].upstream \in Seq(Token)
<1> DEFINE full == WithDefaults(f, StaticDefaults)
           raw == full.listeners
           L == FullConfig(f).listeners
<1>1. /\ {"listeners", "logging"} \subseteq DOMAIN full
      /\ raw = IF "listeners" \in DOMAIN f THEN f.listeners ELSE <<>>
  BY DEF WithDefaults, StaticDefaults
<1>2. full = [x \in DOMAIN full |-> full[x]]
  BY DEF WithDefaults
<1> HIDE DEF full
<1>3. L = [i \in 1..Len(raw) |-> ListenerConfig(raw[i])]
  BY <1>1, <1>2, SMTT(30) DEF FullConfig, full
<1>4. Len(raw) \in Nat
  BY <1>1 DEF WellTyped
<1>5. ASSUME NEW i \in 1..Len(raw)
      PROVE  /\ "https_port" \in DOMAIN raw[i] => raw[i].https_port # ":"
             /\ "sites" \in DOMAIN raw[i] => Len(raw[i].sites) \in Nat
             /\ "sites" \in DOMAIN raw[i] => \A j \in 1..Len(raw[i].sites) :
                  /\ "host" \in DOMAIN raw[i].sites[j] /\ raw[i].sites[j].host \in Seq(STRING)
                  /\ "upstream" \in DOMAIN raw[i].sites[j] /\ raw[i].sites[j].upstream \in Seq(STRING)
  <2>1. "listeners" \in DOMAIN f /\ raw = f.listeners
    BY <1>1
  <2> HIDE DEF raw
  <2> QED
    BY <2>1, Zenon DEF WellTyped, Parses
<1> HIDE DEF raw, L
<1>6. Len(L) = Len(raw) /\ L = [i \in 1..Len(raw) |-> L[i]]
  <2> DEFINE S == {ListenerConfig(raw[i]) : i \in 1..Len(raw)}
  <2>1. L = [i \in 1..Len(raw) |-> L[i]] /\ \A i \in 1..Len(raw) : L[i] \in S
    BY <1>3
  <2> HIDE DEF S
  <2> QED
    BY <1>4, <2>1, MapIsSeq
<1>7. \A i \in 1..Len(raw) : L[i] = ListenerConfig(raw[i])
  BY <1>3
<1>8. ASSUME NEW i \in 1..Len(raw)
      PROVE  /\ L[i].https_port # ":"
             /\ Len(L[i].sites) \in Nat
             /\ L[i].sites = [j \in 1..Len(L[i].sites) |-> L[i].sites[j]]
             /\ \A j \in 1..Len(L[i].sites) :
                   L[i].sites[j].host \in Seq(Token) /\ L[i].sites[j].upstream \in Seq(Token)
  BY <1>5, <1>7, ListenerFacts, ZenonT(60)
<1> QED
  BY <1>4, <1>6, <1>8, SMTT(30) DEF L

\* The routing table is built from finitely many sites with texts.
LEMMA SitesFacts ==
    ASSUME NEW f, WellTyped(f), Parses(f)
    PROVE  LET sites == AllSites(FullConfig(f))
           IN  /\ Len(sites) \in Nat
               /\ \A i \in 1..Len(sites) :
                     sites[i].host \in Seq(Token) /\ sites[i].upstream \in Seq(Token)
<1> DEFINE L == FullConfig(f).listeners
           S == UNION {{L[i].sites[j] : j \in 1..Len(L[i].sites)} : i \in 1..Len(L)}
<1>1. /\ Len(L) \in Nat
      /\ \A i \in 1..Len(L) :
            /\ Len(L[i].sites) \in Nat
            /\ L[i].sites = [j \in 1..Len(L[i].sites) |-> L[i].sites[j]]
            /\ \A j \in 1..Len(L[i].sites) :
                  L[i].sites[j].host \in Seq(Token) /\ L[i].sites[j].upstream \in Seq(Token)
  BY ConfigFacts, Zenon
<1> HIDE DEF L
<1>2. \A i \in 1..Len(L) : \A j \in 1..Len(L[i].sites) : L[i].sites[j] \in S
  OBVIOUS
<1>3. ASSUME NEW s \in S PROVE s.host \in Seq(Token) /\ s.upstream \in Seq(Token)
  <2>1. PICK i \in 1..Len(L) : s \in {L[i].sites[j] : j \in 1..Len(L[i].sites)}
    BY Zenon
  <2>2. PICK j \in 1..Len(L[i].sites) : s = L[i].sites[j]
    BY <2>1, Zenon
  <2> QED
    BY <1>1, <2>2, Zenon
<1> HIDE DEF S
<1>4. \A i \in 1..Len(L) : L[i].sites \in Seq(S)
  BY <1>1, <1>2, MapIsSeq, ZenonT(60)
<1>5. AllSites(FullConfig(f)) \in Seq(S)
  BY <1>1, <1>4, JoinType DEF L
<1> QED
  BY <1>3, <1>5, LenProperties, ElementOfSeq

LEMMA RuleKept ==
    ASSUME NEW broken, NEW e \in ValidationError, Rule(broken, e) = {}
    PROVE  ~broken
BY SMTT(30) DEF Rule

\* What validation without an error says of the listeners (validate).
LEMMA ValidListeners ==
    ASSUME NEW c, NEW wildcard, NEW exists, validate(c, wildcard, exists) = {}
    PROVE  LET L == c.listeners
           IN  /\ L # <<>>
               /\ \A i \in 1..Len(L) :
                    /\ \A j \in 1..(i - 1) : L[j].bind_addr = L[i].bind_addr =>
                          /\ L[j].https_port # L[i].https_port
                          /\ L[i].http_port # "0" => L[j].http_port # L[i].http_port
                    /\ L[i].http_port # "0" => L[i].http_port # L[i].https_port
                    /\ L[i].tls.mode = "acme" => L[i].tls.acme_domains # <<>>
                    /\ c.health_check_port # "0" =>
                          c.health_check_port # L[i].https_port /\ c.health_check_port # L[i].http_port
<1> DEFINE L == c.listeners
           allow == c.allow_wildcard_bind \/ wildcard
<1>1. /\ Rule(L = <<>>, "NoListeners") = {} /\ health_errors(c) = {}
      /\ \A i \in 1..Len(L) : listener_errors(L, i, allow) = {} /\ tls_errors(L[i].tls, exists) = {}
  <2> DEFINE E(i) == listener_errors(L, i, allow) \cup tls_errors(L[i].tls, exists)
             U == {E(i) : i \in 1..Len(L)}
  <2>1. Rule(L = <<>>, "NoListeners") = {} /\ health_errors(c) = {} /\ UNION U = {}
    <3>1. /\ Rule(L = <<>>, "NoListeners") \subseteq validate(c, wildcard, exists)
          /\ health_errors(c) \subseteq validate(c, wildcard, exists)
          /\ UNION U \subseteq validate(c, wildcard, exists)
      BY Zenon DEF validate
    <3> QED
      BY <3>1, Zenon
  <2>2. \A i \in 1..Len(L) : E(i) \in U
    BY Zenon
  <2> HIDE DEF U
  <2>3. \A i \in 1..Len(L) : E(i) = {}
    BY <2>1, <2>2, Zenon
  <2> QED
    BY <2>1, <2>3, Zenon
<1>2. L # <<>>
  BY <1>1, RuleKept, Zenon DEF ValidationError
<1>3. ASSUME NEW i \in 1..Len(L)
      PROVE  /\ \A j \in 1..(i - 1) : L[j].bind_addr = L[i].bind_addr =>
                   /\ L[j].https_port # L[i].https_port
                   /\ L[i].http_port # "0" => L[j].http_port # L[i].http_port
             /\ L[i].http_port # "0" => L[i].http_port # L[i].https_port
  <2> HIDE DEF L, allow
  <2>1. {"DuplicateHttpsBind", "DuplicateHttpBind", "HttpsAndHttpPortSame"} \subseteq ValidationError
    BY DEF ValidationError
  <2> QED
    BY <1>1, <2>1 DEF listener_errors, Rule
<1>4. ASSUME NEW i \in 1..Len(L), L[i].tls.mode = "acme"
      PROVE  L[i].tls.acme_domains # <<>>
  <2>1. Rule(L[i].tls.acme_domains = <<>>, "AcmeDomainsEmpty") = {}
    BY <1>1, <1>4, Zenon DEF tls_errors
  <2> QED
    BY <2>1, RuleKept, Zenon DEF ValidationError
<1>5. ASSUME NEW i \in 1..Len(L), c.health_check_port # "0"
      PROVE  c.health_check_port # L[i].https_port /\ c.health_check_port # L[i].http_port
  BY <1>1, <1>5, RuleKept, Zenon DEF health_errors, ValidationError
<1> QED
  BY <1>2, <1>3, <1>4, <1>5

\* ... and of the sites.
LEMMA ValidSites ==
    ASSUME NEW c, NEW wildcard, NEW exists, validate(c, wildcard, exists) = {},
           Len(AllSites(c)) \in Nat
    PROVE  LET sites == AllSites(c)
           IN  /\ \A i \in 1..Len(sites) :
                    is_valid_hostname(sites[i].host) /\ is_valid_upstream(sites[i].upstream)
               /\ \A i, j \in 1..Len(sites) :
                    to_lowercase(sites[i].host) = to_lowercase(sites[j].host) => i = j
<1> DEFINE sites == AllSites(c)
<1>1. ASSUME NEW i \in 1..Len(sites) PROVE site_errors(sites, i) = {}
  <2> DEFINE U == {site_errors(sites, k) : k \in 1..Len(sites)}
  <2>1. UNION U \subseteq validate(c, wildcard, exists)
    BY Zenon DEF validate
  <2>2. site_errors(sites, i) \in U
    BY Zenon
  <2> HIDE DEF U
  <2> QED
    BY <2>1, <2>2, Zenon
<1> HIDE DEF sites
<1>2. ASSUME NEW i \in 1..Len(sites)
      PROVE  /\ is_valid_hostname(sites[i].host) /\ is_valid_upstream(sites[i].upstream)
             /\ \A j \in 1..(i - 1) : to_lowercase(sites[j].host) # to_lowercase(sites[i].host)
  <2>1. {"SiteUpstreamEmpty", "DuplicateSiteHost", "SiteHostInvalid", "UpstreamInvalid"}
            \subseteq ValidationError
    BY DEF ValidationError
  <2> QED
    BY <1>1, <2>1 DEF site_errors, Rule
<1>3. ASSUME NEW i \in 1..Len(sites), NEW j \in 1..Len(sites),
             to_lowercase(sites[i].host) = to_lowercase(sites[j].host)
      PROVE  i = j
  <2>1. CASE i < j
    BY <1>2, <1>3, <2>1, SMTT(30)
  <2>2. CASE j < i
    BY <1>2, <1>3, <2>2, SMTT(30)
  <2> QED
    BY <2>1, <2>2
<1> QED
  BY <1>2, <1>3 DEF sites

\* So what was accepted is served (the consequent of ServesWhatItAccepts).
LEMMA AcceptedIsServed ==
    ASSUME NEW f, WellTyped(f), Parses(f),
           NEW wildcard, NEW exists, validate(FullConfig(f), wildcard, exists) = {},
           NEW i \in 1..Len(AllSites(FullConfig(f)))
    PROVE  LET sites == AllSites(FullConfig(f))
           IN  /\ \A h \in Spellings(sites[i].host) : lookup(build_routing_table(sites), h) = sites[i]
               /\ build_upstream_uri(sites[i].upstream) \/ sites[i].upstream[1] = ":"
<1> DEFINE sites == AllSites(FullConfig(f))
<1>1. /\ Len(sites) \in Nat
      /\ \A k \in 1..Len(sites) : sites[k].host \in Seq(Token) /\ sites[k].upstream \in Seq(Token)
  BY SitesFacts
<1>2. /\ \A k \in 1..Len(sites) :
            is_valid_hostname(sites[k].host) /\ is_valid_upstream(sites[k].upstream)
      /\ \A k, j \in 1..Len(sites) :
            to_lowercase(sites[k].host) = to_lowercase(sites[j].host) => k = j
  BY <1>1, ValidSites, Zenon
<1> HIDE DEF sites
<1>3. i \in 1..Len(sites)
  BY DEF sites
<1>4. PlainHost(sites[i].host) /\ sites[i].host # <<>>
  BY <1>1, <1>2, <1>3, ValidIsPlain
<1>5. \A h \in Spellings(sites[i].host) : lookup(build_routing_table(sites), h) = sites[i]
  BY <1>1, <1>2, <1>3, <1>4, SiteIsFound, Zenon
<1>6. build_upstream_uri(sites[i].upstream) \/ sites[i].upstream[1] = ":"
  BY <1>1, <1>2, <1>3, UpstreamMakesUri, ZenonT(60)
<1> QED
  BY <1>5, <1>6 DEF sites

-----------------------------------------------------------------------------
(* The start.                                                              *)

\* What the steps use of a configuration that was loaded.
LEMMA LoadedFacts ==
    ASSUME env \in Scenarios, Loaded
    PROVE  LET L == conf.listeners
           IN  /\ Len(L) \in Nat \ {0} /\ conf # NoConfig
               /\ \A i \in 1..Len(L) :
                    /\ L[i].https_port # ":"
                    /\ \A j \in 1..(i - 1) : L[j].bind_addr = L[i].bind_addr =>
                          /\ L[j].https_port # L[i].https_port
                          /\ L[i].http_port # "0" => L[j].http_port # L[i].http_port
                    /\ L[i].http_port # "0" => L[i].http_port # L[i].https_port
                    /\ L[i].tls.mode = "acme" => L[i].tls.acme_domains # <<>>
                    /\ conf.health_check_port # "0" =>
                          /\ conf.health_check_port # L[i].https_port
                          /\ conf.health_check_port # L[i].http_port
<1> DEFINE L == conf.listeners
<1>1. WellTyped(env.file) /\ Parses(env.file) /\ conf = FullConfig(env.file)
  BY ScenariosAssumption, Zenon DEF Loaded
<1>2. /\ Len(L) \in Nat /\ L = [i \in 1..Len(L) |-> L[i]]
      /\ \A i \in 1..Len(L) : L[i].https_port # ":"
  BY <1>1, ConfigFacts, ZenonT(60)
<1>3. /\ L # <<>>
      /\ \A i \in 1..Len(L) :
           /\ \A j \in 1..(i - 1) : L[j].bind_addr = L[i].bind_addr =>
                 /\ L[j].https_port # L[i].https_port
                 /\ L[i].http_port # "0" => L[j].http_port # L[i].http_port
           /\ L[i].http_port # "0" => L[i].http_port # L[i].https_port
           /\ L[i].tls.mode = "acme" => L[i].tls.acme_domains # <<>>
           /\ conf.health_check_port # "0" =>
                 conf.health_check_port # L[i].https_port /\ conf.health_check_port # L[i].http_port
  BY ValidListeners, SMTT(30) DEF Loaded
<1>4. Len(L) # 0 /\ conf # NoConfig
  <2> HIDE DEF L
  <2>1. Len(L) # 0
    <3>1. SUFFICES ASSUME Len(L) = 0 PROVE L = <<>>
      BY <1>3
    <3> QED
      BY <1>2, <3>1, SMTT(30)
  <2>2. L # NoConfig.listeners
    BY <1>3 DEF NoConfig
  <2> QED
    BY <2>1, <2>2 DEF L
<1> QED
  BY <1>2, <1>3, <1>4

LEMMA InitIInv == Init => IInv
<1> SUFFICES ASSUME Init PROVE IInv
  OBVIOUS
<1> USE DEF Init
<1>1. Listeners = {} /\ Len(conf.listeners) = 0
  BY DEF Listeners, NoConfig
<1>2. TypeOK
  <2>1. DOMAIN acme = {} /\ DOMAIN cert = {}
    OBVIOUS
  <2> QED
    BY <1>1, <2>1, Zenon DEF TypeOK
<1>3. ConfInv /\ SocketInv /\ PhaseInv /\ WebInv
  BY DEF ConfInv, SocketInv, PhaseInv, WebInv, Running, RedirectReachesSite
<1>4. AcceptorInv
  BY DEF AcceptorInv, Running
<1>5. ExitCodes /\ AcceptedStarts
  BY DEF ExitCodes, AcceptedStarts
<1> QED
  BY <1>2, <1>3, <1>4, <1>5, Zenon DEF IInv

LEMMA SocketIs ==
    ASSUME NEW l, NEW s \in ListenerSockets(l)
    PROVE  /\ s.addr = l.bind_addr
           /\ \/ s = HttpsSocket(l) /\ s.port = l.https_port
              \/ s = RedirectSocket(l) /\ s.port = l.http_port /\ l.http_port # "0"
<1>1. s = HttpsSocket(l) \/ (s = RedirectSocket(l) /\ l.http_port # "0")
  BY Zenon DEF ListenerSockets
<1>2. CASE s = HttpsSocket(l)
  BY <1>2 DEF HttpsSocket, Socket
<1>3. CASE s = RedirectSocket(l) /\ l.http_port # "0"
  BY <1>3 DEF RedirectSocket, Socket
<1> QED
  BY <1>1, <1>2, <1>3

\* A port that cannot be bound: it is in use by another process, or by a listener
\* that validation cannot tell from this one.
LEMMA BindFails ==
    ASSUME env \in Scenarios, Loaded, NEW n \in Listeners,
           NEW s \in ListenerSockets(conf.listeners[n]), NEW t, Overlap(s, t),
           \/ t \in env.held
           \/ t \in HealthSockets(conf)
           \/ \E j \in 1..(n - 1) : t \in ListenerSockets(conf.listeners[j])
           \/ t \in RedirectSockets(conf.listeners[n]) /\ s = HttpsSocket(conf.listeners[n])
    PROVE  CannotStart(conf) \/ EnvironmentFails(conf)
<1> DEFINE L == conf.listeners
<1>1. n \in 1..Len(L) /\ Len(L) \in Nat
  BY LoadedFacts DEF Listeners
<1>2. /\ s.addr = L[n].bind_addr
      /\ \/ s = HttpsSocket(L[n]) /\ s.port = L[n].https_port
         \/ s = RedirectSocket(L[n]) /\ s.port = L[n].http_port /\ L[n].http_port # "0"
  BY SocketIs, Zenon
<1>3. s.port = t.port
  BY Zenon DEF Overlap
<1>4. CASE t \in env.held
  <2>1. s \in WantedSockets(conf)
    BY <1>1, Zenon DEF WantedSockets
  <2> QED
    BY <1>4, <2>1, Zenon DEF EnvironmentFails
<1>5. CASE t \in HealthSockets(conf)
  <2>1. conf.health_check_port # "0" /\ t.port = conf.health_check_port
    BY <1>5 DEF HealthSockets, HealthSocket, Socket
  <2>2. s.port # conf.health_check_port
    BY <1>1, <1>2, <2>1, LoadedFacts, Zenon
  <2> QED
    BY <1>3, <2>1, <2>2, Zenon
<1>6. ASSUME NEW j \in 1..(n - 1), t \in ListenerSockets(L[j]) PROVE CannotStart(conf)
  <2>1. j \in 1..Len(L) /\ j # n
    BY <1>1
  <2>2. /\ t.addr = L[j].bind_addr
        /\ \/ t = HttpsSocket(L[j]) /\ t.port = L[j].https_port
           \/ t = RedirectSocket(L[j]) /\ t.port = L[j].http_port /\ L[j].http_port # "0"
    BY <1>6, SocketIs, Zenon
  <2>3. CASE L[n].bind_addr # L[j].bind_addr
    BY <1>1, <1>6, <2>1, <2>3, Zenon DEF CannotStart
  <2>4. CASE L[n].bind_addr = L[j].bind_addr
    <3>1. /\ L[j].https_port # L[n].https_port
          /\ L[n].http_port # "0" => L[j].http_port # L[n].http_port
      BY <1>1, <2>4, LoadedFacts, Zenon
    <3>2. \/ HttpsSocket(L[n]) = RedirectSocket(L[j])
          \/ HttpsSocket(L[j]) = RedirectSocket(L[n])
      BY <1>2, <1>3, <2>2, <2>4, <3>1, Zenon DEF HttpsSocket, RedirectSocket, Socket
    <3> QED
      BY <1>1, <2>1, <3>2, Zenon DEF CannotStart
  <2> QED
    BY <2>3, <2>4, SMTT(30)
<1>7. CASE t \in RedirectSockets(L[n]) /\ s = HttpsSocket(L[n])
  <2>1. L[n].http_port # "0" /\ L[n].http_port = L[n].https_port
    BY <1>3, <1>7 DEF RedirectSockets, RedirectSocket, HttpsSocket, Socket
  <2> QED
    BY <1>1, <2>1, LoadedFacts, ZenonT(60)
<1> QED
  BY <1>4, <1>5, <1>6, <1>7, ZenonT(60)

\* The end of the process keeps what the other actions rely on.
LEMMA ExitStep ==
    ASSUME IInv, pc # "exited", NEW code \in {"killed", "success", "failure"}, Exit(code),
           UNCHANGED <<env, files, version, seen, web>>, term' \in {"none", "sent", "handled"},
           code = "failure" => ~notified,
           code = "success" => env.validate \/ (notified /\ version = 1),
           code = "failure" /\ conf # NoConfig => CannotStart(conf) \/ EnvironmentFails(conf)
    PROVE  IInv'
<1> USE DEF IInv
<1>1. /\ pc' = "exited" /\ exit' = code /\ serving' = FALSE
      /\ conf' = conf /\ table' = table /\ next' = next /\ acceptors' = acceptors
      /\ notified' = notified /\ registered' = registered /\ cert' = cert
      /\ env' = env /\ files' = files /\ version' = version /\ seen' = seen /\ web' = web
      /\ acme' = [i \in DOMAIN acme |-> "ended"]
  BY Zenon DEF Exit
<1>2. TypeOK'
  BY <1>1, Zenon DEF TypeOK, Listeners
<1>3. ConfInv'
  BY <1>1, SMTT(30) DEF ConfInv, Loaded
<1>4. SocketInv' /\ PhaseInv'
  BY <1>1, SMTT(30) DEF SocketInv, PhaseInv, Running
<1>5. AcceptorInv'
  BY <1>1, SMTT(30) DEF AcceptorInv, Running
<1>6. WebInv'
  BY <1>1 DEF WebInv, RedirectReachesSite
<1>7. ExitCodes'
  BY <1>1 DEF ExitCodes
<1>8. AcceptedStarts'
  <2>1. CannotStart(conf) <=> CannotStart(conf)'
    BY <1>1, ZenonT(60) DEF CannotStart
  <2>2. EnvironmentFails(conf) <=> EnvironmentFails(conf)'
    BY <1>1, Zenon DEF EnvironmentFails, Loads
  <2> QED
    BY <1>1, <2>1, <2>2, SMTT(30) DEF AcceptedStarts
<1> QED
  BY <1>2, <1>3, <1>4, <1>5, <1>6, <1>7, <1>8, ZenonT(60)

\* A step of main between loading and the end.
LEMMA GotoStep ==
    ASSUME IInv, pc \notin {"load", "exited"}, pc' \notin {"load", "exited"},
           UNCHANGED <<env, files, exit, conf, table, version, web>>,
           TypeOK', SocketInv', AcceptorInv', PhaseInv'
    PROVE  IInv'
<1>1. exit = "none"
  BY ZenonT(60) DEF IInv, TypeOK
<1>2. ConfInv' /\ WebInv'
  BY DEF IInv, ConfInv, Loaded, WebInv, RedirectReachesSite
<1>3. ExitCodes' /\ AcceptedStarts'
  BY <1>1 DEF ExitCodes, AcceptedStarts
<1> QED
  BY <1>2, <1>3, Zenon DEF IInv

\* A step of another task or of the environment.
LEMMA OtherStep ==
    ASSUME IInv, UNCHANGED <<env, exitVars, mainVars, seen>>, version' \in {version, 1},
           files' = files \/ pc # "exited",
           pc = "load" => UNCHANGED web, TypeOK', WebInv'
    PROVE  IInv'
<1> USE DEF IInv
<1>1. /\ env' = env /\ pc' = pc /\ exit' = exit /\ conf' = conf /\ table' = table /\ next' = next
      /\ sockets' = sockets /\ acceptors' = acceptors /\ serving' = serving
      /\ notified' = notified /\ registered' = registered /\ seen' = seen
  BY DEF exitVars, mainVars
<1>2. ConfInv'
  BY <1>1, Zenon DEF ConfInv, Loaded
<1>3. SocketInv'
  BY <1>1, SMTT(30) DEF SocketInv, Running, Listeners, Listener, BoundUpTo
<1>4. AcceptorInv' /\ PhaseInv'
  BY <1>1 DEF AcceptorInv, PhaseInv, Running
<1>5. ExitCodes'
  BY <1>1, Zenon DEF ExitCodes
<1>6. AcceptedStarts'
  <2>1. exit = "failure" => files' = files
    BY Zenon DEF TypeOK
  <2> QED
    BY <1>1, <2>1, ZenonT(60) DEF AcceptedStarts, CannotStart, EnvironmentFails, Loads
<1> QED
  BY <1>2, <1>3, <1>4, <1>5, <1>6, Zenon

\* main, up to the first bind.
LEMMA LoadStep == IInv /\ LoadConfig => IInv'
<1> SUFFICES ASSUME IInv, LoadConfig PROVE IInv'
  BY Zenon
<1>1. /\ pc = "load" /\ conf = NoConfig /\ web.at = "idle" /\ env \in Scenarios
      /\ ~notified /\ ~serving /\ exit = "none" /\ acceptors = <<>> /\ DOMAIN files = DOMAIN env.files
      /\ next = 1 /\ sockets = {} /\ seen = 0
      /\ UNCHANGED <<env, files, term, version, seen, web>>
  BY Zenon DEF IInv, LoadConfig, ConfInv, PhaseInv, SocketInv, AcceptorInv, TypeOK, Running
<1>2. ASSUME NEW code \in {"success", "failure"}, Exit(code), code = "success" => env.validate
      PROVE  IInv'
  <2>1. term' \in {"none", "sent", "handled"}
    BY <1>1 DEF IInv, TypeOK
  <2> QED
    BY <1>1, <1>2, <2>1, ExitStep, ZenonT(60)
<1>3. ASSUME NEW c, c = FullConfig(env.file), Parses(env.file), Accepted(c), Goto("log"),
             conf' = c, table' = into_dynamic(c).routing_table,
             acme' = [i \in 1..Len(c.listeners) |-> "none"],
             cert' = [i \in 1..Len(c.listeners) |-> FALSE],
             UNCHANGED <<next, sockets, acceptors, serving, notified, registered>>
      PROVE  IInv'
  <2>1. pc' = "log" /\ exit' = "none"
    BY <1>1, <1>3, Zenon DEF Goto
  <2>2. TypeOK'
    <3>1. DOMAIN acme' = Listeners' /\ DOMAIN cert' = Listeners' /\ next' = 1
      BY <1>1, <1>3, Zenon DEF Listeners
    <3> QED
      BY <1>1, <1>3, <2>1, <3>1, Zenon DEF IInv, TypeOK
  <2>3. ConfInv'
    BY <1>1, <1>3, <2>1, Zenon DEF ConfInv, Loaded, Accepted
  <2>4. SocketInv' /\ AcceptorInv' /\ PhaseInv'
    BY <1>1, <1>3, <2>1, Zenon DEF IInv, SocketInv, AcceptorInv, PhaseInv, Running
  <2>5. WebInv' /\ ExitCodes' /\ AcceptedStarts'
    BY <1>1, <2>1, Zenon DEF WebInv, RedirectReachesSite, ExitCodes, AcceptedStarts
  <2> QED
    BY <2>2, <2>3, <2>4, <2>5, Zenon DEF IInv
<1> QED
  BY <1>2, <1>3 DEF LoadConfig

LEMMA LogStep == IInv /\ InitLogging => IInv'
<1> SUFFICES ASSUME IInv, InitLogging PROVE IInv'
  OBVIOUS
<1>1. pc = "log" /\ ~notified /\ UNCHANGED <<env, files, term, version, seen, web>>
      /\ term \in {"none", "sent", "handled"}
  BY Zenon DEF IInv, InitLogging, PhaseInv, Running, TypeOK
<1>2. CASE Goto("register") /\ UNCHANGED <<mainVars, taskVars>>
  <2>1. /\ pc' = "register" /\ exit' = exit /\ conf' = conf /\ table' = table /\ next' = next
        /\ sockets' = sockets /\ acceptors' = acceptors /\ serving' = serving
        /\ notified' = notified /\ registered' = registered /\ acme' = acme /\ cert' = cert
    BY <1>2, Zenon DEF Goto, mainVars, taskVars
  <2>2. TypeOK' /\ SocketInv' /\ AcceptorInv' /\ PhaseInv'
    BY <1>1, <2>1, Zenon DEF IInv, TypeOK, SocketInv, AcceptorInv, PhaseInv, Running, Listeners
  <2> QED
    BY <1>1, <2>1, <2>2, GotoStep, Zenon
<1>3. CASE conf.logging.log_file_path # "" /\ Exit("failure")
  <2>1. EnvironmentFails(conf)
    BY <1>3, Zenon DEF EnvironmentFails
  <2> QED
    BY <1>1, <1>3, <2>1, ExitStep, Zenon
<1> QED
  BY <1>2, <1>3, Zenon DEF InitLogging

LEMMA RegisterStep == IInv /\ RegisterSignals => IInv'
<1> SUFFICES ASSUME IInv, RegisterSignals PROVE IInv'
  OBVIOUS
<1>1. /\ pc = "register" /\ pc' = "key" /\ exit' = exit /\ conf' = conf /\ table' = table
      /\ next' = next /\ sockets' = sockets /\ acceptors' = acceptors /\ serving' = serving
      /\ notified' = notified /\ registered' = TRUE /\ acme' = acme /\ cert' = cert
      /\ UNCHANGED <<env, files, term, version, seen, web>>
  BY Zenon DEF RegisterSignals, Goto, taskVars
<1>2. TypeOK' /\ SocketInv' /\ AcceptorInv' /\ PhaseInv'
  BY <1>1, Zenon DEF IInv, TypeOK, SocketInv, AcceptorInv, PhaseInv, Running, Listeners
<1> QED
  BY <1>1, <1>2, GotoStep, Zenon

LEMMA BoundFacts ==
    ASSUME Len(conf.listeners) \in Nat
    PROVE  /\ BoundUpTo(0) = HealthSockets(conf)
           /\ \A n \in Nat \ {0} : BoundUpTo(n) =
                BoundUpTo(n - 1) \cup RedirectSockets(conf.listeners[n]) \cup {HttpsSocket(conf.listeners[n])}
           /\ BoundUpTo(Len(conf.listeners)) = WantedSockets(conf)
<1> DEFINE U(n) == UNION {ListenerSockets(conf.listeners[i]) : i \in 1..n}
<1>1. U(0) = {}
  BY SMTT(30)
<1>2. ASSUME NEW n \in Nat \ {0}
      PROVE  U(n) = U(n - 1) \cup RedirectSockets(conf.listeners[n]) \cup {HttpsSocket(conf.listeners[n])}
  <2>1. 1..n = 1..(n - 1) \cup {n}
    OBVIOUS
  <2>2. U(n) = U(n - 1) \cup ListenerSockets(conf.listeners[n])
    <3> DEFINE V(D) == UNION {ListenerSockets(conf.listeners[i]) : i \in D}
    <3>1. \A D, x : V(D \cup {x}) = V(D) \cup ListenerSockets(conf.listeners[x])
      BY Zenon
    <3> QED
      BY <2>1, <3>1
  <2> QED
    BY <2>2 DEF ListenerSockets, RedirectSockets
<1>3. \A n : BoundUpTo(n) = HealthSockets(conf) \cup U(n)
  BY DEF BoundUpTo
<1>4. WantedSockets(conf) = U(Len(conf.listeners)) \cup HealthSockets(conf)
  BY DEF WantedSockets, HealthSockets
<1> HIDE DEF U
<1> QED
  BY <1>1, <1>2, <1>3, <1>4, Zenon

LEMMA HealthStep == IInv /\ BindHealth => IInv'
<1> SUFFICES ASSUME IInv, BindHealth PROVE IInv'
  OBVIOUS
<1> DEFINE s == HealthSocket(conf)
<1>1. /\ pc = "key" /\ ~notified /\ UNCHANGED <<env, files, term, version, seen, web>>
      /\ term \in {"none", "sent", "handled"} /\ next = 1 /\ sockets = {}
      /\ env \in Scenarios /\ Loaded
  BY Zenon DEF IInv, BindHealth, PhaseInv, Running, TypeOK, SocketInv, ConfInv
<1>2. Len(conf.listeners) \in Nat \ {0}
  BY <1>1, LoadedFacts, Zenon
<1>3. ASSUME pc' = "redirect" /\ exit' = exit /\ conf' = conf /\ table' = table /\ next' = next
             /\ acceptors' = acceptors /\ serving' = serving
             /\ notified' = notified /\ registered' = registered /\ acme' = acme /\ cert' = cert,
             sockets' = HealthSockets(conf)
      PROVE  IInv'
  <2>1. TypeOK' /\ AcceptorInv' /\ PhaseInv'
    BY <1>1, <1>3, Zenon DEF IInv, TypeOK, AcceptorInv, PhaseInv, Running, Listeners
  <2>2. SocketInv'
    <3>1. next' \in Listeners' /\ next' - 1 = 0
      BY <1>1, <1>2, <1>3, SMTT(30) DEF Listeners
    <3>2. BoundUpTo(0)' = HealthSockets(conf)'
      BY <1>2, <1>3, BoundFacts, SMTT(30) DEF BoundUpTo
    <3> QED
      BY <1>3, <3>1, <3>2, Zenon DEF SocketInv, Running
  <2> QED
    BY <1>1, <1>3, <2>1, <2>2, GotoStep, ZenonT(60)
<1>4. CASE conf.health_check_port # "0" /\ CanBind(s)
  BY <1>1, <1>3, <1>4, Zenon DEF BindHealth, Bind, Goto, taskVars, HealthSockets
<1>5. CASE conf.health_check_port = "0"
  BY <1>1, <1>3, <1>5, Zenon DEF BindHealth, Skip, Goto, mainVars, taskVars, HealthSockets
<1>6. CASE conf.health_check_port # "0" /\ ~CanBind(s)
  <2>1. PICK t \in env.held : Overlap(s, t)
    BY <1>1, <1>6, Zenon DEF CanBind
  <2>2. EnvironmentFails(conf)
    BY <1>6, <2>1, ZenonT(60) DEF EnvironmentFails, WantedSockets
  <2>3. Exit("failure")
    BY <1>6 DEF BindHealth, Bind
  <2> QED
    BY <1>1, <2>2, <2>3, ExitStep, Zenon
<1> QED
  BY <1>4, <1>5, <1>6, Zenon

LEMMA RedirectStep == IInv /\ BindRedirect => IInv'
<1> SUFFICES ASSUME IInv, BindRedirect PROVE IInv'
  OBVIOUS
<1> DEFINE s == RedirectSocket(Listener)
<1>1. /\ pc = "redirect" /\ ~notified /\ UNCHANGED <<env, files, term, version, seen, web>>
      /\ term \in {"none", "sent", "handled"} /\ next \in Listeners /\ sockets = BoundUpTo(next - 1)
      /\ env \in Scenarios /\ Loaded
  BY DEF IInv, BindRedirect, PhaseInv, Running, TypeOK, SocketInv, ConfInv
<1>2. ASSUME pc' = "https" /\ exit' = exit /\ conf' = conf /\ table' = table /\ next' = next
             /\ acceptors' = acceptors /\ serving' = serving
             /\ notified' = notified /\ registered' = registered /\ acme' = acme /\ cert' = cert,
             sockets' = sockets \cup RedirectSockets(Listener)
      PROVE  IInv'
  <2>1. TypeOK' /\ AcceptorInv' /\ PhaseInv'
    BY <1>1, <1>2, Zenon DEF IInv, TypeOK, AcceptorInv, PhaseInv, Running, Listeners
  <2>2. SocketInv'
    BY <1>1, <1>2, ZenonT(60) DEF SocketInv, Running, Listeners, Listener, BoundUpTo
  <2> QED
    BY <1>1, <1>2, <2>1, <2>2, GotoStep, Zenon
<1>3. CASE Listener.http_port = "0"
  BY <1>1, <1>2, <1>3, Zenon DEF BindRedirect, Skip, Goto, mainVars, taskVars, RedirectSockets
<1>4. CASE Listener.http_port # "0" /\ Listener.bind_addr \in IpAddresses /\ CanBind(s)
  BY <1>1, <1>2, <1>4, Zenon DEF BindRedirect, Bind, Goto, taskVars, RedirectSockets
<1>5. CASE Listener.http_port # "0" /\ Listener.bind_addr \notin IpAddresses
  <2>1. CannotStart(conf)
    BY <1>1, <1>5, Zenon DEF CannotStart, Listener, Listeners
  <2>2. Exit("failure")
    BY <1>5, Zenon DEF BindRedirect
  <2> QED
    BY <1>1, <2>1, <2>2, ExitStep, Zenon
<1>6. CASE Listener.http_port # "0" /\ Listener.bind_addr \in IpAddresses /\ ~CanBind(s)
  <2>1. PICK t \in sockets \cup env.held : Overlap(s, t)
    BY <1>6, Zenon DEF CanBind
  <2>2. /\ s \in ListenerSockets(conf.listeners[next])
        /\ \/ t \in env.held
           \/ t \in HealthSockets(conf)
           \/ \E j \in 1..(next - 1) : t \in ListenerSockets(conf.listeners[j])
    BY <1>1, <1>6, Zenon DEF BoundUpTo, Listener, ListenerSockets
  <2>3. CannotStart(conf) \/ EnvironmentFails(conf)
    BY <1>1, <2>1, <2>2, BindFails, ZenonT(60)
  <2>4. Exit("failure")
    BY <1>6 DEF BindRedirect, Bind
  <2> QED
    BY <1>1, <2>3, <2>4, ExitStep, Zenon
<1> QED
  BY <1>3, <1>4, <1>5, <1>6, ZenonT(60)

LEMMA HttpsStep == IInv /\ BindHttps => IInv'
<1> SUFFICES ASSUME IInv, BindHttps PROVE IInv'
  OBVIOUS
<1> DEFINE s == HttpsSocket(Listener)
           n == Len(conf.listeners)
<1>1. /\ pc = "https" /\ ~notified /\ UNCHANGED <<env, files, term, version, seen, web>>
      /\ term \in {"none", "sent", "handled"} /\ next \in Listeners
      /\ sockets = BoundUpTo(next - 1) \cup RedirectSockets(Listener)
      /\ env \in Scenarios /\ Loaded
  BY Zenon DEF IInv, BindHttps, PhaseInv, Running, TypeOK, SocketInv, ConfInv
<1>2. n \in Nat \ {0} /\ next \in 1..n
  BY <1>1, LoadedFacts, Zenon DEF Listeners
<1>3. CASE Listener.bind_addr \notin IpAddresses \/ ~CanBind(s)
  <2>1. CannotStart(conf) \/ EnvironmentFails(conf)
    <3>1. CASE Listener.bind_addr \notin IpAddresses
      BY <1>1, <3>1, Zenon DEF CannotStart, Listener, Listeners
    <3>2. CASE ~CanBind(s)
      <4>1. PICK t \in sockets \cup env.held : Overlap(s, t)
        BY <3>2, Zenon DEF CanBind
      <4>2. s \in ListenerSockets(conf.listeners[next]) /\ s = HttpsSocket(conf.listeners[next])
        BY DEF Listener, ListenerSockets
      <4>3. \/ t \in env.held
            \/ t \in HealthSockets(conf)
            \/ \E j \in 1..(next - 1) : t \in ListenerSockets(conf.listeners[j])
            \/ t \in RedirectSockets(conf.listeners[next])
        BY <1>1, Zenon DEF BoundUpTo, Listener
      <4> QED
        BY <1>1, <4>1, <4>2, <4>3, BindFails, Zenon
    <3> QED
      BY <1>3, <3>1, <3>2, Zenon
  <2>2. Exit("failure")
    BY <1>3, Zenon DEF BindHttps
  <2> QED
    BY <1>1, <2>1, <2>2, ExitStep, Zenon
<1>4. CASE ~(Listener.bind_addr \notin IpAddresses \/ ~CanBind(s))
  <2>1. /\ exit' = exit /\ conf' = conf /\ table' = table /\ sockets' = sockets \cup {s}
        /\ acceptors' = acceptors /\ serving' = serving
        /\ notified' = notified /\ registered' = registered /\ acme' = acme /\ cert' = cert
        /\ IF next < n THEN pc' = "redirect" /\ next' = next + 1 ELSE pc' = "tls" /\ next' = 1
    BY <1>4, Zenon DEF BindHttps, Goto, taskVars
  <2>2. sockets' = BoundUpTo(next)
    BY <1>1, <1>2, <2>1, BoundFacts, SMTT(30) DEF Listener
  <2>3. BoundUpTo(n) = WantedSockets(conf)
    BY <1>2, BoundFacts, SMTT(30)
  <2>4. next' \in 1..n /\ (pc' = "redirect" => next' - 1 = next) /\ (pc' = "tls" => next = n)
        /\ pc' \in {"redirect", "tls"} /\ next' - 1 \in Nat /\ (pc' = "tls" => next' = 1)
    BY <1>2, <2>1
  <2>5. TypeOK' /\ PhaseInv'
    BY <1>1, <2>1, <2>4, Zenon DEF IInv, TypeOK, PhaseInv, Running, Listeners
  <2>6. AcceptorInv'
    <3>1. acceptors = <<>> /\ Len(acceptors) = 0 /\ acceptors' = acceptors
      BY <1>1, <2>1, SMTT(30) DEF IInv, AcceptorInv
    <3>2. pc' = "tls" => Len(acceptors') = next' - 1
      BY <2>4, <3>1
    <3> QED
      BY <2>4, <3>1, <3>2, Zenon DEF IInv, AcceptorInv, Running
  <2>7. SocketInv'
    BY <2>1, <2>2, <2>3, <2>4, Zenon DEF SocketInv, Running, Listeners, BoundUpTo
  <2> QED
    BY <1>1, <2>1, <2>4, <2>5, <2>6, <2>7, GotoStep, ZenonT(60)
<1> QED
  BY <1>3, <1>4, Zenon

LEMMA TlsStep == IInv /\ SetupTls => IInv'
<1> SUFFICES ASSUME IInv, SetupTls PROVE IInv'
  OBVIOUS
<1> DEFINE n == Len(conf.listeners)
           t == Listener.tls
           Alpn == SUBSET {"h2", "http/1.1", "acme-tls/1"}
<1>1. /\ pc = "tls" /\ ~notified /\ UNCHANGED <<env, files, term, version, seen, web>>
      /\ term \in {"none", "sent", "handled"} /\ next \in Listeners
      /\ sockets = WantedSockets(conf) /\ env \in Scenarios /\ Loaded
      /\ acceptors \in Seq(Alpn) /\ Len(acceptors) = next - 1
  BY DEF IInv, SetupTls, PhaseInv, Running, TypeOK, SocketInv, ConfInv, AcceptorInv
<1>2. n \in Nat \ {0} /\ next \in 1..n
  BY <1>1, LoadedFacts, Zenon DEF Listeners
<1>3. CASE ~setup_tls(t)
  <2>1. CannotStart(conf) \/ EnvironmentFails(conf)
    <3>1. CASE t.mode = "manual"
      BY <1>2, <1>3, <3>1, Zenon DEF setup_tls, EnvironmentFails, Listener
    <3>2. CASE t.mode = "acme"
      <4>1. t.acme_domains # <<>>
        BY <1>1, <1>2, <3>2, LoadedFacts, Zenon DEF Listener
      <4>2. t.acme_cache_dir = ""
        BY <1>3, <3>2, <4>1, Zenon DEF setup_tls
      <4> QED
        BY <1>2, <3>2, <4>2, Zenon DEF CannotStart, Listener
    <3>3. CASE t.mode \notin {"manual", "acme"}
      BY <1>2, <3>3, Zenon DEF CannotStart, Listener
    <3> QED
      BY <3>1, <3>2, <3>3, Zenon
  <2>2. Exit("failure")
    BY <1>3, Zenon DEF SetupTls
  <2> QED
    BY <1>1, <2>1, <2>2, ExitStep, Zenon
<1>4. CASE setup_tls(t)
  <2>1. /\ exit' = exit /\ conf' = conf /\ table' = table /\ sockets' = sockets
        /\ serving' = serving /\ notified' = notified /\ registered' = registered
        /\ acceptors' = Append(acceptors, alpn_protocols(t))
        /\ DOMAIN acme' = DOMAIN acme /\ DOMAIN cert' = DOMAIN cert
        /\ IF next < n THEN pc' = "tls" /\ next' = next + 1 ELSE pc' = "spawn" /\ next' = next
    BY <1>4, Zenon DEF SetupTls, Goto
  <2>2. acceptors' \in Seq(Alpn) /\ Len(acceptors') = next
    <3>1. alpn_protocols(t) \in Alpn
      BY Zenon DEF alpn_protocols
    <3>2. acceptors' \in Seq(Alpn) /\ Len(acceptors') = Len(acceptors) + 1
      <4> HIDE DEF Alpn, t
      <4> QED
        BY <1>1, <2>1, <3>1, AppendProperties, Zenon DEF t
    <3> QED
      BY <1>1, <1>2, <3>2, SMTT(30)
  <2>3. next' \in 1..n /\ pc' \in {"tls", "spawn"} /\ (pc' = "tls" => next = next' - 1)
        /\ (pc' = "spawn" => next = n)
    BY <1>2, <2>1
  <2>4. TypeOK' /\ PhaseInv'
    BY <1>1, <2>1, <2>3, Zenon DEF IInv, TypeOK, PhaseInv, Running, Listeners
  <2>5. AcceptorInv'
    BY <2>1, <2>2, <2>3, Zenon DEF AcceptorInv, Running
  <2>6. SocketInv'
    BY <1>1, <2>1, <2>3, Zenon DEF SocketInv, Running, Listeners
  <2> QED
    BY <1>1, <2>1, <2>3, <2>4, <2>5, <2>6, GotoStep, ZenonT(60)
<1> QED
  BY <1>3, <1>4, SMTT(30)

\* From the accept loops to the shutdown.
LEMMA ServeStep ==
    IInv /\ (SpawnListeners \/ NotifyReady \/ Subscribe \/ SeesShutdown \/ Drained) => IInv'
<1> SUFFICES ASSUME IInv, SpawnListeners \/ NotifyReady \/ Subscribe \/ SeesShutdown \/ Drained
             PROVE  IInv'
  OBVIOUS
<1> USE DEF Running
<1>1. CASE SpawnListeners
  <2>1. /\ pc = "spawn" /\ pc' = "notify" /\ exit' = exit /\ conf' = conf /\ table' = table
        /\ next' = next /\ sockets' = sockets /\ acceptors' = acceptors /\ serving' = TRUE
        /\ notified' = notified /\ registered' = registered /\ acme' = acme /\ cert' = cert
        /\ UNCHANGED <<env, files, term, version, seen, web>>
    BY <1>1, Zenon DEF SpawnListeners, Goto, taskVars, IInv, AcceptorInv
  <2>2. TypeOK' /\ SocketInv' /\ AcceptorInv' /\ PhaseInv'
    BY <2>1, Zenon DEF IInv, TypeOK, SocketInv, AcceptorInv, PhaseInv, Listeners
  <2> QED
    BY <2>1, <2>2, GotoStep, Zenon
<1>2. CASE NotifyReady
  <2>1. /\ pc = "notify" /\ pc' = "subscribe" /\ exit' = exit /\ conf' = conf /\ table' = table
        /\ next' = next /\ sockets' = sockets /\ acceptors' = acceptors /\ serving' = serving
        /\ notified' = TRUE /\ registered' = registered /\ acme' = acme /\ cert' = cert
        /\ UNCHANGED <<env, files, term, version, seen, web>>
    BY <1>2, Zenon DEF NotifyReady, Goto, taskVars
  <2>2. TypeOK' /\ SocketInv' /\ AcceptorInv' /\ PhaseInv'
    BY <2>1, Zenon DEF IInv, TypeOK, SocketInv, AcceptorInv, PhaseInv, Listeners
  <2> QED
    BY <2>1, <2>2, GotoStep, Zenon
<1>3. CASE Subscribe \/ SeesShutdown
  <2>1. /\ \/ pc = "subscribe" /\ pc' = "wait" /\ seen' = 0
           \/ pc = "wait" /\ pc' = "drain" /\ seen' = version /\ version # seen
        /\ exit' = exit /\ conf' = conf /\ table' = table
        /\ next' = next /\ sockets' = sockets /\ acceptors' = acceptors /\ serving' = serving
        /\ notified' = notified /\ registered' = registered /\ acme' = acme /\ cert' = cert
        /\ UNCHANGED <<env, files, term, version, web>>
    BY <1>3, Zenon DEF Subscribe, SeesShutdown, subscribe, Goto, mainVars, taskVars
  <2>2. pc = "wait" => version = 1
    BY <2>1, Zenon DEF IInv, TypeOK, PhaseInv
  <2>3. TypeOK' /\ SocketInv' /\ AcceptorInv' /\ PhaseInv'
    BY <2>1, <2>2, Zenon DEF IInv, TypeOK, SocketInv, AcceptorInv, PhaseInv, Listeners
  <2> QED
    BY <2>1, <2>3, GotoStep, Zenon
<1>4. CASE Drained
  <2>1. /\ pc = "drain" /\ Exit("success") /\ UNCHANGED <<env, files, term, version, seen, web>>
        /\ notified /\ version = 1 /\ term \in {"none", "sent", "handled"}
    BY <1>4 DEF Drained, IInv, PhaseInv, TypeOK
  <2> QED
    BY <2>1, ExitStep, ZenonT(60)
<1> QED
  BY <1>1, <1>2, <1>3, <1>4, Zenon

\* The signals, the ACME tasks and the certificate files.
LEMMA TaskStep ==
    ASSUME IInv,
           \/ Signalled \/ TriggerShutdown
           \/ \E i \in DOMAIN acme : AcmeStep(i)
           \/ \E p \in DOMAIN files : Rewrite(p)
    PROVE  IInv'
<1>1. CASE Signalled
  <2>1. /\ pc # "exited" /\ term' = "sent"
        /\ UNCHANGED <<env, files, version, seen, web>>
    BY <1>1 DEF Signalled
  <2>2. CASE registered
    <3>1. UNCHANGED <<exitVars, mainVars, taskVars>>
      BY <1>1, <2>2, Zenon DEF Signalled
    <3>2. TypeOK' /\ WebInv'
      BY <2>1, <3>1, Zenon DEF IInv, TypeOK, WebInv, RedirectReachesSite, Listeners, exitVars, mainVars, taskVars
    <3> QED
      BY <2>1, <3>1, <3>2, OtherStep, Zenon
  <2>3. CASE ~registered
    <3>1. Exit("killed")
      BY <1>1, <2>3, Zenon DEF Signalled
    <3> QED
      BY <2>1, <3>1, ExitStep, Zenon
  <2> QED
    BY <2>2, <2>3, Zenon
<1>2. CASE TriggerShutdown
  <2>1. /\ term' = "handled" /\ version' = 1
        /\ UNCHANGED <<env, files, exitVars, mainVars, seen, taskVars, web>>
    BY <1>2, Zenon DEF TriggerShutdown
  <2>2. TypeOK' /\ WebInv'
    BY <2>1, Zenon DEF IInv, TypeOK, WebInv, RedirectReachesSite, Listeners, exitVars, mainVars, taskVars
  <2> QED
    BY <2>1, <2>2, OtherStep, Zenon
<1>3. ASSUME NEW i \in DOMAIN acme, AcmeStep(i) PROVE IInv'
  <2>1. /\ DOMAIN acme' = DOMAIN acme /\ DOMAIN cert' = DOMAIN cert
        /\ UNCHANGED <<env, files, exitVars, mainVars, term, version, seen, web>>
    BY <1>3, Zenon DEF AcmeStep, AcmeStarts, AcmeDeploys, AcmeError, AcmeOrders, AcmeStops
  <2>2. TypeOK' /\ WebInv'
    BY <2>1, ZenonT(60) DEF IInv, TypeOK, WebInv, RedirectReachesSite, Listeners, exitVars, mainVars
  <2> QED
    BY <2>1, <2>2, OtherStep, Zenon
<1>4. ASSUME NEW p \in DOMAIN files, Rewrite(p) PROVE IInv'
  <2>1. /\ pc # "exited" /\ DOMAIN files' = DOMAIN files
        /\ UNCHANGED <<env, exitVars, mainVars, term, version, seen, taskVars, web>>
    BY <1>4 DEF Rewrite
  <2>2. TypeOK' /\ WebInv'
    BY <2>1, ZenonT(60) DEF IInv, TypeOK, WebInv, RedirectReachesSite, Listeners, exitVars, mainVars, taskVars
  <2> QED
    BY <2>1, <2>2, OtherStep
<1> QED
  BY <1>1, <1>2, <1>3, <1>4, ZenonT(60)

\* The browser.
LEMMA WebStep ==
    ASSUME IInv,
           \/ \E i \in Listeners, h \in RequestHosts, path \in {"page", "challenge"} : Browse(i, h, path)
           \/ Follow
    PROVE  IInv'
<1>1. UNCHANGED <<env, files, exitVars, mainVars, term, version, seen, taskVars>>
  BY Zenon DEF Browse, Follow
<1>2. TypeOK' /\ table' = table
  BY <1>1, Zenon DEF IInv, TypeOK, Listeners, exitVars, mainVars, taskVars
<1>3. SUFFICES WebInv' /\ pc # "load"
  BY <1>1, <1>2, OtherStep, Zenon
<1>4. ASSUME NEW i \in Listeners, NEW h \in RequestHosts, NEW path \in {"page", "challenge"},
             Browse(i, h, path)
      PROVE  WebInv' /\ pc # "load"
  <2>1. conf # NoConfig
    BY DEF Listeners, NoConfig
  <2>2. pc # "load" /\ Loaded /\ env \in Scenarios
    BY <2>1, Zenon DEF IInv, ConfInv
  <2> DEFINE port == conf.listeners[i].https_port
  <2>3. port # ":"
    BY <2>2, LoadedFacts, Zenon DEF Listeners
  <2> HIDE DEF port
  <2>4. web' = redirect_handler(h, path, port)
    BY <1>4, Zenon DEF Browse, port
  <2>5. CASE h = <<>>
    BY <2>2, <2>4, <2>5, Zenon DEF redirect_handler, WebInv, RedirectReachesSite
  <2>6. CASE h # <<>> /\ path = "challenge"
    BY <2>2, <2>4, <2>6, Zenon DEF redirect_handler, WebInv, RedirectReachesSite
  <2>7. CASE h # <<>> /\ path = "page"
    <3>1. web'.at = "301" /\ web'.host = h /\ web'.authority = build_redirect_authority(h, port)
      BY <2>4, <2>7, Zenon DEF redirect_handler
    <3>2. normalize_host(web'.authority) = normalize_host(web'.host)
      BY <2>3, <3>1, RedirectKeepsHost, Zenon
    <3> QED
      BY <2>2, <3>1, <3>2, Zenon DEF WebInv, RedirectReachesSite
  <2> QED
    BY <2>5, <2>6, <2>7, Zenon
<1>5. CASE Follow
  <2>1. /\ web.at = "301" /\ serving
        /\ web' = [at |-> "https", host |-> web.host, site |-> lookup(table, web.authority)]
    BY <1>5, Zenon DEF Follow
  <2>2. pc # "load"
    BY <2>1, Zenon DEF IInv, PhaseInv, Running
  <2>3. lookup(table, web.authority) = lookup(table, web.host)
    BY <2>1, Zenon DEF IInv, WebInv, lookup
  <2> QED
    BY <1>2, <2>1, <2>2, <2>3, Zenon DEF WebInv, RedirectReachesSite
<1> QED
  BY <1>4, <1>5, Zenon

LEMMA StepIInv == IInv /\ [Next]_vars => IInv'
<1> SUFFICES ASSUME IInv, [Next]_vars PROVE IInv'
  OBVIOUS
<1>1. CASE MainStep
  BY <1>1, LoadStep, LogStep, RegisterStep, HealthStep, RedirectStep, HttpsStep, TlsStep, ServeStep, Zenon
     DEF MainStep
<1>2. CASE \/ Signalled \/ TriggerShutdown
           \/ \E i \in DOMAIN acme : AcmeStep(i)
           \/ \E p \in DOMAIN files : Rewrite(p)
  BY <1>2, TaskStep
<1>3. CASE \/ \E i \in Listeners, h \in RequestHosts, path \in {"page", "challenge"} : Browse(i, h, path)
           \/ Follow
  BY <1>3, WebStep, Zenon
<1>4. CASE Exited \/ UNCHANGED vars
  <2>1. UNCHANGED <<env, files, exitVars, mainVars, term, version, seen, taskVars, web>>
    BY <1>4, ZenonT(60) DEF Exited, vars
  <2>2. TypeOK' /\ WebInv'
    BY <2>1, ZenonT(60) DEF IInv, TypeOK, WebInv, RedirectReachesSite, Listeners, exitVars, mainVars, taskVars
  <2> QED
    BY <2>1, <2>2, OtherStep, Zenon
<1> QED
  BY <1>1, <1>2, <1>3, <1>4, Zenon DEF Next

LEMMA Invariance == Spec => []IInv
BY InitIInv, StepIInv, PTL DEF Spec

-----------------------------------------------------------------------------
(* The theorems.                                                           *)

\* The variables have their types, whatever the environment: in particular the
\* loops of main over the listeners stay within them.
THEOREM TypeCorrect == Spec => []TypeOK
<1>1. IInv => TypeOK
  BY ZenonT(60) DEF IInv
<1> QED
  BY <1>1, Invariance, PTL

\* READY=1 means what it says: for any number of listeners, every configured port
\* is bound and every listener has its acceptor and runs (run_server).
THEOREM ReadyMeansReady == Spec => []ReadyIsComplete
<1>1. IInv => ReadyIsComplete
  BY SMTT(30) DEF IInv, ReadyIsComplete, SocketInv, AcceptorInv, PhaseInv, Running, TypeOK
<1> QED
  BY <1>1, Invariance, PTL

\* The exit code tells the supervisor what happened: a failure comes before
\* READY=1, success after a shutdown that was asked for or from --validate (main).
THEOREM ExitCodesTell == Spec => []ExitCodes
<1>1. IInv => ExitCodes
  BY DEF IInv
<1> QED
  BY <1>1, Invariance, PTL

\* A configuration that validation accepts starts, unless the environment prevents
\* it or it is one of the kinds of CannotStart: for any file the rules of validate
\* exclude every other reason why a bind or setup_tls fails.
THEOREM AcceptedConfigsStart == Spec => []AcceptedStarts
<1>1. IInv => AcceptedStarts
  BY Zenon DEF IInv
<1> QED
  BY <1>1, Invariance, PTL

\* Every site of every configuration that starts is found by its host in any
\* spelling, and its upstream makes a URI unless it is an IPv6 address without
\* brackets (validate against build_routing_table, lookup, build_upstream_uri).
THEOREM AcceptedSitesServed == Spec => []ServesWhatItAccepts
<1>1. IInv => ServesWhatItAccepts
  <2> SUFFICES ASSUME IInv, pc = "notify", NEW i \in 1..Len(AllSites(conf))
               PROVE  LET s == AllSites(conf)[i]
                      IN  /\ \A h \in Spellings(s.host) : lookup(table, h) = s
                          /\ build_upstream_uri(s.upstream) \/ s.upstream[1] = ":"
    BY Zenon DEF ServesWhatItAccepts
  <2>1. env \in Scenarios /\ Loaded
    BY DEF IInv, ConfInv
  <2>2. WellTyped(env.file) /\ Parses(env.file) /\ conf = FullConfig(env.file)
        /\ validate(conf, env.wildcard, DOMAIN env.files) = {}
    BY <2>1, ScenariosAssumption, Zenon DEF Loaded
  <2>3. table = build_routing_table(AllSites(conf))
    BY <2>1, Zenon DEF Loaded, into_dynamic, from_sites
  <2> QED
    BY <2>2, <2>3, AcceptedIsServed, Zenon
<1> QED
  BY <1>1, Invariance, PTL

\* A browser that follows the redirect gets the site that its Host header asks for,
\* for any listener, port and Host header of HostsAssumption (redirect_handler
\* against lookup).
THEOREM RedirectsReachSite == Spec => []RedirectReachesSite
<1>1. IInv => RedirectReachesSite
  BY DEF IInv, WebInv
<1> QED
  BY <1>1, Invariance, PTL
=============================================================================
