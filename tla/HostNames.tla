----------------------------- MODULE HostNames -----------------------------
(***************************************************************************)
(* Host names as the configuration writes them and as requests carry them: *)
(* the checks of validation.rs, the routing table and its lookup, and the  *)
(* host part of a redirect.                                                *)
(*                                                                         *)
(* A text is a sequence of tokens.  A word or a number stands for a run of *)
(* ASCII letters and digits; every other character is a token of its own.  *)
(* A port is the number token that writes it.                              *)
(***************************************************************************)
EXTENDS Integers, Sequences, FiniteSetsExt

LowerCase == [GIT |-> "git", Alk |-> "alk"]
Words == {"git", "alk", "dev"} \cup DOMAIN LowerCase
Octets == {"0", "10", "80"}
PortNumbers == Octets \cup {"443", "8443", "9900"}
Numbers == PortNumbers \cup {"70000"}
Alphanumeric == Words \cup Numbers

NoSite == [host |-> <<>>]

to_lowercase(h) ==
    [i \in 1..Len(h) |-> IF h[i] \in DOMAIN LowerCase THEN LowerCase[h[i]] ELSE h[i]]

starts_with(h, t) == h # <<>> /\ h[1] = t
ends_with(h, t) == h # <<>> /\ h[Len(h)] = t

\* str::contains, find and rfind, for a token.
Contains(h, t) == \E i \in 1..Len(h) : h[i] = t
find(h, t) == IF Contains(h, t) THEN Min({i \in 1..Len(h) : h[i] = t}) ELSE 0
rfind(h, t) == IF Contains(h, t) THEN Max({i \in 1..Len(h) : h[i] = t}) ELSE 0

-----------------------------------------------------------------------------
(* What validation accepts.                                                *)

\* The addresses that std::net parses, as far as tokens can write them.
IsIpv4(h) == Len(h) = 7 /\ \A i \in 1..7 : IF i % 2 = 1 THEN h[i] \in Octets ELSE h[i] = "."
IsIpv6(h) == Len(h) = 3 /\ h[1] = ":" /\ h[2] = ":" /\ h[3] \in Octets

\* host.split('.')
Labels(h) ==
    LET cuts == {0, Len(h) + 1} \cup {i \in 1..Len(h) : h[i] = "."}
        pairs == {p \in cuts \X cuts : p[1] < p[2] /\ \A c \in cuts : c <= p[1] \/ p[2] <= c}
    IN  {SubSeq(h, p[1] + 1, p[2] - 1) : p \in pairs}

is_valid_label(l) ==
    /\ l # <<>>
    /\ ~starts_with(l, "-") /\ ~ends_with(l, "-")
    /\ \A i \in 1..Len(l) : l[i] \in Alphanumeric \cup {"-"}

is_valid_hostname(h) ==
    /\ h # <<>> /\ ~Contains(h, ":") /\ ~IsIpv4(h)
    /\ ~starts_with(h, "-") /\ ~ends_with(h, "-")
    /\ IF Contains(h, ".")
       THEN \A l \in Labels(h) : is_valid_label(l)
       ELSE \A i \in 1..Len(h) : h[i] \in Alphanumeric \cup {"-"}

is_valid_upstream(u) ==
    LET colon == rfind(u, ":")
        host == SubSeq(u, 1, colon - 1)
        port == SubSeq(u, colon + 1, Len(u))
    IN  /\ colon > 1
        /\ ~starts_with(u, "http://") /\ ~starts_with(u, "https://")
        /\ Len(port) = 1 /\ port[1] \in PortNumbers \ {"0"}
        /\ IF starts_with(host, "[") /\ ends_with(host, "]")
           THEN IsIpv6(SubSeq(host, 2, Len(host) - 1))
           ELSE IsIpv4(host) \/ IsIpv6(host) \/ is_valid_hostname(host)

-----------------------------------------------------------------------------
(* Routing and redirects.                                                  *)

strip_port_from_host(h) ==
    IF starts_with(h, "[")
    THEN IF find(h, "]") > 0 THEN SubSeq(h, 1, find(h, "]")) ELSE h
    ELSE IF rfind(h, ":") > 0 THEN SubSeq(h, 1, rfind(h, ":") - 1) ELSE h

\* Both brackets are removed, or none.
normalize_host(h) ==
    LET lower == to_lowercase(strip_port_from_host(h))
        inner == IF starts_with(lower, "[") THEN Tail(lower) ELSE lower
    IN  IF ends_with(inner, "]") THEN SubSeq(inner, 1, Len(inner) - 1) ELSE lower

\* A later site replaces an earlier one with the same key.
build_routing_table(sites) ==
    [key \in {to_lowercase(sites[i].host) : i \in 1..Len(sites)} |->
        sites[Max({i \in 1..Len(sites) : to_lowercase(sites[i].host) = key})]]

lookup(table, h) ==
    IF normalize_host(h) \in DOMAIN table THEN table[normalize_host(h)] ELSE NoSite

\* The authority of the Location that build_redirect_url makes.
build_redirect_authority(h, https_port) ==
    strip_port_from_host(h) \o (IF https_port = "443" THEN <<>> ELSE <<":", https_port>>)

\* uri_string.parse::<Uri>(): an authority has at most one colon outside brackets.
build_upstream_uri(u) ==
    LET rest == SubSeq(u, find(u, "]") + 1, Len(u))
    IN  \A i, j \in 1..Len(rest) : rest[i] = ":" /\ rest[j] = ":" => i = j
=============================================================================
