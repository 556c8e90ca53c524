---------------------------- MODULE ConfigRules ----------------------------
(***************************************************************************)
(* The configuration file: what parsing makes of it (defaults included),   *)
(* and the rules of validate and validate_nofile.                          *)
(*                                                                         *)
(* A parsed file is a record that has the fields the file has.  validate   *)
(* returns the set of its errors; their order and wording are left out.    *)
(* Paths that are only opened are strings; the others are texts.           *)
(***************************************************************************)
EXTENDS HostNames

-----------------------------------------------------------------------------
(* Parsing.                                                                *)

LoggingDefaults == [level |-> "info", format |-> "text", log_file_path |-> ""]

StaticDefaults ==
    [listeners |-> <<>>, allow_wildcard_bind |-> FALSE, health_check_port |-> "9900",
     admin_key_path |-> <<"/", "etc", "/", "admin-key">>, shutdown_timeout_secs |-> 30,
     connection_idle_timeout_secs |-> 60, tls_handshake_timeout_secs |-> 10,
     max_connections |-> 1024, logging |-> LoggingDefaults]

ListenerDefaults == [http_port |-> "80", https_port |-> "443", sites |-> <<>>]

TlsDefaults ==
    [acme_domains |-> <<>>, acme_cache_dir |-> "", acme_directory |-> "production",
     acme_contact |-> <<>>, cert_path |-> "", key_path |-> ""]

SiteDefaults ==
    [upstream_scheme |-> "http", upstream_connect_timeout_secs |-> 5,
     upstream_request_timeout_secs |-> 60]

\* serde's default: a field that is missing gets its default value.
WithDefaults(r, defaults) ==
    [x \in DOMAIN r \cup DOMAIN defaults |-> IF x \in DOMAIN r THEN r[x] ELSE defaults[x]]

SiteConfig(s) == WithDefaults(s, SiteDefaults)

ListenerConfig(l) ==
    LET full == WithDefaults(l, ListenerDefaults)
    IN  [full EXCEPT !.tls = WithDefaults(@, TlsDefaults),
                     !.sites = [i \in 1..Len(@) |-> SiteConfig(@[i])]]

\* What the types of the structs say of the fields that a file has: lists are
\* finite, hosts and upstreams are texts, a port is a number.
WellTyped(f) ==
    "listeners" \in DOMAIN f =>
        /\ Len(f.listeners) \in Nat
        /\ \A i \in 1..Len(f.listeners) :
              LET l == f.listeners[i]
              IN  /\ "https_port" \in DOMAIN l => l.https_port # ":"
                  /\ "sites" \in DOMAIN l =>
                        /\ Len(l.sites) \in Nat
                        /\ \A j \in 1..Len(l.sites), k \in {"host", "upstream"} :
                              k \in DOMAIN l.sites[j] => l.sites[j][k] \in Seq(STRING)

\* toml::from_str fails if a field without a default is missing.
Parses(f) ==
    /\ {"rate_limit", "body"} \subseteq DOMAIN f
    /\ "listeners" \in DOMAIN f =>
         \A i \in 1..Len(f.listeners) :
            LET l == f.listeners[i]
            IN  /\ {"bind_addr", "tls"} \subseteq DOMAIN l /\ "mode" \in DOMAIN l.tls
                /\ "sites" \in DOMAIN l =>
                     \A j \in 1..Len(l.sites) : {"host", "upstream"} \subseteq DOMAIN l.sites[j]

FullConfig(f) ==
    LET full == WithDefaults(f, StaticDefaults)
    IN  [full EXCEPT !.logging = WithDefaults(@, LoggingDefaults),
                     !.listeners = [i \in 1..Len(@) |-> ListenerConfig(@[i])]]

\* into_static_and_dynamic: the sites of all listeners share one routing table.
from_sites(sites, c) ==
    [sites |-> sites, routing_table |-> build_routing_table(sites),
     rate_limit |-> c.rate_limit, body |-> c.body]

\* flat_map(|l| l.sites)
AllSites(c) ==
    LET upto[n \in 0..Len(c.listeners)] ==
            IF n = 0 THEN <<>> ELSE upto[n - 1] \o c.listeners[n].sites
    IN  upto[Len(c.listeners)]

into_dynamic(c) == from_sites(AllSites(c), c)

-----------------------------------------------------------------------------
(* Validation.                                                             *)

ValidationError ==
    {"NoListeners", "WildcardBindNotAllowed", "DuplicateHttpsBind", "DuplicateHttpBind",
     "HttpsPortInvalid", "HttpPortInvalid", "HttpsAndHttpPortSame", "AcmeDomainsEmpty", "AcmeContactInvalid",
     "ManualCertMissing", "CertPathNotReadable", "KeyPathNotReadable", "HealthCheckPortConflict",
     "SiteHostEmpty", "SiteUpstreamEmpty", "DuplicateSiteHost", "SiteHostContainsPort",
     "SiteHostInvalid", "UpstreamInvalid", "UpstreamSchemeInvalid", "RequestsPerSecondZero",
     "BodyLimitBytesZero", "AdminKeyPathNotAbsolute", "AdminKeyPathTraversal",
     "ConnectionIdleTimeoutZero", "TlsHandshakeTimeoutZero", "MaxConnectionsZero",
     "MaxConnectionsExceedsNofile"}

\* The error e, if its rule is broken.
Rule(broken, e) == IF broken THEN {e} \cap ValidationError ELSE {}

\* Mutant: a redirect port used twice on an address is not noticed.
listener_errors_unpaired(L, i, allow_wildcard) ==
    Rule(L[i].bind_addr = "0.0.0.0" /\ ~allow_wildcard, "WildcardBindNotAllowed")
    \cup Rule(\E j \in 1..(i - 1) : L[j].bind_addr = L[i].bind_addr
                                    /\ L[j].https_port = L[i].https_port, "DuplicateHttpsBind")
    \cup Rule(L[i].https_port = "0", "HttpsPortInvalid")
    \cup Rule(L[i].http_port # "0" /\ L[i].http_port = L[i].https_port, "HttpsAndHttpPortSame")

listener_errors(L, i, allow_wildcard) ==
    LET l == L[i]
        Earlier(Same(_)) == \E j \in 1..(i - 1) : L[j].bind_addr = l.bind_addr /\ Same(L[j])
    IN  Rule(l.bind_addr = "0.0.0.0" /\ ~allow_wildcard, "WildcardBindNotAllowed")
        \cup Rule(Earlier(LAMBDA k : k.https_port = l.https_port), "DuplicateHttpsBind")
        \cup Rule(l.http_port # "0" /\ Earlier(LAMBDA k : k.http_port = l.http_port),
                  "DuplicateHttpBind")
        \cup Rule(l.https_port = "0", "HttpsPortInvalid")
        \cup Rule(l.http_port # "0" /\ l.http_port = l.https_port, "HttpsAndHttpPortSame")

\* exists is the set of paths that exist; an unknown mode has no errors.
tls_errors(t, exists) ==
    CASE t.mode = "acme" ->
            Rule(t.acme_domains = <<>>, "AcmeDomainsEmpty")
            \cup Rule(\/ ~starts_with(t.acme_contact, "mailto:")
                      \/ ~Contains(Tail(t.acme_contact), "@"), "AcmeContactInvalid")
      [] t.mode = "manual" ->
            IF "" \in {t.cert_path, t.key_path} THEN {"ManualCertMissing"}
            ELSE Rule(t.cert_path \notin exists, "CertPathNotReadable")
                 \cup Rule(t.key_path \notin exists, "KeyPathNotReadable")
      [] OTHER -> {}

\* Ports only: whatever addresses the listeners have.
health_errors(c) ==
    Rule(/\ c.health_check_port # "0"
         /\ \E i \in 1..Len(c.listeners) :
               c.health_check_port \in {c.listeners[i].https_port, c.listeners[i].http_port},
         "HealthCheckPortConflict")

\* Mutant: hosts are compared as they are written.
site_errors_case_kept(sites, i) ==
    Rule(sites[i].host = <<>>, "SiteHostEmpty")
    \cup Rule(sites[i].upstream = <<>>, "SiteUpstreamEmpty")
    \cup Rule(\E j \in 1..(i - 1) : sites[j].host = sites[i].host, "DuplicateSiteHost")
    \cup Rule(Contains(sites[i].host, ":"), "SiteHostContainsPort")
    \cup Rule(~is_valid_hostname(sites[i].host), "SiteHostInvalid")
    \cup Rule(~is_valid_upstream(sites[i].upstream), "UpstreamInvalid")

site_errors(sites, i) ==
    LET s == sites[i]
    IN  Rule(s.host = <<>>, "SiteHostEmpty")
        \cup Rule(s.upstream = <<>>, "SiteUpstreamEmpty")
        \cup Rule(\E j \in 1..(i - 1) : to_lowercase(sites[j].host) = to_lowercase(s.host),
                  "DuplicateSiteHost")
        \cup Rule(Contains(s.host, ":"), "SiteHostContainsPort")
        \cup Rule(~is_valid_hostname(s.host), "SiteHostInvalid")
        \cup Rule(s.upstream # <<>> /\ ~is_valid_upstream(s.upstream), "UpstreamInvalid")
        \cup Rule(s.upstream_scheme \notin {"http", "https"}, "UpstreamSchemeInvalid")

admin_path_errors(path) ==
    IF path = <<>> THEN {}
    ELSE IF ~starts_with(path, "/") THEN {"AdminKeyPathNotAbsolute"}
    ELSE Rule(Contains(path, ".."), "AdminKeyPathTraversal")

number_errors(c) ==
    Rule(c.rate_limit.requests_per_second = 0, "RequestsPerSecondZero")
    \cup Rule(c.body.limit_bytes = 0, "BodyLimitBytesZero")
    \cup Rule(c.connection_idle_timeout_secs = 0, "ConnectionIdleTimeoutZero")
    \cup Rule(c.tls_handshake_timeout_secs = 0, "TlsHandshakeTimeoutZero")
    \cup Rule(c.max_connections = 0, "MaxConnectionsZero")

validate(c, cli_allow_wildcard_bind, exists) ==
    LET L == c.listeners
        sites == AllSites(c)
    IN  Rule(L = <<>>, "NoListeners")
        \cup (UNION {listener_errors(L, i, c.allow_wildcard_bind \/ cli_allow_wildcard_bind)
                     \cup tls_errors(L[i].tls, exists) : i \in 1..Len(L)})
        \cup health_errors(c)
        \cup (UNION {site_errors(sites, i) : i \in 1..Len(sites)})
        \cup admin_path_errors(c.admin_key_path)
        \cup number_errors(c)

RESERVED_FDS == 64

\* soft is the limit of RLIMIT_NOFILE, or -1 for none.
validate_nofile(max_connections, soft) ==
    Rule(soft >= 0 /\ max_connections + RESERVED_FDS > soft, "MaxConnectionsExceedsNofile")
=============================================================================
