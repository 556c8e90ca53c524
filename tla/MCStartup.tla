----------------------------- MODULE MCStartup -----------------------------
(***************************************************************************)
(* Environments for Startup.  Each set varies one part of a configuration  *)
(* and keeps the rest, so that every rule meets the values that break it   *)
(* without multiplying the parts with each other.                          *)
(***************************************************************************)
EXTENDS Startup, TLC

git == <<"git", ".", "alk">>
alk == <<"Alk", ".", "dev">>
local == <<"10", ".", "0", ".", "0", ".", "10", ":", "80">>

MCSite(h, u) == [host |-> h, upstream |-> u]
GitSite == MCSite(git, local)
AlkSite == MCSite(alk, <<"alk", ":", "8443">>)

Contact == <<"mailto:", "git", "@", "alk">>
Manual == [mode |-> "manual", cert_path |-> "cert.pem", key_path |-> "key.pem"]
Acme == [mode |-> "acme", acme_domains |-> <<"alk">>, acme_cache_dir |-> "cache",
         acme_contact |-> Contact]

\* Fields with a default are left out where the default is meant.
First == [bind_addr |-> "10.0.0.1", tls |-> Manual, sites |-> <<GitSite>>]
Second == [bind_addr |-> "10.0.0.2", https_port |-> "8443", tls |-> Acme, sites |-> <<AlkSite>>]

Base == [listeners |-> <<First, Second>>, rate_limit |-> [requests_per_second |-> 10, burst |-> 0],
         body |-> [limit_bytes |-> 1]]

BaseFiles == [x \in {"cert.pem", "key.pem", "bad.pem"} |->
                 CASE x = "cert.pem" -> "cert" [] x = "key.pem" -> "key" [] OTHER -> "bad"]

Scenario(f) ==
    [validate |-> FALSE, wildcard |-> FALSE, file |-> f, files |-> BaseFiles, held |-> {},
     soft |-> -1, cached |-> FALSE]

With(l1, l2) == [Base EXCEPT !.listeners = <<l1, l2>>]

\* Addresses and ports of two listeners.
PortFiles ==
    LET Ports(a, h, s) == [bind_addr |-> a, http_port |-> h, https_port |-> s]
    IN  {With(Ports(a, h, s) @@ First, Ports(b, "80", t) @@ Second) :
            a \in {"10.0.0.1", "0.0.0.0"}, b \in {"10.0.0.1", "10.0.0.2"},
            h \in {"0", "80"}, s \in {"443", "80"}, t \in {"443", "80", "8443"}}
        \cup {With([bind_addr |-> "localhost"] @@ First, Second),
              With([https_port |-> "0"] @@ First, Second)}
        \cup {[health_check_port |-> p] @@ Base : p \in {"0", "443", "80"}}

TlsFiles ==
    {With([tls |-> t] @@ First, Second) : t \in
        {[cert_path |-> p, key_path |-> q] @@ Manual :
            p \in {"", "cert.pem", "bad.pem", "none.pem"}, q \in {"key.pem", "none.pem"}}
        \cup {[x \in {"mode"} |-> "auto"]}
        \cup {[acme_domains |-> <<>>] @@ Acme, [acme_cache_dir |-> ""] @@ Acme, Acme}
        \cup {[acme_contact |-> c] @@ Acme : c \in {<<>>, <<"git", "@">>, <<"mailto:", "git">>}}}

HostTexts == {<<>>, <<"-">>, <<"GIT", ".", "alk">>, <<"git", "-", "10">>, <<"git", "-">>,
              <<"git", ".", ".", "alk">>, <<"git", ".", "-">>, <<"git", "_">>, <<"alk", ":", "80">>,
              <<"[", ":", ":", "10", "]">>, <<"10", ".", "0", ".", "0", ".", "80">>}
UpstreamTexts == {<<>>, <<"alk">>, <<":", "80">>, <<"alk", ":", "70000">>, <<"alk", ":", "0">>,
                  <<"http://", "alk", ":", "80">>, <<"[", ":", ":", "10", "]", ":", "80">>,
                  <<":", ":", "10", ":", "80">>, <<"[", "alk", "]", ":", "80">>}

SiteFiles ==
    {With([sites |-> <<s>>] @@ First, [sites |-> <<GitSite>>] @@ Second) : s \in
        {MCSite(h, local) : h \in HostTexts} \cup {MCSite(alk, u) : u \in UpstreamTexts}
        \cup {[upstream_scheme |-> "ftp"] @@ AlkSite}}

OtherFiles ==
    {[x \in DOMAIN Base \ {k} |-> Base[x]] : k \in {"rate_limit", "body", "listeners"}}
    \cup {[rate_limit |-> [requests_per_second |-> 0, burst |-> 1]] @@ Base,
          [body |-> [limit_bytes |-> 0]] @@ Base,
          [connection_idle_timeout_secs |-> 0] @@ Base, [tls_handshake_timeout_secs |-> 0] @@ Base,
          [logging |-> [log_file_path |-> "log"]] @@ Base}
    \cup {[max_connections |-> n] @@ Base : n \in {0, 64, 65}}
    \cup {[admin_key_path |-> p] @@ Base :
             p \in {<<>>, <<"key">>, <<"/", "key">>, <<"/", "..", "/", "key">>}}

MCScenarios ==
    {Scenario(f) : f \in TlsFiles \cup SiteFiles \cup OtherFiles}
    \cup {[Scenario(f) EXCEPT !.wildcard = w] : f \in PortFiles, w \in BOOLEAN}
    \cup {[Scenario([max_connections |-> n] @@ Base) EXCEPT !.soft = 128] : n \in {64, 65}}
    \cup {[Scenario(Base) EXCEPT !.held = {Socket(a, p)}] :
             a \in {"0.0.0.0", "10.0.0.2"}, p \in {"80", "8443", "9900"}}
    \cup {[Scenario(Base) EXCEPT !.validate = TRUE], [Scenario(Base) EXCEPT !.cached = TRUE],
          Scenario([x \in {} |-> 0])}

MCHosts == {<<>>, UpperCase(git) \o <<":", "80">>, alk, <<"[", ":", ":", "10", "]", ":", "80">>}
=============================================================================
