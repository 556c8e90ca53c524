------------------------------ MODULE Startup ------------------------------
(***************************************************************************)
(* One run of the process, from the command line to the exit: main and     *)
(* run_server with what they call to bind ports, set up TLS and start      *)
(* tasks; the ACME tasks; SIGTERM or SIGINT at any moment; and a browser   *)
(* that is redirected to HTTPS while all this goes on.                     *)
(*                                                                         *)
(* The environment (command line, files, ports of other processes, limits) *)
(* is chosen at the start; certificate files can be rewritten while the    *)
(* process starts.  HttpsServer has the connections and the drain in       *)
(* detail, ControlPlane the signals.                                       *)
(***************************************************************************)
EXTENDS ConfigRules

CONSTANTS
    Scenarios,    \* environments: validate, wildcard, file, files, held, soft, cached
    RequestHosts, \* Host headers that the browser may send
    MaxListeners  \* bound on the number of listeners

ASSUME ScenariosAssumption ==
    \A s \in Scenarios :
        /\ s.validate \in BOOLEAN /\ s.wildcard \in BOOLEAN /\ s.soft \in Int
        /\ WellTyped(s.file)

\* A Host header is a host and perhaps a port; only a host in brackets has more
\* colons.
ASSUME HostsAssumption ==
    \A h \in RequestHosts :
        /\ h \in Seq(STRING)
        /\ IF starts_with(h, "[") THEN Contains(h, "]")
           ELSE \A i, j \in 1..Len(h) : h[i] = ":" /\ h[j] = ":" => i = j

VARIABLES
    env,        \* the environment
    files,      \* contents of the certificate and key files, by path
    pc,         \* where main is
    conf,       \* the loaded StaticConfig, or NoConfig
    table,      \* routing_table of the loaded DynamicConfig
    next,       \* index of the listener that the loop in main is at
    sockets,    \* listening sockets of the process
    acceptors,  \* ALPN protocols of the acceptors, in order
    serving,    \* the accept loops of the HTTPS listeners were spawned
    notified,   \* READY=1 was sent
    registered, \* signal handlers are registered
    term,       \* SIGTERM or SIGINT: "none", "sent", "handled"
    version,    \* version of the shutdown channel: 1 after trigger_shutdown
    seen,       \* version that main's receiver has seen
    acme,       \* per listener: the ACME task
    cert,       \* per listener: a certificate can be presented
    exit,       \* "success" (code 0), "failure" (1), "killed" or "none"
    web         \* the browser: where it is, and what it got

NoConfig == [listeners |-> <<>>]
mainVars == <<conf, table, next, sockets, acceptors, serving, notified, registered>>
taskVars == <<acme, cert>>
exitVars == <<pc, exit>>
vars == <<env, files, exitVars, mainVars, term, version, seen, taskVars, web>>

Listeners == 1..Len(conf.listeners)
Listener == conf.listeners[next]

Init ==
    /\ env \in Scenarios
    /\ files = env.files
    /\ pc = "load" /\ exit = "none"
    /\ conf = NoConfig /\ table = [h \in {} |-> NoSite] /\ next = 1
    /\ sockets = {} /\ acceptors = <<>>
    /\ serving = FALSE /\ notified = FALSE /\ registered = FALSE
    /\ term = "none" /\ version = 0 /\ seen = 0
    /\ acme = <<>> /\ cert = <<>>
    /\ web = [at |-> "idle"]

\* process::exit, or the end of main: the kernel closes the sockets.
Exit(code) ==
    /\ pc' = "exited" /\ exit' = code
    /\ sockets' = {} /\ serving' = FALSE
    /\ acme' = [i \in DOMAIN acme |-> "ended"]
    /\ UNCHANGED <<conf, table, next, acceptors, notified, registered, cert>>

Goto(label) == pc' = label /\ UNCHANGED exit

-----------------------------------------------------------------------------
(* main, up to the signal handlers.                                        *)

\* load_config, after parsing.
Accepted(c) ==
    /\ validate(c, env.wildcard, DOMAIN files) = {}
    /\ validate_nofile(c.max_connections, env.soft) = {}

\* A file that cannot be read has no fields.  --validate ends here, either way.
LoadConfig ==
    /\ pc = "load"
    /\ IF ~Parses(env.file) THEN Exit("failure")
       ELSE \E c \in {FullConfig(env.file)} :
                IF ~Accepted(c) THEN Exit("failure")
                ELSE IF env.validate THEN Exit("success")
                ELSE /\ Goto("log")
                     /\ conf' = c
                     /\ table' = into_dynamic(c).routing_table
                     /\ acme' = [i \in 1..Len(c.listeners) |-> "none"]
                     /\ cert' = [i \in 1..Len(c.listeners) |-> FALSE]
                     /\ UNCHANGED <<next, sockets, acceptors, serving, notified, registered>>
    /\ UNCHANGED <<env, files, term, version, seen, web>>

\* logging::init creates the log file; the environment may refuse.
InitLogging ==
    /\ pc = "log"
    /\ \/ Goto("register") /\ UNCHANGED <<mainVars, taskVars>>
       \/ conf.logging.log_file_path # "" /\ Exit("failure")
    /\ UNCHANGED <<env, files, term, version, seen, web>>

\* The shared state is created and register_signal_handlers called.
RegisterSignals ==
    /\ pc = "register"
    /\ Goto("key")
    /\ registered' = TRUE
    /\ UNCHANGED <<conf, table, next, sockets, acceptors, serving, notified, taskVars>>
    /\ UNCHANGED <<env, files, term, version, seen, web>>

-----------------------------------------------------------------------------
(* Binding.                                                                *)

\* What TcpListener::bind refuses: the port is in use on an address that is
\* the same or a wildcard.
Overlap(s, t) ==
    s.port = t.port /\ (s.addr = t.addr \/ "0.0.0.0" \in {s.addr, t.addr})
CanBind(s) == \A t \in sockets \cup env.held : ~Overlap(s, t)

\* The addresses that parse as a SocketAddr.
IpAddresses == {"0.0.0.0", "127.0.0.1", "10.0.0.1", "10.0.0.2"}

Socket(addr, port) == [addr |-> addr, port |-> port]
HealthSocket(c) == Socket("127.0.0.1", c.health_check_port)
RedirectSocket(l) == Socket(l.bind_addr, l.http_port)
HttpsSocket(l) == Socket(l.bind_addr, l.https_port)

\* Bind s and go on, or fail.
Bind(s, label) ==
    IF CanBind(s)
    THEN /\ Goto(label)
         /\ sockets' = sockets \cup {s}
         /\ UNCHANGED <<conf, table, next, acceptors, serving, notified, registered, taskVars>>
    ELSE Exit("failure")

Skip(label) == Goto(label) /\ UNCHANGED <<mainVars, taskVars>>

\* load_admin_key (see AdminApi) cannot fail the start; then
\* start_health_check_listener, which serves at once.
BindHealth ==
    /\ pc = "key"
    /\ IF conf.health_check_port # "0"
       THEN Bind(HealthSocket(conf), "redirect")
       ELSE Skip("redirect")
    /\ UNCHANGED <<env, files, term, version, seen, web>>

\* Mutant: a redirect port in use ends run_server without an error.
BindRedirectReturns ==
    /\ pc = "redirect"
    /\ IF Listener.http_port = "0" THEN Skip("https")
       ELSE IF ~CanBind(RedirectSocket(Listener)) THEN Exit("success")
       ELSE Bind(RedirectSocket(Listener), "https")
    /\ UNCHANGED <<env, files, term, version, seen, web>>

\* start_http_redirect_listener; it serves at once.
BindRedirect ==
    /\ pc = "redirect"
    /\ IF Listener.http_port = "0" THEN Skip("https")
       ELSE IF Listener.bind_addr \notin IpAddresses THEN Exit("failure")
       ELSE Bind(RedirectSocket(Listener), "https")
    /\ UNCHANGED <<env, files, term, version, seen, web>>

\* Mutant: a port that is in use is skipped.
BindHttpsSkips ==
    /\ pc = "https"
    /\ IF Listener.bind_addr \notin IpAddresses THEN Exit("failure")
       ELSE /\ sockets' = sockets \cup {s \in {HttpsSocket(Listener)} : CanBind(s)}
            /\ IF next < Len(conf.listeners)
               THEN Goto("redirect") /\ next' = next + 1
               ELSE Goto("tls") /\ next' = 1
            /\ UNCHANGED <<conf, table, acceptors, serving, notified, registered, taskVars>>
    /\ UNCHANGED <<env, files, term, version, seen, web>>

BindHttps ==
    /\ pc = "https"
    /\ IF Listener.bind_addr \notin IpAddresses \/ ~CanBind(HttpsSocket(Listener)) THEN Exit("failure")
       ELSE /\ sockets' = sockets \cup {HttpsSocket(Listener)}
            /\ IF next < Len(conf.listeners)
               THEN Goto("redirect") /\ next' = next + 1
               ELSE Goto("tls") /\ next' = 1
            /\ UNCHANGED <<conf, table, acceptors, serving, notified, registered, taskVars>>
    /\ UNCHANGED <<env, files, term, version, seen, web>>

-----------------------------------------------------------------------------
(* TLS.                                                                    *)

\* build_server_config and build_acme_server_config.
alpn_protocols(t) ==
    {"h2", "http/1.1"} \cup (IF t.mode = "acme" THEN {"acme-tls/1"} ELSE {})

\* build_manual_server_config: both files are opened and parsed.
Loads(path, what) == path \in DOMAIN files /\ files[path] = what

setup_tls(t) ==
    CASE t.mode = "manual" -> Loads(t.cert_path, "cert") /\ Loads(t.key_path, "key")
      [] t.mode = "acme" -> t.acme_domains # <<>> /\ t.acme_cache_dir # ""
      [] OTHER -> FALSE

\* Mutant: the loop's index goes past the last listener.
SetupTlsOverruns ==
    /\ pc = "tls"
    /\ IF ~setup_tls(Listener.tls) THEN Exit("failure")
       ELSE /\ acceptors' = Append(acceptors, alpn_protocols(Listener.tls))
            /\ acme' = [acme EXCEPT ![next] = IF Listener.tls.mode = "acme" THEN "spawned" ELSE @]
            /\ cert' = [cert EXCEPT ![next] = Listener.tls.mode = "manual"]
            /\ Goto(IF next < Len(conf.listeners) THEN "tls" ELSE "spawn")
            /\ next' = next + 1
            /\ UNCHANGED <<conf, table, sockets, serving, notified, registered>>
    /\ UNCHANGED <<env, files, term, version, seen, web>>

\* One acceptor; in ACME mode the task is spawned, in manual mode the
\* certificate is there.
SetupTls ==
    /\ pc = "tls"
    /\ IF ~setup_tls(Listener.tls) THEN Exit("failure")
       ELSE /\ acceptors' = Append(acceptors, alpn_protocols(Listener.tls))
            /\ acme' = [acme EXCEPT ![next] = IF Listener.tls.mode = "acme" THEN "spawned" ELSE @]
            /\ cert' = [cert EXCEPT ![next] = Listener.tls.mode = "manual"]
            /\ IF next < Len(conf.listeners)
               THEN Goto("tls") /\ next' = next + 1
               ELSE Goto("spawn") /\ UNCHANGED next
            /\ UNCHANGED <<conf, table, sockets, serving, notified, registered>>
    /\ UNCHANGED <<env, files, term, version, seen, web>>

\* The eviction task and the accept loops are spawned.
SpawnListeners ==
    /\ pc = "spawn"
    /\ IF Len(acceptors) # Len(conf.listeners) THEN Exit("failure")
       ELSE /\ Goto("notify")
            /\ serving' = TRUE
            /\ UNCHANGED <<conf, table, next, sockets, acceptors, notified, registered, taskVars>>
    /\ UNCHANGED <<env, files, term, version, seen, web>>

NotifyReady ==
    /\ pc = "notify"
    /\ Goto("subscribe")
    /\ notified' = TRUE
    /\ UNCHANGED <<conf, table, next, sockets, acceptors, serving, registered, taskVars>>
    /\ UNCHANGED <<env, files, term, version, seen, web>>

-----------------------------------------------------------------------------
(* Shutdown.                                                               *)

\* Mutant: the receiver is made by the sender and starts at the version of
\* that moment.
subscribe_from_sender == version

\* A clone of the receiver that GracefulShutdown keeps and never reads.
subscribe == 0

Subscribe ==
    /\ pc = "subscribe"
    /\ Goto("wait")
    /\ seen' = subscribe
    /\ UNCHANGED <<env, files, mainVars, term, version, taskVars, web>>

\* shutdown_rx.changed() returns.
SeesShutdown ==
    /\ pc = "wait"
    /\ version # seen
    /\ Goto("drain")
    /\ seen' = version
    /\ UNCHANGED <<env, files, mainVars, term, version, taskVars, web>>

\* The listeners are joined, the requests drained (HttpsServer).
Drained ==
    /\ pc = "drain"
    /\ Exit("success")
    /\ UNCHANGED <<env, files, term, version, seen, web>>

\* Without a handler the signal kills the process.
Signalled ==
    /\ pc # "exited" /\ term = "none"
    /\ term' = "sent"
    /\ IF registered THEN UNCHANGED <<exitVars, mainVars, taskVars>> ELSE Exit("killed")
    /\ UNCHANGED <<env, files, version, seen, web>>

\* The signal task: trigger_shutdown.
TriggerShutdown ==
    /\ pc # "exited" /\ registered /\ term = "sent"
    /\ term' = "handled" /\ version' = 1
    /\ UNCHANGED <<env, files, exitVars, mainVars, seen, taskVars, web>>

-----------------------------------------------------------------------------
(* ACME tasks: spawn_acme_state.  The state machine of rustls_acme, and    *)
(* the authority behind it, are external.                                  *)

\* The task is polled for the first time; a cached certificate is deployed.
AcmeStarts(i) ==
    /\ acme[i] = "spawned"
    /\ acme' = [acme EXCEPT ![i] = "ordering"]
    /\ cert' = [cert EXCEPT ![i] = env.cached]
    /\ UNCHANGED <<env, files, exitVars, mainVars, term, version, seen, web>>

\* DeployedNewCert: the authority reached the listener by acme-tls/1.
AcmeDeploys(i) ==
    /\ acme[i] = "ordering"
    /\ serving /\ "acme-tls/1" \in acceptors[i]
    /\ acme' = [acme EXCEPT ![i] = "waiting"]
    /\ cert' = [cert EXCEPT ![i] = TRUE]
    /\ UNCHANGED <<env, files, exitVars, mainVars, term, version, seen, web>>

\* Mutant: an error ends the task.
AcmeErrorEnds(i) ==
    /\ acme[i] = "ordering"
    /\ acme' = [acme EXCEPT ![i] = "ended"]
    /\ UNCHANGED <<env, files, exitVars, mainVars, term, version, seen, cert, web>>

\* An EventError is logged; the state machine waits before it tries again.
AcmeError(i) ==
    /\ acme[i] = "ordering"
    /\ acme' = [acme EXCEPT ![i] = "waiting"]
    /\ UNCHANGED <<env, files, exitVars, mainVars, term, version, seen, cert, web>>

\* The backoff is over, or the certificate is due for renewal.
AcmeOrders(i) ==
    /\ acme[i] = "waiting"
    /\ acme' = [acme EXCEPT ![i] = "ordering"]
    /\ UNCHANGED <<env, files, exitVars, mainVars, term, version, seen, cert, web>>

AcmeStops(i) ==
    /\ acme[i] \in {"ordering", "waiting"}
    /\ version # subscribe
    /\ acme' = [acme EXCEPT ![i] = "ended"]
    /\ UNCHANGED <<env, files, exitVars, mainVars, term, version, seen, cert, web>>

-----------------------------------------------------------------------------
(* The rest of the environment.                                            *)

\* A certificate or key file is rewritten in place, and is complete again.
Rewrite(p) ==
    /\ env.files[p] \in {"cert", "key"}
    /\ \A q \in DOMAIN files \ {p} : files[q] # "partial"
    /\ pc \notin {"spawn", "notify", "subscribe", "wait", "drain", "exited"}
    /\ files' = [files EXCEPT ![p] = IF @ = "partial" THEN env.files[p] ELSE "partial"]
    /\ UNCHANGED <<env, exitVars, mainVars, term, version, seen, taskVars, web>>

\* Mutant: the port of the request is kept in front of the new one.
redirect_keeps_port(h, path, https_port) ==
    IF h = <<>> THEN [at |-> "400"]
    ELSE IF path = "challenge" THEN [at |-> "404"]
    ELSE [at |-> "301", host |-> h,
          authority |-> h \o (IF https_port = "443" THEN <<>> ELSE <<":", https_port>>)]

\* A Host header that is empty counts as missing.
redirect_handler(h, path, https_port) ==
    IF h = <<>> THEN [at |-> "400"]
    ELSE IF path = "challenge" THEN [at |-> "404"]
    ELSE [at |-> "301", host |-> h, authority |-> build_redirect_authority(h, https_port)]

\* A browser asks over HTTP, and follows the redirect when the HTTPS side
\* answers.
Browse(i, h, path) ==
    /\ web.at = "idle"
    /\ conf.listeners[i].http_port # "0" /\ RedirectSocket(conf.listeners[i]) \in sockets
    /\ web' = redirect_handler(h, path, conf.listeners[i].https_port)
    /\ UNCHANGED <<env, files, exitVars, mainVars, term, version, seen, taskVars>>

Follow ==
    /\ web.at = "301" /\ serving
    /\ web' = [at |-> "https", host |-> web.host, site |-> lookup(table, web.authority)]
    /\ UNCHANGED <<env, files, exitVars, mainVars, term, version, seen, taskVars>>

-----------------------------------------------------------------------------

MainStep ==
    \/ LoadConfig \/ InitLogging \/ RegisterSignals
    \/ BindHealth \/ BindRedirect \/ BindHttps
    \/ SetupTls \/ SpawnListeners \/ NotifyReady
    \/ Subscribe \/ SeesShutdown \/ Drained

AcmeStep(i) ==
    AcmeStarts(i) \/ AcmeDeploys(i) \/ AcmeError(i) \/ AcmeOrders(i) \/ AcmeStops(i)

Exited == pc = "exited" /\ UNCHANGED vars

Next ==
    \/ MainStep
    \/ Signalled \/ TriggerShutdown
    \/ \E i \in DOMAIN acme : AcmeStep(i)
    \/ \E p \in DOMAIN files : Rewrite(p)
    \/ \E i \in Listeners, h \in RequestHosts, path \in {"page", "challenge"} : Browse(i, h, path)
    \/ Follow
    \/ Exited

Spec == Init /\ [][Next]_vars

\* The runtime runs main, the signal task and the ACME tasks; an order that is
\* placed again and again is fulfilled in the end, once the listener is there.
FairSpec ==
    /\ Spec
    /\ WF_vars(MainStep) /\ WF_vars(TriggerShutdown)
    /\ \A i \in 1..MaxListeners : /\ WF_vars(i \in DOMAIN acme /\ (AcmeStarts(i) \/ AcmeOrders(i)))
                       /\ SF_vars(i \in DOMAIN acme /\ AcmeDeploys(i))

-----------------------------------------------------------------------------
(* Properties.                                                             *)

TypeOK ==
    /\ DOMAIN files = DOMAIN env.files
    /\ pc \in {"load", "log", "register", "key", "redirect", "https", "tls", "spawn", "notify",
               "subscribe", "wait", "drain", "exited"}
    /\ exit \in {"none", "killed", "success", "failure"} /\ (exit # "none" <=> pc = "exited")
    /\ next \in Listeners \cup {1}
    /\ {serving, notified, registered} \subseteq BOOLEAN
    /\ term \in {"none", "sent", "handled"} /\ version \in {0, 1} /\ seen \in {0, 1}
    /\ DOMAIN acme = Listeners /\ DOMAIN cert = Listeners

ListenerSockets(l) ==
    {HttpsSocket(l)} \cup (IF l.http_port # "0" THEN {RedirectSocket(l)} ELSE {})
WantedSockets(c) ==
    (UNION {ListenerSockets(c.listeners[i]) : i \in 1..Len(c.listeners)})
        \cup (IF c.health_check_port # "0" THEN {HealthSocket(c)} ELSE {})

\* READY=1 means what it says: every configured port is bound, and every
\* listener has its acceptor and runs (run_server).
ReadyIsComplete ==
    notified /\ pc # "exited" =>
        sockets = WantedSockets(conf) /\ serving /\ Len(acceptors) = Len(conf.listeners)

\* The supervisor can trust the exit code: a failure only from a start that failed
\* before READY=1, success only after a complete start and a shutdown that was asked
\* for, or from --validate (main).
ExitCodes ==
    /\ exit = "failure" => ~notified
    /\ exit = "success" => env.validate \/ (notified /\ version = 1)

\* What validation lets through and no start can satisfy.
CannotStart(c) ==
    LET L == c.listeners
    IN  \/ \E i \in 1..Len(L) :
            \/ L[i].bind_addr \notin IpAddresses
            \/ L[i].tls.mode \notin {"manual", "acme"}
            \/ L[i].tls.mode = "acme" /\ L[i].tls.acme_cache_dir = ""
        \/ \E i, j \in 1..Len(L) :
            \/ /\ L[i].bind_addr # L[j].bind_addr
               /\ \E s \in ListenerSockets(L[i]), t \in ListenerSockets(L[j]) : Overlap(s, t)
            \/ i # j /\ HttpsSocket(L[i]) = RedirectSocket(L[j])

\* What the environment can do to a good configuration.
EnvironmentFails(c) ==
    \/ c.logging.log_file_path # ""
    \/ \E s \in WantedSockets(c), t \in env.held : Overlap(s, t)
    \/ \E i \in 1..Len(c.listeners) :
          LET t == c.listeners[i].tls
          IN  t.mode = "manual" /\ ~(Loads(t.cert_path, "cert") /\ Loads(t.key_path, "key"))

\* A configuration that validation accepts starts, unless the environment
\* prevents it or it is one of the kinds that validation cannot tell
\* (validate against setup_tls and the binds of run_server).  In particular
\* the rules on ports keep the health port and the ports of one kind apart.
AcceptedStarts == exit = "failure" /\ conf # NoConfig => CannotStart(conf) \/ EnvironmentFails(conf)

\* The ways in which clients write a host.
UpperCase(h) ==
    [i \in 1..Len(h) |->
        IF \E u \in DOMAIN LowerCase : LowerCase[u] = h[i]
        THEN CHOOSE u \in DOMAIN LowerCase : LowerCase[u] = h[i] ELSE h[i]]
Spellings(h) ==
    UNION {{g, g \o <<":", "443">>, g \o <<":", "8443">>} : g \in {h, to_lowercase(h), UpperCase(h)}}

\* A configuration that starts is served completely: every site that
\* validation accepted is found by its host, however a client writes it, and
\* has an upstream that makes a URI, unless it is an IPv6 address without
\* brackets (validate against build_routing_table, lookup, build_upstream_uri).
ServesWhatItAccepts ==
    pc = "notify" => \A i \in 1..Len(AllSites(conf)) :
        LET s == AllSites(conf)[i]
        IN  /\ \A h \in Spellings(s.host) : lookup(table, h) = s
            /\ build_upstream_uri(s.upstream) \/ s.upstream[1] = ":"

\* A browser that follows the redirect gets the site it asked for, whatever
\* port and case its Host header has (redirect_handler against lookup).
RedirectReachesSite == web.at = "https" => web.site = lookup(table, web.host)

\* A process that is told to stop does so, no matter how far its start is: the
\* receiver of main sees a shutdown from before it subscribed (subscribe).
TermObeyed == (term = "sent") ~> (pc = "exited")

HasCertificate(i) == i \in DOMAIN cert /\ cert[i]

\* Errors of ACME end nothing: every ACME listener that serves has a
\* certificate in the end, unless the process stops (spawn_acme_state).
CertificatesArrive ==
    \A i \in 1..MaxListeners :
        (serving /\ i \in Listeners) ~> (pc = "exited" \/ version = 1 \/ HasCertificate(i))
=============================================================================
