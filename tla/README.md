# Verification of the reverse proxy

TLA+ specifications of this TLS-terminating reverse proxy, TLC runs that check them on
small instances, and TLAPS proofs that hold for every value of the constants. Definitions
are translated from the Rust sources; `PROJECT.json` maps each one to its lines, and lists
runs, mutants, findings, hazards and theorems.

    tlc -config MCHttpsServer.cfg MCHttpsServer     # a run
    tlapm HttpsServerProofs.tla                     # the proofs of a component

## The system and its parts

`main` loads and validates the configuration; `run_server` binds the health, redirect and
HTTPS ports, sets up TLS per listener and starts one accept loop per `[[listeners]]` entry.
All loops share one connection semaphore (`max_connections`). Every accepted connection has
a task, which owns a permit and a guard of the in-flight counter; a watchdog closes the
connection when it has been idle for a time. Its requests pass a rate limiter (a token
bucket per client), a body limit and `proxy_handler`, which forwards them to an upstream
chosen by host. SIGHUP and an admin endpoint reload the configuration, SIGUSR1 reopens the
log, and SIGTERM or SIGINT set a watch channel: `run_server` then joins the accept loops,
waits for the in-flight counter to reach zero and returns.

| Part | Source | Module |
|---|---|---|
| listeners, connection cap, in-flight counter, shutdown | `server.rs`, `main.rs` | HttpsServer, Admission |
| idle tracking of a connection | `server.rs` | IdleTracking |
| rate limiter | `rate_limit/` | RateLimiter |
| configuration reload | `config/mod.rs`, `config/dynamic_config.rs` | ConfigReload |
| signal handling | `shutdown.rs` | ControlPlane |
| proxy handler, header rewriting, body limit | `proxy/` | ProxyRequest |
| startup, command line, exit codes | `main.rs`, `cli.rs` | Startup |
| parsing, defaults, validation, FD budget | `config/` | ConfigRules |
| host normalization, routing table, upstream URIs | `config/dynamic_config.rs`, `utils.rs` | HostNames |
| HTTP redirect, TLS setup | `tls/` | Startup, HostNames |
| ACME task | `tls/acme.rs` | Startup (partly: orders belong to rustls_acme) |
| admin API, keys, health check | `admin/`, `health.rs` | AdminApi |
| log file | `logging/` | LogFile |

## The modules

**HttpsServer.** `lst`, `held` and `queue` are the accept loops, the stream each one holds
and the semaphore's FIFO queue; `conn` says how far each connection's task is; `counter`
is `InFlightCounter`; `main`, `joining`, `waited` and `elapsed` follow `run_server`.
Accepting, acquiring and spawning are separate steps because each is an await. Dropping a
task drops the permit before the guard, as Rust drops locals. Connection identifiers are
recycled, so a finite set stands for any number of connections over time.

**Admission** is the abstract specification of the connection cap: clients are admitted in
the order of their arrival, at most `max_connections` at a time. HttpsServer implements it
(`FirstComeFirstServed`): the waiting clients are the streams of the queued loops, the
admitted ones those with a permit, and tasks, guards and shutdown are stuttering steps.

**IdleTracking.** One connection: `req` and `decremented` per request, `IdleState` as
`inFlight` and `idle` (time since `last_activity`), and the watchdog's two reads before
and two tests after its sleep as separate steps. On HTTP/1 the requests run in the
connection's own task and cannot interleave with the watchdog; on HTTP/2 every stream has a
task. `quiet` is a history variable: for how long there really was no request. That hyper
drops the future of `call()` when a stream is reset is knowledge of hyper; its source is
not in this repository.

**RateLimiter.** Loading the configuration and using it under the entry's lock are two
steps; `evict_stale` visits one entry at a time. Tokens are integers in units of
`1/Unit`; the rounding of `f64` is left out. `credit` and `floor` are history variables:
ideal buckets that are never evicted, with the largest and the smallest burst and rate of
all configurations. They bound from both sides what a client gets.

**ConfigReload.** The file has versions, each with a content (a constant) abstracted to
what validation and `diff_static_config` distinguish. Writers replace it or rewrite it in
place. Each await of `read_and_validate_config`, the queue of `reload_mutex` and the two
stores are steps; an admin request may be dropped wherever it awaits.

**ControlPlane** composes ConfigReload with the signals: pending signals that merge, the
collecting thread, the bounded channel, and the task that handles one signal at a time and
awaits the reload. The order in which the thread finds signals is signal-hook's.

**ProxyRequest.** One request through rate limit, body limit, routing, the rewriting of its
headers, the upstream, and back. Every layer loads the configuration for itself, and a
reload can come between any two. A header is a field name and who set its value; a status
comes with the error kind that `into_response` gives it. The hyper client and the upstream
are external and may do anything or nothing. Requests share nothing but the configuration
and the limiter, so one is enough.

**HostNames** and **ConfigRules** are pure: texts are sequences of tokens (words, numbers,
punctuation), a configuration is a record with the fields of the file. `validate` is the
set of errors the code would collect, rule by rule; defaults are merged in as serde does.

**Startup** runs `main` from the command line to the exit, one step per await or failure:
`env` is what the process finds (files, foreign sockets, limits), `sockets`, `acceptors` and
`serving` what it has set up. Certificate files may be rewritten meanwhile, SIGTERM may come
at any moment, ACME tasks receive events and errors, and a browser follows a redirect.

**AdminApi.** A request is checked by `admin_auth_middleware` and handled in a later step.
Operators learn, rotate and save keys; the file is empty while it is saved; responses get
lost; the process crashes and restarts with the key of the file. `window` is a history
variable: everything that was stored since a request was sent.

**LogFile.** Handles have offsets of their own and files are not opened for appending. A
thread takes a handle in `make_writer` and writes later. `clean` is a history variable:
each signal followed a rename of its own, with no rename while a signal was on its way.

## The runs

Passing runs, their bounds, and why these are enough:

| Run | Instance | Shows |
|---|---|---|
| `https_server` | 2 listeners, 1 permit, 4 connections, timeout 2 | the counter is exact and no accepted stream is dropped; admission is first come, first served and never above the cap; "drained" is reported truthfully; shutdown ends, within its bound, even if clients hold on for ever; no loop starves. Both loops can queue while the permit is used, and one connection is left over |
| `idle_tracking` | either protocol, up to 3 concurrent streams, timeout 4, count up to 5 | the count covers active requests and none is cut, with resets; on HTTP/1 no close too early or too late. Frames and requests can fall on different phases of a sleep |
| `rate_limit` | 2 hosts of a /64, 2 concurrent requests, 2 configurations, thirds of a token, 8 ticks with an eviction age of 3 | budgets kept, no false rejection, no stale bucket left by a pass, with reloads in mid-request; a bucket can be emptied, evicted and made anew twice |
| `config_reload` | signal task and 1 admin request, 3 versions | stores stay together, static changes are reported once, reloads reject only what could not be started and all end, with torn files, read errors and dropped requests. Each version differs in what validation or the diff sees |
| `control_plane` | all signals, channel of 1, 2 versions, no admin requests | SIGHUP, SIGUSR1 and SIGTERM take effect despite merging, a full channel and reloads and reopens that fail |
| `proxy_request` | 2 configurations, 2 hosts, bodies up to 3 pieces | body within one configured limit, host kept, headers rewritten in both directions, the status explains what happened, every request answered |
| `startup` | up to 2 listeners; each scenario varies one part of a good configuration or of its environment | READY=1 and exit codes are truthful; what validation accepts starts and is served, with the exceptions below; redirects lead to the site asked for; SIGTERM is obeyed at any moment; ACME errors end nothing |
| `admin_api` | 2 operators, 3 keys, 2 site counts | nobody is locked out except by a lost response; every answer is the answer of one instant. Two rotations can race, and a third key is in the file |
| `log_file` | 2 threads, 4 lines, 4 files, 3 signals | rotation by rename and signal loses no line, leaves no hole, and is followed |

`control_plane` leaves admin requests to `config_reload`, which shows that a reload that
waits for them ends. `log_file` may stop: its behaviours end when lines and signals are
used up. Operators, threads, workers and requests are symmetric where no liveness property
is checked.

Runs that refute a statement of the documentation:

| Run | The code does |
|---|---|
| `idle_leak_doc` | never closes an idle connection after a stream was reset early |
| `reload_older_doc` | may apply an older file over a newer one, also when every version has its own time (`DistinctTimesSpec`) |
| `proxy_connect_doc` | applies the connect timeout up to the response's headers (open-questions.md, OQ-09, describes it as "connect + first-byte phase") |

Other places where the models follow the code and a document, comment or test says
something else; no run is kept for them:

- The in-flight guard is created in the task's first poll (`TaskStarts`), so a task that was
  spawned and not polled is not counted by the drain; operations.md:358 wants the increment
  before the spawn.
- On HTTP/2 the watchdog can run between the decrement and the touch of `release()` and close
  at the moment a request ends (`Release`, `ReleaseTouches`); a test in `server.rs` asserts
  a full timeout after a touch.
- A stream is accepted before its permit is acquired, so there is up to one socket per
  listener beyond `max_connections` (`SocketsBounded`; review 010 says "exactly").
- A listener whose join timed out is detached, not aborted (`JoinTimesOut`), and every join
  and the drain get the full timeout (`ShutdownBounded`).
- Neither upstream timeout covers the response's body (`Responds`, `BodyEnds`).
- A streamed body over the limit is answered with 502, not 413 (`BodyOverLimit`;
  proxy.md:254).
- A request whose Host header and URI authority differ is routed by the header and
  forwarded with the authority (`RequestHost`, `build_upstream_host`).
- Validation accepts and the start refuses (`CannotStart`): an unknown TLS mode, ACME without
  a cache directory, a bind address that is no IP address, a wildcard address beside
  another one on the same port, a redirect port that is another listener's HTTPS port.
  config.md:431 says of the rule on redirect ports that it "prevents bind-time errors".
- `is_valid_upstream` accepts an IPv6 address without brackets, which config.md's rule 17
  excludes and `build_upstream_uri` cannot use (`ServesWhatItAccepts`).
- The health and redirect ports serve as soon as they are bound (`BindHealth`,
  `BindRedirect`); operations.md:668 says all ports are bound before any connection is
  accepted.
- A first start in ACME mode without a certificate succeeds (`SetupTls`); tls.md says that
  it fails when the authority cannot be reached.
- Reopening truncates. A SIGUSR1 without a rename, or a second rename while a signal is on its
  way, loses lines or leaves holes, which is why `clean` is a premise (`OpenTruncated`).

## Fairness

- HttpsServer: the main task is polled and time passes. Until a shutdown is requested, tasks
  run and served connections end, which `WaitersServed` needs; the handshake timeout ends
  handshakes. After that nothing is assumed of clients.
- ConfigReload: a reload whose await is over is polled. ControlPlane adds the collecting
  thread and the signal task.
- ProxyRequest: the handler is polled, timers fire, time passes. Nothing is assumed of
  clients, of upstreams, or of when a reload happens.
- Startup: main, the signal task and the ACME tasks are polled. `CertificatesArrive` also
  assumes of the authority that an order placed again and again is fulfilled (strong
  fairness); this is an assumption on the environment, and the property is about the task
  that must go on placing orders.

The rest is what the tokio executor and the kernel scheduler provide to runnable tasks.

## The proofs

| Module | Theorems | Inductive invariant |
|---|---|---|
| HttpsServerProofs | types, permits, counter, queue, streams, sockets, truthful drain, bounded shutdown, refinement of Admission | `ServerInv` joins permits, counter, queue and held streams: a permit can be handed over only if each waiting loop is queued once and holds a stream. `ClockInv` charges one timeout to each handle already joined |
| IdleTrackingProofs | types, `CountCovers`, `ActiveNotCut`; on HTTP/1 `NoEarlyClose`, `ClosedInTime` | `IdleInv`: between the two tests after a sleep no request is active. `Http1Inv`: `last_activity` equals the true idle time, and the sleep ends before the timeout |
| RateLimiterProofs | types, `EvictionThorough`, `WithinCredit`, `NoFalseReject` | `CreditInv`: the generous ideal bucket holds at least what the real one could hold after a refill. `FloorInv`: the other one holds at most that. `ScanInv`: what was visited or inserted during a pass is fresh |
| ConfigReloadProofs | types, `StoredTogether`, `WarnsExactly`, `RejectsOnlyUnstartable`; ControlPlane implements ConfigReload, `OneAtATime` | `LockInv`: the queue lists whoever is in `reload()` once, and only its head is past the lock. `StoreInv`: what the holder knows of the stores. `TaskInv`: a reload of the signal task runs only while the task awaits it |
| ProxyRequestProofs | types, `WithinLimit`, `HostForwarded`, `HeadersForwarded`, `AnswerExplains` | `LimitInv`, `HostInv`, `HeaderInv`, `AnswerInv`: what was computed stays in force whatever is reloaded, and a request that has not reached the upstream stage has sent nothing |
| StartupProofs | types, `ReadyIsComplete`, `ExitCodes`, `AcceptedStarts`, `ServesWhatItAccepts`, `RedirectReachesSite` | `SocketInv`: the sockets are exactly those of the listeners that the loop of `main` has passed. `AcceptorInv`, `PhaseInv`: what is set up and running at each `pc`. `ConfInv`: a loaded configuration is the one of the file, and valid. `WebInv`: what a redirected browser carries leads to the site of its first Host header |
| LogFileProofs | types, `NoLineLost`, `NotSparse`, `FollowsPath` | `CleanInv`, as long as `clean` holds: one signal at a time (`OneSignal`), the current handle is on the file at the path, except from a rename to the reopening and after a failed one, when no handle is (`PathInv`), and each file has one handle, at its end (`OwnFile`); without the last, two handles could overwrite each other |
| AdminApiProofs | types, `KeyHeld`, `AnswersAtomic` | `RequestInv`: only a request with a known key is checked. `WindowInv`: a window has what is stored now. `FileInv`: as soon as anyone knows a key, someone knows the one in the file, so that overwriting the file loses none |

The assumptions on constants are the named `ASSUME`s of the modules. `WithinCredit` also
needs `AgeFillsBucket`: burst is at most rate times the eviction age. The default settings
satisfy it; `validate` does not ask for it.

`ScenariosAssumption` says of a configuration file what the types of the structs say
(`WellTyped`). `HostsAssumption` says that a Host header is a host and perhaps a port:
`strip_port_from_host` cuts at the last colon, and on a listener with port 443, whose
redirects name no port, a header with more colons outside brackets would be cut twice.

**ControlPlane and ConfigReload.** ControlPlane extends ConfigReload and shares its variables, so
the refinement needs no mapping: a signal, the thread and the task stutter, a received SIGHUP
is `Start(Sighup)`, and everything else is a step of ConfigReload. The safety theorems carry
over.

**Proofs about HostNames and ConfigRules.** `AcceptedStarts`, `ServesWhatItAccepts` and
`RedirectReachesSite` say that the rules of `validate` are enough for what the rest of the
program does with a configuration, and their proofs are about those operators:

- `ValidListeners` and `ValidSites` turn `validate(...) = {}` into facts about ports and
  hosts: no two listeners share an HTTPS socket or a redirect socket, no health port meets
  either, and no two hosts are equal in lower case. `BindFails` derives from them that a
  bind can fail only for a reason of `CannotStart` or of the environment.
- `ValidIsPlain`: a valid host name has no colon and no bracket. Hence `normalize_host` only
  lower-cases it (`NormalizePlain`), also with a port behind it (`StripPort`), every spelling
  has the same key (`SpellingsAgree`), and with distinct keys `lookup` finds the site
  (`SiteIsFound`).
- `RedirectKeepsHost`: normalizing the authority of a redirect gives what normalizing the
  Host header gives.
- `UpstreamMakesUri`: what `is_valid_upstream` accepts is a URI's authority, or starts with
  a colon.

The library's induction rules take an operator as a parameter and cannot be used, so the
lemmas that need induction (the sites of all listeners in `AllSites`, the first and the last
colon, the labels of a host) choose a least counterexample instead: `LeastElement` follows
from `WFMin` and the well-foundedness of `<` on `Nat`. Tokens are compared with the
constants of `LowerCase` and `Spellings`; as the provers do not know that a string literal is
in `STRING`, the proofs use `Token`, which is `STRING` with those literals. HostNames has
`find` and `rfind` of its own because the community modules for sequences bring many
definitions with them, which multiplies the time of these 1,850 obligations.

Only proved, and not repeated by a run: the type invariants of HttpsServer, IdleTracking,
RateLimiter, ConfigReload, ProxyRequest and LogFile, and `PermitsConserved`, `NoLostWakeup`
and `SocketsBounded` of HttpsServer and `OneAtATime` of ControlPlane. ControlPlane states no
type invariant of its own; that of ConfigReload holds in it (`SignalledReloadsAreSafe`).

Only model-checked: the liveness properties `ShutdownCompletes`, `WaitersServed`,
`ReloadEnds`, `SighupTakesEffect`, `TermObeyed` (of ControlPlane and of Startup),
`RotationFollowed`, `Answered` and `CertificatesArrive`, because liveness under fairness is
out of the prover's reach.

## Not modelled

- The accept loop's error reporter (`server.rs`), the log macros (`logging/format.rs`) and
  `warn_if_default_nofile`: they decide what is logged, not what happens. A transient accept
  error changes nothing else.
- Cipher suites and the crypto provider, TLS handshakes beyond their outcome: rustls.
- The order state machine and the cache of rustls_acme; the end of its event stream
  (`spawn_acme_state`'s `None` branch), because that stream does not end.
- The connection pool of the hyper client and the constructors of `proxy/handler.rs`; the
  layering of `proxy/mod.rs` appears as the order of the stages in ProxyRequest.
- The layers, filters and formats of tracing.
- Rounding of `f64` in the token buckets: TLC has no floating-point numbers.
- A composition of all components in one state space. Startup, HttpsServer and ControlPlane
  meet at `trigger_shutdown` and `subscribe`, which each of them has.
