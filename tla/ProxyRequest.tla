---------------------------- MODULE ProxyRequest ----------------------------
(***************************************************************************)
(* The life of one request: rate limit middleware, body limit middleware,  *)
(* proxy_handler, the upstream, and the response on its way back.          *)
(* Requests share only the rate limiter (RateLimiter) and the              *)
(* configuration, which can be reloaded between any two steps.             *)
(*                                                                         *)
(* The hyper client and the upstream behind it are external: they may      *)
(* connect, fail, answer or stay silent at any time.  Host names are       *)
(* normalized already (HostNames).  A header map is a function from the    *)
(* names of its fields to who set them; the Host field is kept apart.      *)
(***************************************************************************)
EXTENDS Integers

CONSTANTS
    Hosts,         \* host names
    NoHost,        \* absence of a host
    EmptyHost,     \* a Host header that is there and empty
    NoSite,        \* absence of a site
    Configs,       \* dynamic configurations: limit, and sites by host
    Shapes,        \* requests: header, authority, declared, size, fields
    Replies,       \* the names of the fields an upstream may answer with
    DefaultLimit,  \* DEFAULT_BODY_LIMIT_BYTES
    MaxAge         \* bound on the time since the upstream request started

NoLength == -1

SiteType == [upstream : Nat, connect : Nat, request : Nat]
ASSUME ConfigsAssumption ==
    /\ Configs # {} /\ {NoHost, EmptyHost} \cap Hosts = {} /\ NoSite \notin SiteType
    /\ Configs \subseteq [limit : Nat, sites : [Hosts -> SiteType \cup {NoSite}]]
\* A declared length is the size of the body: hyper enforces it.
ASSUME ShapesAssumption ==
    /\ Shapes # {}
    /\ Shapes \subseteq [header : Hosts \cup {NoHost, EmptyHost}, authority : Hosts \cup {NoHost},
                         declared : Nat \cup {NoLength}, size : Nat, fields : SUBSET STRING]
    /\ \A q \in Shapes : q.declared \in {NoLength, q.size}
ASSUME RepliesAssumption == Replies # {} /\ Replies \subseteq SUBSET STRING
\* The bound on time is past the first timeout of every site.
ASSUME BoundsAssumption ==
    /\ DefaultLimit \in Nat /\ MaxAge \in Nat
    /\ \A c \in Configs : \A h \in Hosts :
          c.sites[h] # NoSite => c.sites[h].connect <= MaxAge \/ c.sites[h].request <= MaxAge

VARIABLES
    config,     \* the DynamicConfig in ArcSwap
    stage,      \* where the request is
    req,        \* the request
    limit,      \* the body limit that the middleware computed
    site,       \* the site that proxy_handler looked up
    routed,     \* history: the host it was looked up by
    forwarded,  \* the Host header of the upstream request
    headers,    \* its other header fields
    returned,   \* the header fields of the upstream's answer, as passed on
    connected,  \* the client has a connection to the upstream
    sent,       \* how much of the body the upstream got
    age,        \* time since the upstream request started
    status      \* the answer; 200 stands for the upstream's own

requestVars == <<req, limit, site, routed, forwarded, headers>>
upstreamVars == <<connected, sent, age, returned>>
vars == <<config, stage, requestVars, upstreamVars, status>>

NoFields == [n \in {} |-> "client"]

Init ==
    /\ config \in Configs
    /\ stage = "new"
    /\ req \in Shapes
    /\ limit = 0
    /\ site = NoSite /\ routed = NoHost /\ forwarded = NoHost /\ headers = NoFields
    /\ returned = NoFields
    /\ connected = FALSE /\ sent = 0 /\ age = 0
    /\ status = 0

\* The status of each ProxyError.
status_code ==
    [BadGateway |-> 502, GatewayTimeout |-> 504, TooManyRequests |-> 429, UpstreamConnection |-> 502,
     UpstreamTimeout |-> 504, UnknownHost |-> 404, MissingHost |-> 400]

Answer(code) == stage' = "done" /\ status' = code
into_response(error) == Answer(status_code[error])

\* A reload stores another configuration; the request keeps what it loaded.
Reload(c) ==
    /\ stage \notin {"done", "gone"}
    /\ config' = c
    /\ UNCHANGED <<stage, requestVars, upstreamVars, status>>

-----------------------------------------------------------------------------
(* Middleware and handler.                                                 *)

\* rate_limit_middleware: check_and_consume decides.
RateLimit ==
    /\ stage = "new"
    /\ \/ Answer(429)
       \/ stage' = "admitted" /\ UNCHANGED status
    /\ UNCHANGED <<config, requestVars, upstreamVars>>

\* The limit in force; 0 means the default.
EffectiveLimit(n) == IF n = 0 THEN DefaultLimit ELSE n

\* body_limit_middleware: early rejection by Content-Length, or a Limited body.
LimitBody ==
    /\ stage = "admitted"
    /\ limit' = EffectiveLimit(config.limit)
    /\ IF req.declared > EffectiveLimit(config.limit)
       THEN Answer(413)
       ELSE stage' = "limited" /\ UNCHANGED status
    /\ UNCHANGED <<config, req, site, routed, forwarded, headers, upstreamVars>>

\* The Host header if it is there, else the host of the URI.
RequestHost(q) == IF q.header # NoHost THEN q.header ELSE q.authority

\* Mutant: the Host header alone is forwarded.
build_upstream_host_header(q) == q.header

\* The Host header of the upstream request: the URI's authority, then the Host
\* header.
build_upstream_host(q) == IF q.authority # NoHost THEN q.authority ELSE q.header

HOP_BY_HOP == {"connection", "keep-alive", "proxy-authorization", "proxy-authenticate", "te",
               "trailers", "transfer-encoding", "upgrade"}
ProxySet == {"x-real-ip", "x-forwarded-for", "x-forwarded-proto"}

client_headers(q) == [n \in q.fields |-> "client"]

remove_hop_by_hop(h) == [n \in DOMAIN h \ HOP_BY_HOP |-> h[n]]

\* Mutant: a field that is there already is kept.
inject_proxy_headers_missing(h) ==
    [n \in DOMAIN h \cup ProxySet |-> IF n \in DOMAIN h THEN h[n] ELSE "proxy"]

\* HeaderMap::insert replaces what the client sent.
inject_proxy_headers(h) ==
    [n \in DOMAIN h \cup ProxySet |-> IF n \in ProxySet THEN "proxy" ELSE h[n]]

\* proxy_handler up to sending the upstream request.
Route ==
    LET host == RequestHost(req)
        s == config.sites[host]
    IN  /\ stage = "limited"
        /\ IF host \in {NoHost, EmptyHost} THEN into_response("MissingHost") /\ UNCHANGED requestVars
           ELSE IF s = NoSite THEN into_response("UnknownHost") /\ UNCHANGED requestVars
           ELSE /\ stage' = "requesting"
                /\ routed' = host /\ site' = s
                /\ forwarded' = build_upstream_host(req)
                /\ headers' = remove_hop_by_hop(inject_proxy_headers(client_headers(req)))
                /\ UNCHANGED <<req, limit, status>>
        /\ UNCHANGED <<config, upstreamVars>>

\* build_upstream_uri or build_upstream_request fails.
RouteFails ==
    /\ stage = "limited"
    /\ RequestHost(req) \in Hosts /\ config.sites[RequestHost(req)] # NoSite
    /\ Answer(502)
    /\ UNCHANGED <<config, requestVars, upstreamVars>>

-----------------------------------------------------------------------------
(* The upstream request: client.request(upstream_req) under two timeouts.  *)

\* A new connection, or one of the pool.
Connects ==
    /\ stage = "requesting" /\ ~connected
    /\ connected' = TRUE
    /\ UNCHANGED <<config, stage, requestVars, sent, age, returned, status>>

\* Mutant: the body is not wrapped.
SendChunkUnlimited ==
    /\ stage = "requesting" /\ connected
    /\ sent < req.size
    /\ sent' = sent + 1
    /\ UNCHANGED <<config, stage, requestVars, connected, age, returned, status>>

\* The client pulls a piece of the body through Limited.
SendChunk ==
    /\ stage = "requesting" /\ connected
    /\ sent < req.size /\ sent < limit
    /\ sent' = sent + 1
    /\ UNCHANGED <<config, stage, requestVars, connected, age, returned, status>>

\* request() returns an error: connecting failed (also by the connector's own
\* ceiling), or the upstream or the request's body broke off.
RequestFails ==
    /\ stage = "requesting"
    /\ \E e \in {"UpstreamConnection", "BadGateway"} :
          /\ connected => e = "BadGateway"
          /\ into_response(e)
    /\ UNCHANGED <<config, requestVars, upstreamVars>>

\* Limited refuses the next piece, which makes request() return an error too.
BodyOverLimit ==
    /\ stage = "requesting" /\ connected
    /\ sent = limit /\ sent < req.size
    /\ into_response("BadGateway")
    /\ UNCHANGED <<config, requestVars, upstreamVars>>

\* request() returns when the response's headers are there; they are passed on
\* without the hop-by-hop fields and the upstream's Server field.
Responds ==
    /\ stage = "requesting" /\ connected
    /\ \E names \in Replies :
          LET h == remove_hop_by_hop([n \in names |-> "upstream"])
          IN  returned' = [n \in DOMAIN h \ {"server"} |-> h[n]]
    /\ stage' = "streaming" /\ status' = 200
    /\ UNCHANGED <<config, requestVars, connected, sent, age>>

ConnectTimeout == site.connect
RequestTimeout == site.request

\* Mutant: the connect timeout is left to the connector.
TimerDueOuter == age >= RequestTimeout

TimerDue == age >= ConnectTimeout \/ age >= RequestTimeout

\* Mutant: the timeout is for connecting only.
TimesOutConnecting ==
    /\ stage = "requesting" /\ ~connected
    /\ age >= ConnectTimeout
    /\ into_response("UpstreamTimeout")
    /\ UNCHANGED <<config, requestVars, upstreamVars>>

\* The inner or the outer timeout; both wrap all of request().
TimesOut ==
    /\ stage = "requesting"
    /\ TimerDue
    /\ into_response("UpstreamTimeout")
    /\ UNCHANGED <<config, requestVars, upstreamVars>>

\* The response's body ends, or the upstream breaks off.
BodyEnds ==
    /\ stage = "streaming"
    /\ stage' = "done"
    /\ UNCHANGED <<config, requestVars, upstreamVars, status>>

\* The client goes away and the handler or the response is dropped.
ClientGone ==
    /\ stage \notin {"done", "gone"}
    /\ stage' = "gone"
    /\ UNCHANGED <<config, requestVars, upstreamVars, status>>

\* A timer fires before time goes on.
Tick ==
    /\ stage \in {"requesting", "streaming"} /\ age < MaxAge
    /\ stage = "requesting" => ~TimerDue
    /\ age' = age + 1
    /\ UNCHANGED <<config, stage, requestVars, connected, sent, returned, status>>

-----------------------------------------------------------------------------

Finished == stage \in {"done", "gone"} /\ UNCHANGED vars

Next ==
    \/ \E c \in Configs : Reload(c)
    \/ RateLimit \/ LimitBody \/ Route \/ RouteFails
    \/ Connects \/ SendChunk \/ RequestFails \/ BodyOverLimit \/ Responds \/ TimesOut \/ BodyEnds
    \/ ClientGone \/ Tick
    \/ Finished

Spec == Init /\ [][Next]_vars

\* The executor runs the handler and its timers, and time passes; the client
\* and the upstream owe nothing.
FairSpec ==
    /\ Spec
    /\ WF_vars(RateLimit) /\ WF_vars(LimitBody) /\ WF_vars(Route)
    /\ WF_vars(TimesOut) /\ WF_vars(Tick)

-----------------------------------------------------------------------------
(* Properties.                                                             *)

TypeOK ==
    /\ config \in Configs
    /\ stage \in {"new", "admitted", "limited", "requesting", "streaming", "done", "gone"}
    /\ req \in Shapes
    /\ limit \in Nat
    /\ site \in SiteType \cup {NoSite}
    /\ stage \in {"requesting", "streaming"} => site \in SiteType
    /\ {routed, forwarded} \subseteq Hosts \cup {NoHost}
    /\ headers \in [DOMAIN headers -> {"client", "proxy"}]
    /\ returned \in [DOMAIN returned -> {"upstream"}]
    /\ connected \in BOOLEAN
    /\ sent \in 0..req.size
    /\ age \in 0..MaxAge
    /\ status \in {0, 200, 400, 404, 413, 429, 502, 504}

\* The upstream never gets more of a body than a limit that was configured
\* while the request was served allows, and nothing of a body that declares
\* more; a limit of 0 in the configuration is the default
\* (body_limit_middleware).
WithinLimit ==
    stage \in {"requesting", "streaming"} =>
        /\ sent <= limit
        /\ req.declared <= limit
        /\ \E c \in Configs : limit = EffectiveLimit(c.limit)

\* A request with one source for its host, be it HTTP/1 or HTTP/2, is forwarded
\* with the host it was routed by (build_upstream_request).
HostForwarded ==
    stage \in {"requesting", "streaming"} /\ (req.header = NoHost \/ req.authority = NoHost) =>
        forwarded = routed

\* What an upstream sees of a request are the client's end-to-end fields and
\* the three that the proxy vouches for, these never with a client's value; what
\* the client sees are the upstream's end-to-end fields without Server
\* (inject_proxy_headers, remove_hop_by_hop).
HeadersForwarded ==
    /\ stage \in {"requesting", "streaming"} =>
          /\ DOMAIN headers = (req.fields \ HOP_BY_HOP) \cup ProxySet
          /\ \A n \in DOMAIN headers : headers[n] = "proxy" <=> n \in ProxySet
    /\ DOMAIN returned \cap (HOP_BY_HOP \cup {"server"}) = {}
    /\ \A n \in DOMAIN returned : returned[n] = "upstream"

\* An answer says what became of the request.  Whoever is turned away by a
\* middleware, for its host or for its length has reached no upstream; 413 is
\* for a declared length over the limit and 404 for a host that a configuration
\* does not serve; 504 comes when the first of the two timeouts is over, not
\* earlier and not later (ProxyError, proxy_handler).
AnswerExplains ==
    /\ status \in {0, 400, 404, 413, 429} /\ stage = "done" => ~connected /\ sent = 0 /\ site = NoSite
    /\ status = 413 => req.declared > limit
    /\ status = 400 => RequestHost(req) \in {NoHost, EmptyHost}
    /\ status = 404 => \E c \in Configs : c.sites[RequestHost(req)] = NoSite
    /\ status = 504 => /\ age = ConnectTimeout \/ age = RequestTimeout
                       /\ age <= ConnectTimeout /\ age <= RequestTimeout

\* A request is answered or its client goes away, even if the upstream never
\* says anything: one of the two timeouts ends the wait for its headers.
Answered == stage = "new" ~> stage \in {"streaming", "done", "gone"}

\* docs/architecture/decisions/017-upstream-connection-defaults.md: the connect
\* timeout "applies to establishing a TCP connection to the upstream".  The code
\* does not meet this.
ConnectTimeoutIsForConnecting ==
    status = 504 /\ age < RequestTimeout => ~connected
=============================================================================
