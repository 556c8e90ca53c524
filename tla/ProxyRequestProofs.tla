------------------------- MODULE ProxyRequestProofs -------------------------
(***************************************************************************)
(* TypeOK, WithinLimit, HostForwarded, HeadersForwarded and AnswerExplains *)
(* for all configurations, request shapes, replies and bounds.             *)
(***************************************************************************)
EXTENDS ProxyRequest, TLAPS

\* What holds from the body limit on, whatever is reloaded, and what holds of
\* the hosts from routing on.
LimitInv ==
    /\ stage \in {"new", "admitted", "limited"} => sent = 0
    /\ stage \in {"limited", "requesting", "streaming"} =>
        /\ sent <= limit
        /\ req.declared <= limit
        /\ \E c \in Configs : limit = EffectiveLimit(c.limit)

HostInv ==
    stage \in {"requesting", "streaming"} =>
        routed = RequestHost(req) /\ forwarded = build_upstream_host(req)

HeaderInv ==
    /\ headers \in [DOMAIN headers -> {"client", "proxy"}]
    /\ returned \in [DOMAIN returned -> {"upstream"}]
    /\ HeadersForwarded

\* Nothing is answered or sent before routing, and no timer is overdue.
AnswerInv ==
    /\ stage \in {"new", "admitted", "limited"} =>
          ~connected /\ sent = 0 /\ site = NoSite /\ status = 0 /\ age = 0
    /\ stage = "requesting" => status = 0 /\ age <= ConnectTimeout /\ age <= RequestTimeout
    /\ stage = "streaming" => status = 200
    /\ AnswerExplains

IInv == TypeOK /\ LimitInv /\ HostInv /\ HeaderInv /\ AnswerInv

\* Types and lookups of a configuration's parts.
LEMMA ConfigTypes ==
    ASSUME NEW c \in Configs
    PROVE  /\ c.limit \in Nat
           /\ \A h \in Hosts : c.sites[h] \in SiteType \cup {NoSite}
  BY ConfigsAssumption

LEMMA ShapeTypes ==
    ASSUME NEW q \in Shapes
    PROVE  /\ q.header \in Hosts \cup {NoHost, EmptyHost}
           /\ q.authority \in Hosts \cup {NoHost}
           /\ q.size \in Nat /\ q.declared \in Int
  BY ShapesAssumption DEF NoLength

LEMMA EffectiveLimitType ==
    ASSUME NEW n \in Nat PROVE EffectiveLimit(n) \in Nat
  BY BoundsAssumption DEF EffectiveLimit

\* A request that is routed has a real host, and forwards one or the other.
LEMMA RoutedHosts ==
    ASSUME NEW q \in Shapes, RequestHost(q) \notin {NoHost, EmptyHost}
    PROVE  RequestHost(q) \in Hosts /\ build_upstream_host(q) \in Hosts
  BY ShapeTypes DEF RequestHost, build_upstream_host

\* What the errors are answered with.
LEMMA StatusCodes ==
    /\ status_code["BadGateway"] = 502 /\ status_code["UpstreamConnection"] = 502
    /\ status_code["UpstreamTimeout"] = 504
    /\ status_code["UnknownHost"] = 404 /\ status_code["MissingHost"] = 400
  BY DEF status_code

\* The header map that proxy_handler makes of a request's.
LEMMA ForwardedHeaders ==
    ASSUME NEW q \in Shapes, NEW h, h = remove_hop_by_hop(inject_proxy_headers(client_headers(q)))
    PROVE  /\ DOMAIN h = (q.fields \ HOP_BY_HOP) \cup ProxySet
           /\ \A n \in DOMAIN h : h[n] = IF n \in ProxySet THEN "proxy" ELSE "client"
           /\ h \in [DOMAIN h -> {"client", "proxy"}]
<1> DEFINE c == client_headers(q)
           i == inject_proxy_headers(c)
<1>1. c = [n \in q.fields |-> "client"]
  BY DEF client_headers
<1>2. i = [n \in q.fields \cup ProxySet |-> IF n \in ProxySet THEN "proxy" ELSE c[n]]
  BY <1>1 DEF inject_proxy_headers
<1>3. h = [n \in (q.fields \cup ProxySet) \ HOP_BY_HOP |-> i[n]]
  BY <1>2 DEF remove_hop_by_hop
<1>4. ProxySet \cap HOP_BY_HOP = {}
  BY DEF ProxySet, HOP_BY_HOP
<1> HIDE DEF c, i
<1>5. DOMAIN h = (q.fields \ HOP_BY_HOP) \cup ProxySet
  BY <1>3, <1>4
<1>6. \A n \in DOMAIN h : h[n] = IF n \in ProxySet THEN "proxy" ELSE "client"
  BY <1>1, <1>2, <1>3, <1>5
<1> QED
  BY <1>3, <1>5, <1>6

LEMMA InitInv == Init => IInv
<1> SUFFICES ASSUME Init PROVE IInv
  OBVIOUS
<1>1. req.size \in Nat /\ 0 \in 0..req.size /\ 0 \in 0..MaxAge
  BY ShapeTypes, BoundsAssumption DEF Init
<1>2. /\ headers = NoFields /\ returned = NoFields /\ DOMAIN NoFields = {}
      /\ NoFields \in [{} -> {"client", "proxy"}] /\ NoFields \in [{} -> {"upstream"}]
  BY DEF Init, NoFields
<1>3. HeaderInv
  BY <1>2 DEF Init, HeaderInv, HeadersForwarded
<1>4. TypeOK
  BY <1>1, <1>3, ZenonT(30) DEF Init, TypeOK, HeaderInv
<1>5. LimitInv /\ HostInv
  BY DEF Init, LimitInv, HostInv
<1>6. AnswerInv
  BY DEF Init, AnswerInv, AnswerExplains
<1> QED
  BY <1>3, <1>4, <1>5, <1>6 DEF IInv

\* Header maps change in Route and Responds only.
LEMMA HeaderStep == IInv /\ [Next]_vars => HeaderInv'
<1> SUFFICES ASSUME IInv, [Next]_vars PROVE HeaderInv'
  OBVIOUS
<1> USE DEF requestVars, upstreamVars
<1>1. req' = req
  BY DEF Next, vars, Reload, RateLimit, LimitBody, Route, RouteFails, Connects, SendChunk,
         RequestFails, BodyOverLimit, Responds, TimesOut, BodyEnds, ClientGone, Tick, Finished
<1>2. CASE /\ UNCHANGED <<headers, returned>>
           /\ stage' \in {"requesting", "streaming"} => stage \in {"requesting", "streaming"}
  BY <1>1, <1>2 DEF IInv, HeaderInv, HeadersForwarded
<1>3. CASE Route /\ stage' = "requesting"
  <2>1. headers' = remove_hop_by_hop(inject_proxy_headers(client_headers(req))) /\ returned' = returned
    BY <1>3 DEF Route, Answer, into_response
  <2>2. req \in Shapes
    BY DEF IInv, TypeOK
  <2>3. /\ DOMAIN headers' = (req.fields \ HOP_BY_HOP) \cup ProxySet
        /\ \A n \in DOMAIN headers' : headers'[n] = IF n \in ProxySet THEN "proxy" ELSE "client"
        /\ headers' \in [DOMAIN headers' -> {"client", "proxy"}]
    BY <2>1, <2>2, ForwardedHeaders
  <2> QED
    BY <1>1, <2>1, <2>3 DEF IInv, HeaderInv, HeadersForwarded
<1>4. CASE Responds
  <2>1. PICK names \in Replies : LET h == remove_hop_by_hop([n \in names |-> "upstream"])
                                 IN  returned' = [n \in DOMAIN h \ {"server"} |-> h[n]]
    BY <1>4 DEF Responds
  <2>2. returned' = [n \in (names \ HOP_BY_HOP) \ {"server"} |-> "upstream"]
    BY <2>1 DEF remove_hop_by_hop
  <2>3. headers' = headers /\ stage = "requesting"
    BY <1>4 DEF Responds
  <2> QED
    BY <1>1, <2>2, <2>3 DEF IInv, HeaderInv, HeadersForwarded
<1>5. CASE Route /\ stage' # "requesting"
  BY <1>2, <1>5 DEF Route, Answer, into_response
<1>6. CASE ~Route /\ ~Responds
  BY <1>2, <1>6 DEF Next, vars, Reload, RateLimit, LimitBody, RouteFails, Connects, SendChunk, Answer,
         into_response, RequestFails, BodyOverLimit, TimesOut, BodyEnds, ClientGone, Tick, Finished
<1> QED
  BY <1>3, <1>4, <1>5, <1>6

LEMMA CoreStep == IInv /\ [Next]_vars => (TypeOK /\ LimitInv /\ HostInv)'
<1> DEFINE Core == TypeOK /\ LimitInv /\ HostInv
<1> SUFFICES ASSUME IInv, [Next]_vars PROVE Core'
  OBVIOUS
<1> USE DEF IInv, TypeOK, LimitInv, HostInv, requestVars, upstreamVars
<1>h. /\ headers' \in [DOMAIN headers' -> {"client", "proxy"}]
      /\ returned' \in [DOMAIN returned' -> {"upstream"}]
  BY HeaderStep DEF HeaderInv
<1> USE <1>h, StatusCodes DEF into_response
<1>0. /\ req.size \in Nat /\ req.declared \in Int /\ limit \in Nat
      /\ sent \in Nat /\ sent <= req.size /\ MaxAge \in Nat
  BY ShapeTypes, BoundsAssumption
<1>1. CASE UNCHANGED vars
  BY <1>1 DEF vars
<1>2. ASSUME NEW c \in Configs, Reload(c) PROVE Core'
  BY <1>2 DEF Reload
<1>3. CASE RateLimit
  BY <1>3 DEF RateLimit, Answer
<1>4. CASE LimitBody
  <2>1. config.limit \in Nat /\ EffectiveLimit(config.limit) \in Nat
    BY ConfigTypes, EffectiveLimitType
  <2>2. CASE req.declared > EffectiveLimit(config.limit)
    BY <1>4, <2>1, <2>2 DEF LimitBody, Answer
  <2>3. CASE ~(req.declared > EffectiveLimit(config.limit))
    <3> DEFINE n == EffectiveLimit(config.limit)
    <3>1. n \in Nat /\ req.declared <= n
      BY <1>0, <2>1, <2>3
    <3>2. \E c \in Configs : n = EffectiveLimit(c.limit)
      OBVIOUS
    <3>3. limit' = n /\ stage' = "limited" /\ sent' = 0
      BY <1>4, <2>3 DEF LimitBody
    <3> HIDE DEF n
    <3> QED
      BY <1>4, <2>3, <3>1, <3>2, <3>3 DEF LimitBody
  <2> QED
    BY <2>2, <2>3
<1>5. CASE Route
  <2>1. CASE RequestHost(req) \in {NoHost, EmptyHost}
    BY <1>5, <2>1 DEF Route, Answer
  <2>2. CASE RequestHost(req) \notin {NoHost, EmptyHost}
    <3>1. RequestHost(req) \in Hosts /\ build_upstream_host(req) \in Hosts
      BY <2>2, RoutedHosts
    <3>2. config.sites[RequestHost(req)] \in SiteType \cup {NoSite}
      BY <3>1, ConfigTypes
    <3>3. CASE config.sites[RequestHost(req)] = NoSite
      BY <1>5, <2>2, <3>3 DEF Route, Answer
    <3>4. CASE config.sites[RequestHost(req)] # NoSite
      BY <1>0, <1>5, <2>2, <3>1, <3>2, <3>4 DEF Route, Answer
    <3> QED
      BY <3>3, <3>4
  <2> QED
    BY <2>1, <2>2
<1>6. CASE RouteFails
  BY <1>6 DEF RouteFails, Answer
<1>7. CASE Connects
  BY <1>7 DEF Connects
<1>8. CASE SendChunk
  BY <1>0, <1>8 DEF SendChunk
<1>9. CASE RequestFails
  BY <1>9 DEF RequestFails, Answer
<1>10. CASE BodyOverLimit
  BY <1>10 DEF BodyOverLimit, Answer
<1>11. CASE Responds
  BY <1>11 DEF Responds
<1>12. CASE TimesOut
  BY <1>12 DEF TimesOut, Answer
<1>13. CASE BodyEnds
  BY <1>13 DEF BodyEnds
<1>14. CASE ClientGone
  BY <1>14 DEF ClientGone
<1>15. CASE Tick
  BY <1>0, <1>15 DEF Tick
<1>16. CASE Finished
  BY <1>16 DEF Finished, vars
<1> QED
  BY <1>1, <1>2, <1>3, <1>4, <1>5, <1>6, <1>7, <1>8, <1>9, <1>10, <1>11, <1>12,
     <1>13, <1>14, <1>15, <1>16, ZenonT(60) DEF Next

\* An action that ends a request, or that leaves the timers and the answer alone.
LEMMA AnswerStep == IInv /\ [Next]_vars => AnswerInv'
<1> SUFFICES ASSUME IInv, [Next]_vars PROVE AnswerInv'
  OBVIOUS
<1> USE StatusCodes DEF requestVars, upstreamVars, into_response, Answer, ConnectTimeout, RequestTimeout
<1>0. /\ req \in Shapes /\ config \in Configs /\ age \in Nat /\ AnswerInv
      /\ stage \in {"requesting", "streaming"} => site \in SiteType
  BY BoundsAssumption DEF IInv, TypeOK
<1>1. CASE UNCHANGED vars
  BY <1>0, <1>1 DEF vars, AnswerInv, AnswerExplains, RequestHost
<1>2. ASSUME NEW c \in Configs, Reload(c) PROVE AnswerInv'
  BY <1>0, <1>2 DEF Reload, AnswerInv, AnswerExplains
<1>3. CASE RateLimit
  BY <1>0, <1>3 DEF RateLimit, AnswerInv, AnswerExplains
<1>4. CASE LimitBody
  BY <1>0, <1>4 DEF LimitBody, AnswerInv, AnswerExplains
<1>5. CASE Route
  <2>1. CASE RequestHost(req) \in {NoHost, EmptyHost}
    BY <1>0, <1>5, <2>1 DEF Route, AnswerInv, AnswerExplains
  <2>2. CASE RequestHost(req) \notin {NoHost, EmptyHost} /\ config.sites[RequestHost(req)] = NoSite
    BY <1>0, <1>5, <2>2 DEF Route, AnswerInv, AnswerExplains
  <2>3. CASE RequestHost(req) \notin {NoHost, EmptyHost} /\ config.sites[RequestHost(req)] # NoSite
    <3>1. config.sites[RequestHost(req)] \in SiteType
      BY <1>0, <2>3, RoutedHosts, ConfigTypes
    <3>2. stage' = "requesting" /\ site' \in SiteType /\ age' = 0 /\ status' = 0
      BY <1>0, <1>5, <2>3, <3>1 DEF Route, AnswerInv
    <3>3. site'.connect \in Nat /\ site'.request \in Nat
      BY <3>2 DEF SiteType
    <3> QED
      BY <3>2, <3>3 DEF AnswerInv, AnswerExplains
  <2> QED
    BY <2>1, <2>2, <2>3
<1>6. CASE RouteFails
  BY <1>0, <1>6 DEF RouteFails, AnswerInv, AnswerExplains
<1>7. CASE Connects
  BY <1>0, <1>7 DEF Connects, AnswerInv, AnswerExplains
<1>8. CASE SendChunk
  BY <1>0, <1>8 DEF SendChunk, AnswerInv, AnswerExplains
<1>9. CASE RequestFails \/ BodyOverLimit
  BY <1>0, <1>9 DEF RequestFails, BodyOverLimit, AnswerInv, AnswerExplains
<1>10. CASE Responds
  BY <1>0, <1>10 DEF Responds, AnswerInv, AnswerExplains
<1>11. CASE TimesOut
  <2>1. stage = "requesting" /\ site.connect \in Nat /\ site.request \in Nat
    BY <1>0, <1>11 DEF TimesOut, SiteType
  <2>2. /\ age = site.connect \/ age = site.request
        /\ age <= site.connect /\ age <= site.request
    BY <1>0, <1>11, <2>1 DEF TimesOut, TimerDue, AnswerInv
  <2> QED
    BY <1>11, <2>2 DEF TimesOut, AnswerInv, AnswerExplains
<1>12. CASE BodyEnds \/ ClientGone
  BY <1>0, <1>12 DEF BodyEnds, ClientGone, AnswerInv, AnswerExplains
<1>13. CASE Tick
  <2>1. stage \in {"requesting", "streaming"} /\ site.connect \in Nat /\ site.request \in Nat
    BY <1>0, <1>13 DEF Tick, SiteType
  <2>2. stage = "requesting" => age + 1 <= site.connect /\ age + 1 <= site.request
    BY <1>0, <1>13, <2>1 DEF Tick, TimerDue
  <2> QED
    BY <1>0, <1>13, <2>1, <2>2 DEF Tick, AnswerInv, AnswerExplains
<1>14. CASE Finished
  BY <1>1, <1>14 DEF Finished
<1> QED
  BY <1>1, <1>2, <1>3, <1>4, <1>5, <1>6, <1>7, <1>8, <1>9, <1>10, <1>11, <1>12, <1>13, <1>14 DEF Next

LEMMA StepInv == IInv /\ [Next]_vars => IInv'
  BY CoreStep, HeaderStep, AnswerStep DEF IInv

LEMMA Invariance == Spec => []IInv
  BY InitInv, StepInv, PTL DEF Spec

\* The request's state keeps its types, and whatever goes to an upstream has a
\* site that was looked up (proxy_handler).
THEOREM TypeCorrect == Spec => []TypeOK
<1>1. IInv => TypeOK
  BY DEF IInv
<1> QED
  BY <1>1, Invariance, PTL

\* The upstream never gets more of a body than one configured limit allows,
\* whatever is reloaded meanwhile (body_limit_middleware).
THEOREM BodiesStayWithinLimit == Spec => []WithinLimit
<1>1. IInv => WithinLimit
  BY DEF IInv, LimitInv, WithinLimit
<1> QED
  BY <1>1, Invariance, PTL

\* A request with one source for its host is forwarded with the host it was
\* routed by (proxy_handler, build_upstream_request).
THEOREM HostsAreForwarded == Spec => []HostForwarded
<1>1. IInv => HostForwarded
  <2> SUFFICES ASSUME IInv, stage \in {"requesting", "streaming"},
                      req.header = NoHost \/ req.authority = NoHost
               PROVE  forwarded = routed
    BY DEF HostForwarded
  <2> QED
    BY DEF IInv, HostInv, RequestHost, build_upstream_host
<1> QED
  BY <1>1, Invariance, PTL

\* An upstream sees the client's end-to-end header fields and the three that
\* the proxy sets, the client sees the upstream's without Server
\* (inject_proxy_headers, remove_hop_by_hop).
THEOREM HeadersAreForwarded == Spec => []HeadersForwarded
<1>1. IInv => HeadersForwarded
  BY DEF IInv, HeaderInv
<1> QED
  BY <1>1, Invariance, PTL

\* An answer says what became of the request, and 504 comes at the first of the
\* two timeouts (ProxyError, proxy_handler).
THEOREM AnswersExplain == Spec => []AnswerExplains
<1>1. IInv => AnswerExplains
  BY DEF IInv, AnswerInv
<1> QED
  BY <1>1, Invariance, PTL
=============================================================================
