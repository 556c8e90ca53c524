--------------------------- MODULE MCProxyRequest ---------------------------
EXTENDS ProxyRequest, TLC

CONSTANTS a, b

Site(u, ct, rt) == [upstream |-> u, connect |-> ct, request |-> rt]

\* b is not served, then it is; the limit changes; so do the timeouts.
TwoConfigs == {[limit |-> 0, sites |-> (a :> Site(1, 1, 3) @@ b :> NoSite)],
               [limit |-> 1, sites |-> (a :> Site(1, 3, 2) @@ b :> Site(2, 1, 3))]}

AllShapes ==
    {[header |-> h, authority |-> g, declared |-> d, size |-> n, fields |-> f] :
        h \in {a, b, NoHost, EmptyHost}, g \in {a, b, NoHost}, d \in {NoLength} \cup 0..3, n \in 0..3,
        f \in SUBSET {"accept", "connection", "x-forwarded-for"}}
\* All header fields with one of the shapes, none with the others.
MCShapes == {q \in AllShapes : /\ q.declared \in {NoLength, q.size}
                               /\ q.fields # {} => q.header = a /\ q.authority = NoHost /\ q.size = 0}
MCReplies == {{}, {"etag", "server", "upgrade"}}
=============================================================================
