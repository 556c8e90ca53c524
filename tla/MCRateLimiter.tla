--------------------------- MODULE MCRateLimiter ---------------------------
EXTENDS RateLimiter, TLC

\* Two hosts of one IPv6 /64.
TwoHosts == {[kind |-> "v6", net |-> 1, host |-> h] : h \in 1..2}

\* A higher rate with a smaller burst, and the reverse.
TwoConfigs == {[rate |-> 2, burst |-> 1], [rate |-> 1, burst |-> 2]}

WorkerSymmetry == Permutations(Workers)
=============================================================================
