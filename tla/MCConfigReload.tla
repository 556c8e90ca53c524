--------------------------- MODULE MCConfigReload ---------------------------
EXTENDS ConfigReload

Version(s, wild, allow, sane, fits, torn) ==
    [static |-> s, wildcard |-> wild, allows |-> allow, sane |-> sane, fits |-> fits,
     torn |-> torn]

\* Started with allow_wildcard_bind; then it is gone from the file; then a
\* file whose prefix is sane and whose max_connections needs too many files.
FlagDropped == <<Version(1, TRUE, TRUE, TRUE, TRUE, FALSE),
                 Version(2, TRUE, FALSE, TRUE, TRUE, TRUE),
                 Version(2, FALSE, FALSE, TRUE, FALSE, TRUE)>>

\* Started with the command line flag; a version that changes only what is
\* dynamic.
FlagOnCli == <<Version(1, TRUE, FALSE, TRUE, TRUE, FALSE),
               Version(1, TRUE, FALSE, TRUE, TRUE, FALSE),
               Version(2, TRUE, FALSE, TRUE, TRUE, FALSE)>>
=============================================================================
