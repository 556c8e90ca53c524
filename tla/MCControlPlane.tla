--------------------------- MODULE MCControlPlane ---------------------------
EXTENDS ControlPlane

Version(s) ==
    [static |-> s, wildcard |-> FALSE, allows |-> FALSE, sane |-> TRUE, fits |-> TRUE,
     torn |-> FALSE]

Good == <<Version(1), Version(2)>>
=============================================================================
