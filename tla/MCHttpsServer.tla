--------------------------- MODULE MCHttpsServer ---------------------------
(* Instances of HttpsServer for TLC.                                       *)
EXTENDS HttpsServer
=============================================================================
