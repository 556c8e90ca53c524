----------------------------- MODULE Admission ------------------------------
(***************************************************************************)
(* What the connection cap promises: clients are admitted first come,      *)
(* first served, at most Cap at a time, and nobody waits while there is    *)
(* room.  HttpsServer implements it with a semaphore that all its accept   *)
(* loops and connection tasks share.                                       *)
(***************************************************************************)
EXTENDS Naturals, Sequences, FiniteSets

CONSTANTS Clients, Cap

VARIABLES
    waiting,    \* clients that wait, in the order in which they came
    admitted    \* clients that are being served

vars == <<waiting, admitted>>

Init == waiting = <<>> /\ admitted = {}

Waits(c) == \E i \in 1..Len(waiting) : waiting[i] = c

\* A client is admitted if there is room, and queues up otherwise.
Arrive(c) ==
    /\ c \notin admitted /\ ~Waits(c)
    /\ \/ /\ Cardinality(admitted) < Cap
          /\ admitted' = admitted \cup {c}
          /\ waiting' = waiting
       \/ /\ Cardinality(admitted) = Cap
          /\ waiting' = Append(waiting, c)
          /\ admitted' = admitted

\* A client leaves; the first that waits takes its place.
Leave(c) ==
    /\ c \in admitted
    /\ \/ /\ waiting = <<>>
          /\ admitted' = admitted \ {c}
          /\ waiting' = waiting
       \/ /\ waiting # <<>>
          /\ admitted' = (admitted \ {c}) \cup {Head(waiting)}
          /\ waiting' = Tail(waiting)

Next == \E c \in Clients : Arrive(c) \/ Leave(c)

Spec == Init /\ [][Next]_vars
=============================================================================
