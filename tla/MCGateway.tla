----------------------------- MODULE MCGateway ------------------------------
(* Two users; the first one's client connects a second time, as the third.  *)
EXTENDS Gateway

CONSTANTS u1, u2

TwoUsers == <<u1, u2, u1>>
SomeBounds ==
    {[conns |-> 3, sent |-> 1, bodies |-> TRUE, said |-> 0, deaf |-> FALSE],
     [conns |-> 3, sent |-> 0, bodies |-> FALSE, said |-> 1, deaf |-> FALSE],
     [conns |-> 2, sent |-> 1, bodies |-> FALSE, said |-> 2, deaf |-> FALSE],
     [conns |-> 2, sent |-> 0, bodies |-> FALSE, said |-> 1, deaf |-> TRUE]}
=============================================================================
