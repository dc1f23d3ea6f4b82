----------------------------- MODULE MsgChannel -----------------------------
(***************************************************************************)
(* What the threads of a server expect of the queue between them: messages *)
(* numbered 1, 2, 3, ... in the order the producer publishes them, each    *)
(* taken by the consumer once, handled, and never seen again.  Ordered     *)
(* says whether the consumer also takes them in the order of publication,  *)
(* CanStop whether it may stop for good over a message it has taken.       *)
(* There are no slots, flags or counters here.                             *)
(***************************************************************************)
EXTENDS Integers

CONSTANTS MaxMsgs,   \* bound on the number of messages published
          Ordered,   \* TRUE: first in, first out; FALSE: any order
          CanStop    \* may the consumer stop?

VARIABLES sent,      \* number of messages published
          pending,   \* published, not yet taken
          handling,  \* the message the consumer is working on, or Nothing
          received,  \* the messages it is done with
          stopped    \* it has stopped

vars == <<sent, pending, handling, received, stopped>>

Nothing == 0

Init ==
    /\ sent = 0 /\ pending = {} /\ handling = Nothing /\ received = {}
    /\ stopped = FALSE

Send ==
    /\ sent < MaxMsgs
    /\ sent' = sent + 1
    /\ pending' = pending \cup {sent + 1}
    /\ UNCHANGED <<handling, received, stopped>>

Receive ==
    /\ ~stopped /\ handling = Nothing
    /\ \E m \in pending :
          /\ Ordered => \A n \in pending : m <= n
          /\ handling' = m
          /\ pending' = pending \ {m}
    /\ UNCHANGED <<sent, received, stopped>>

Done ==
    /\ ~stopped /\ handling # Nothing
    /\ received' = received \cup {handling}
    /\ handling' = Nothing
    /\ UNCHANGED <<sent, pending, stopped>>

Stop ==
    /\ CanStop
    /\ ~stopped /\ handling # Nothing
    /\ stopped' = TRUE
    /\ UNCHANGED <<sent, pending, handling, received>>

Next == Send \/ Receive \/ Done \/ Stop

SafetySpec == Init /\ [][Next]_vars

Spec == SafetySpec /\ WF_vars(Receive) /\ WF_vars(Done)
=============================================================================
