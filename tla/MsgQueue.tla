------------------------------ MODULE MsgQueue ------------------------------
(***************************************************************************)
(* The ring of messages between two threads of a server (class msg_queue,  *)
(* src/Net/message.h and message.cpp) together with the protocol its two   *)
(* users follow: the producer claims a slot with enqueue(), fills it and   *)
(* sets its flag; the consumer obtains a slot with dequeue(), works on it  *)
(* in place and sets its flag to INACTIVE.  There is no lock: the flag of  *)
(* a slot is the only thing that tells the threads apart.                  *)
(*                                                                         *)
(* CanFail = FALSE is a send queue: a run() thread fills the slot it       *)
(* claimed and always publishes it.  CanFail = TRUE is a receive queue:    *)
(* Net::product_msg claims a slot before it knows that there is a message, *)
(* and marks it INVALID when recvmsg returns nothing.                      *)
(***************************************************************************)
EXTENDS Integers

CONSTANTS Size,        \* m_size, the number of slots
          CounterMod,  \* m_in and m_out are taken modulo this (2^32 in the code)
          MaxMsgs,     \* bound on the number of messages published
          CanFail      \* may a claimed slot become INVALID?

ASSUME SizeAssumption ==
    /\ Size \in Nat \ {0}
    /\ CounterMod \in Nat \ {0}
    /\ CounterMod % Size = 0

ASSUME BoundAssumption == MaxMsgs \in Nat /\ CanFail \in BOOLEAN

VARIABLES m_in,      \* the producer's position
          m_out,     \* the consumer's position
          m_flag,    \* m_flag of every slot
          m_data,    \* payload of every slot: the number of a message, or Torn
          claimed,   \* slot the producer is filling, or NoSlot
          stage,     \* how far it has filled it
          held,      \* slot the consumer is working on, or NoSlot
          sent,      \* number of messages published so far
          received,  \* messages the consumer is done with
          stopped    \* consume_msg has returned

vars == <<m_in, m_out, m_flag, m_data, claimed, stage, held, sent, received, stopped>>

Slots == 0 .. (Size - 1)
Flags == {"INVALID", "INACTIVE", "ACTIVE"}
Messages == 1 .. MaxMsgs
NoSlot == -1        \* the nullptr of enqueue() and dequeue()
Torn == 0           \* a payload with its head written and its body not

Pos(n) == n % Size                      \* n & (m_size - 1)
Next32(n) == (n + 1) % CounterMod       \* ++n on a uint32_t

ActiveSlots == {s \in Slots : m_flag[s] = "ACTIVE"}

-----------------------------------------------------------------------------
(* The producer.                                                           *)

\* Faulty variants of the actions, to see that the properties can fail: they
\* are no part of Next.  This one does not look at the flag.
EnqueueAnySlot ==
    /\ claimed = NoSlot
    /\ sent < MaxMsgs
    /\ claimed' = Pos(m_in)
    /\ stage' = "claimed"
    /\ m_in' = Next32(m_in)
    /\ UNCHANGED <<m_out, m_flag, m_data, held, sent, received, stopped>>

\* The counter is used for a position as it is.
EnqueueUnmasked ==
    /\ claimed = NoSlot
    /\ sent < MaxMsgs
    /\ m_flag[Pos(m_in)] # "ACTIVE"
    /\ claimed' = m_in
    /\ stage' = "claimed"
    /\ m_in' = Next32(m_in)
    /\ UNCHANGED <<m_out, m_flag, m_data, held, sent, received, stopped>>

\* The flag is set before the slot is filled.
PublishEarly ==
    /\ stage \in {"claimed", "partial", "filled"}
    /\ m_flag' = [m_flag EXCEPT ![claimed] = "ACTIVE"]
    /\ sent' = sent + 1
    /\ claimed' = NoSlot
    /\ stage' = "none"
    /\ UNCHANGED <<m_in, m_out, m_data, held, received, stopped>>

\* msg_queue::enqueue: the slot at m_in unless a message is still in it.  A
\* caller that gets nullptr tries again, so no step stands for that.
Enqueue ==
    /\ claimed = NoSlot
    /\ sent < MaxMsgs
    /\ m_flag[Pos(m_in)] # "ACTIVE"
    /\ claimed' = Pos(m_in)
    /\ stage' = "claimed"
    /\ m_in' = Next32(m_in)
    /\ UNCHANGED <<m_out, m_flag, m_data, held, sent, received, stopped>>

\* The head is in the slot and the body is not.
FillHead ==
    /\ stage = "claimed"
    /\ m_data' = [m_data EXCEPT ![claimed] = Torn]
    /\ stage' = "partial"
    /\ UNCHANGED <<m_in, m_out, m_flag, claimed, held, sent, received, stopped>>

FillBody ==
    /\ stage = "partial"
    /\ m_data' = [m_data EXCEPT ![claimed] = sent + 1]
    /\ stage' = "filled"
    /\ UNCHANGED <<m_in, m_out, m_flag, claimed, held, sent, received, stopped>>

\* msg->m_flag = ACTIVE hands the slot over to the consumer.
Publish ==
    /\ stage = "filled"
    /\ m_flag' = [m_flag EXCEPT ![claimed] = "ACTIVE"]
    /\ sent' = sent + 1
    /\ claimed' = NoSlot
    /\ stage' = "none"
    /\ UNCHANGED <<m_in, m_out, m_data, held, received, stopped>>

\* recvmsg found no complete message, before or after it read a head.  m_in
\* has moved on and does not move back.
Invalidate ==
    /\ CanFail
    /\ stage \in {"claimed", "partial"}
    /\ m_flag' = [m_flag EXCEPT ![claimed] = "INVALID"]
    /\ claimed' = NoSlot
    /\ stage' = "none"
    /\ UNCHANGED <<m_in, m_out, m_data, held, sent, received, stopped>>

-----------------------------------------------------------------------------
(* The consumer.                                                           *)

\* Faulty: the slot is not given back.
ReleaseKeepingFlag ==
    /\ ~stopped /\ held # NoSlot
    /\ received' = received \cup {m_data[held]}
    /\ held' = NoSlot
    /\ UNCHANGED <<m_in, m_out, m_flag, m_data, claimed, stage, sent, stopped>>

\* Faulty: m_out does not move on.
DequeueStill ==
    /\ ~stopped /\ held = NoSlot
    /\ m_flag[Pos(m_out)] = "ACTIVE"
    /\ held' = Pos(m_out)
    /\ UNCHANGED <<m_in, m_out, m_flag, m_data, claimed, stage, sent, received, stopped>>

\* One turn of the loop at the start of msg_queue::dequeue.  The flag of the
\* slot stays INVALID.
SkipInvalid ==
    /\ ~stopped /\ held = NoSlot
    /\ m_flag[Pos(m_out)] = "INVALID"
    /\ m_out' = Next32(m_out)
    /\ UNCHANGED <<m_in, m_flag, m_data, claimed, stage, held, sent, received, stopped>>

\* The rest of msg_queue::dequeue when there is a message; when the slot is
\* INACTIVE the caller gets nullptr, sleeps and calls again.
Dequeue ==
    /\ ~stopped /\ held = NoSlot
    /\ m_flag[Pos(m_out)] = "ACTIVE"
    /\ held' = Pos(m_out)
    /\ m_out' = Next32(m_out)
    /\ UNCHANGED <<m_in, m_flag, m_data, claimed, stage, sent, received, stopped>>

\* The consumer has finished with the message: msg->m_flag = INACTIVE.
Release ==
    /\ ~stopped /\ held # NoSlot
    /\ received' = received \cup {m_data[held]}
    /\ m_flag' = [m_flag EXCEPT ![held] = "INACTIVE"]
    /\ held' = NoSlot
    /\ UNCHANGED <<m_in, m_out, m_data, claimed, stage, sent, stopped>>

\* The connection the message is for is not in m_connections: consume_msg
\* returns, and its thread ends, with the slot still ACTIVE.  The run() thread
\* behind a receive queue has no such end.
Stop ==
    /\ ~CanFail
    /\ ~stopped /\ held # NoSlot
    /\ stopped' = TRUE
    /\ UNCHANGED <<m_in, m_out, m_flag, m_data, claimed, stage, held, sent, received>>

-----------------------------------------------------------------------------
\* msg_queue::init_queue: new message[m_size]() leaves every flag INACTIVE.
Init ==
    /\ m_in = 0
    /\ m_out = 0
    /\ m_flag = [s \in Slots |-> "INACTIVE"]
    /\ m_data = [s \in Slots |-> Torn]
    /\ claimed = NoSlot
    /\ stage = "none"
    /\ held = NoSlot
    /\ sent = 0
    /\ received = {}
    /\ stopped = FALSE

Producer == Enqueue \/ FillHead \/ FillBody \/ Publish \/ Invalidate
Consumer == SkipInvalid \/ Dequeue \/ Release \/ Stop

Next == Producer \/ Consumer

SafetySpec == Init /\ [][Next]_vars

\* Both threads are loops that only sleep between two attempts, up to the return
\* of consume_msg.  What a handler, or tcp_send, does with a message is taken to
\* come to an end: the other side reads what it is sent.
Spec == SafetySpec /\ WF_vars(Producer) /\ WF_vars(Consumer)

-----------------------------------------------------------------------------
(* Properties.                                                             *)

\* The variables have their types: in particular the slots handed out by
\* enqueue() and dequeue() are slots of the ring, whatever the counters are.
TypeOK ==
    /\ m_in \in 0 .. (CounterMod - 1)
    /\ m_out \in 0 .. (CounterMod - 1)
    /\ m_flag \in [Slots -> Flags]
    /\ m_data \in [Slots -> Messages \cup {Torn}]
    /\ claimed \in Slots \cup {NoSlot}
    /\ stage \in {"none", "claimed", "partial", "filled"}
    /\ held \in Slots \cup {NoSlot}
    /\ sent \in 0 .. MaxMsgs
    /\ received \subseteq Messages
    /\ stopped \in BOOLEAN

\* The producer never writes a slot that the consumer is reading, and never
\* writes one that holds a message nobody has read, although the two threads
\* share the ring without a lock (enqueue, dequeue and the flag protocol of
\* Net::product_msg and Net::consume_msg).
SlotExclusion ==
    claimed # NoSlot => claimed # held /\ m_flag[claimed] # "ACTIVE"

\* A message the consumer works on in place does not change under its hands
\* until it releases the slot, however far the producer runs meanwhile.
HeldPayloadStable ==
    [][held # NoSlot /\ held' = held => m_data'[held] = m_data[held]]_vars

\* No message is lost and none is handled twice: what was published is either
\* waiting whole in exactly one slot or has been handled, never both.  This is
\* all that can be said of a receive queue, whose stale INVALID slots let the
\* consumer run past the producer.
ExactlyOnce ==
    /\ {m_data[s] : s \in ActiveSlots} \cap received = {}
    /\ {m_data[s] : s \in ActiveSlots} \cup received = 1 .. sent
    /\ \A s, t \in ActiveSlots : m_data[s] = m_data[t] => s = t

\* "enqueue is always faster than dequeue" (the comment in Net::product_msg):
\* a consumer that has caught up with the producer does not move on, to slots
\* that the producer has yet to fill.
DequeueNeverAhead == [][m_out' # m_out => m_out # m_in]_vars

\* The abstract channel: a published message is pending while its slot is
\* ACTIVE and not held, and is being handled while its slot is held.
Pending == {m_data[s] : s \in ActiveSlots \ {held}}
Handling == IF held = NoSlot THEN 0 ELSE m_data[held]

Channel == INSTANCE MsgChannel WITH
    Ordered <- ~CanFail, CanStop <- ~CanFail, pending <- Pending, handling <- Handling

\* The ring, its flags and its wrapping counters implement the channel its users
\* rely on.  A send queue is first-in first-out, and delivers everything until
\* consume_msg returns over a message without a connection: that message and
\* all behind it are never delivered.  A receive queue keeps no order.
ImplementsChannel == Channel!SafetySpec
ImplementsLiveChannel == Channel!Spec

\* A producer that wants a slot gets one in the end, because the consumer keeps
\* releasing slots, provided that every write returns; unless the consumer was
\* consume_msg and has returned, when the ring fills up and the run() thread
\* waits in enqueue() for ever.
ProducerServed ==
    (claimed = NoSlot /\ sent < MaxMsgs) ~> (claimed # NoSlot \/ stopped)
=============================================================================
