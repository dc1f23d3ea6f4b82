--------------------------- MODULE MsgQueueProofs ---------------------------
(***************************************************************************)
(* Theorems about MsgQueue, for every size of the ring, every width of the *)
(* counters that the size divides and every number of messages.            *)
(***************************************************************************)
EXTENDS MsgQueue, ModularArithmetic

\* The producer's place in its protocol: it has a slot exactly while it is at
\* work, the slot is not ACTIVE, and once filled it holds the next message.
ProducerInv ==
    /\ claimed = NoSlot <=> stage = "none"
    /\ claimed # NoSlot => sent < MaxMsgs /\ m_flag[claimed] # "ACTIVE"
    /\ stage = "filled" => m_data[claimed] = sent + 1

\* The slot the consumer holds stays ACTIVE, which keeps the producer out.
ConsumerInv == held # NoSlot => m_flag[held] = "ACTIVE"

IInv == TypeOK /\ ProducerInv /\ ConsumerInv /\ ExactlyOnce

\* A position computed from a counter is a slot, and a counter stays below
\* its modulus.
LEMMA PosIsSlot == ASSUME NEW n \in 0 .. (CounterMod - 1)
    PROVE Pos(n) \in Slots /\ Next32(n) \in 0 .. (CounterMod - 1)
BY SizeAssumption DEF Pos, Slots, Next32

LEMMA InitIInv == Init => IInv
<1> SUFFICES ASSUME Init PROVE IInv
  OBVIOUS
<1>1. stopped \in BOOLEAN
  BY DEF Init
<1>2. IInv
  BY <1>1, SizeAssumption, BoundAssumption
  DEF Init, IInv, TypeOK, ProducerInv, ConsumerInv, ExactlyOnce, ActiveSlots,
      Slots, Flags, Messages, NoSlot, Torn
<1> QED BY <1>2

\* Every step of the two threads preserves the invariant.
LEMMA NextIInv == ASSUME IInv, [Next]_vars PROVE IInv'
<1> USE DEF IInv, TypeOK, ProducerInv, ConsumerInv, ExactlyOnce, ActiveSlots,
            Flags, Messages, Torn
<1> NoSlot \notin Slots BY DEF NoSlot, Slots
<1>1. CASE Enqueue
  <2>1. Pos(m_in) \in Slots /\ Next32(m_in) \in 0 .. (CounterMod - 1)
    BY PosIsSlot
  <2> QED BY <1>1, <2>1 DEF Enqueue
<1>2. CASE FillHead
  BY <1>2 DEF FillHead
<1>3. CASE FillBody
  <2>1. claimed \in Slots /\ sent + 1 \in Messages
    BY <1>3, BoundAssumption DEF FillBody
  <2> QED BY <1>3, <2>1 DEF FillBody
<1>4. CASE Publish
  <2>1. claimed \in Slots /\ sent + 1 \in 0 .. MaxMsgs
    BY <1>4, BoundAssumption DEF Publish
  <2>2. TypeOK' /\ ProducerInv' /\ ConsumerInv'
    BY <1>4, <2>1 DEF Publish
  <2>3. ActiveSlots' = ActiveSlots \cup {claimed} /\ claimed \notin ActiveSlots
    BY <1>4, <2>1 DEF Publish
  <2>4. m_data[claimed] = sent + 1 /\ m_data' = m_data /\ received' = received
        /\ sent' = sent + 1
    BY <1>4 DEF Publish
  <2>5. {m_data[s] : s \in ActiveSlots}' = {m_data[s] : s \in ActiveSlots} \cup {sent + 1}
    BY <2>3, <2>4
  <2>6. 1 .. (sent + 1) = (1 .. sent) \cup {sent + 1} /\ sent + 1 \notin 1 .. sent
    BY <2>1
  <2>7. ExactlyOnce'
    BY <2>3, <2>4, <2>5, <2>6
  <2> QED BY <2>2, <2>7
<1>5. CASE Invalidate
  BY <1>5 DEF Invalidate
<1>6. CASE SkipInvalid
  <2>1. Next32(m_out) \in 0 .. (CounterMod - 1)
    BY PosIsSlot
  <2> QED BY <1>6, <2>1 DEF SkipInvalid
<1>7. CASE Dequeue
  <2>1. Pos(m_out) \in Slots /\ Next32(m_out) \in 0 .. (CounterMod - 1)
    BY PosIsSlot
  <2> QED BY <1>7, <2>1 DEF Dequeue
<1>8. CASE Release
  <2>1. held \in ActiveSlots /\ ActiveSlots' = ActiveSlots \ {held}
    BY <1>8 DEF Release
  <2>2. TypeOK' /\ ProducerInv' /\ ConsumerInv'
    <3>1. m_data[held] \in Messages
      BY <2>1, BoundAssumption
    <3> QED BY <1>8, <2>1, <3>1 DEF Release
  <2>3. ExactlyOnce'
    BY <1>8, <2>1 DEF Release
  <2> QED BY <2>2, <2>3
<1>9. CASE Stop \/ UNCHANGED vars
  <2>1. /\ UNCHANGED <<m_in, m_out, m_flag, m_data, claimed, stage, held, sent, received>>
        /\ stopped' \in BOOLEAN
    BY <1>9 DEF Stop, vars
  <2> QED BY <2>1
<1> QED
  BY <1>1, <1>2, <1>3, <1>4, <1>5, <1>6, <1>7, <1>8, <1>9
  DEF Next, Producer, Consumer

\* The invariant that everything below rests on.
THEOREM Invariance == SafetySpec => []IInv
BY InitIInv, NextIInv, PTL DEF SafetySpec

\* The variables keep their types; every slot handed out is a slot of the ring.
THEOREM TypeCorrect == SafetySpec => []TypeOK
<1>1. IInv => TypeOK
  BY DEF IInv
<1> QED BY <1>1, Invariance, PTL

\* The producer is never in the slot the consumer reads, nor in one that holds
\* an unread message.
THEOREM Exclusion == SafetySpec => []SlotExclusion
<1>1. IInv => SlotExclusion
  BY DEF IInv, ProducerInv, ConsumerInv, SlotExclusion
<1> QED BY <1>1, Invariance, PTL

\* No message is lost and none is handled twice, even in a receive queue.
THEOREM DeliveredOnce == SafetySpec => []ExactlyOnce
<1>1. IInv => ExactlyOnce
  BY DEF IInv
<1> QED BY <1>1, Invariance, PTL

\* The payload of the slot the consumer holds is stable.
THEOREM PayloadStable == SafetySpec => HeldPayloadStable
<1>1. IInv /\ [Next]_vars
      => [held # NoSlot /\ held' = held => m_data'[held] = m_data[held]]_vars
  BY DEF IInv, TypeOK, ProducerInv, ConsumerInv, NoSlot, Next, Producer, Consumer, vars,
         Enqueue, FillHead, FillBody, Publish, Invalidate, SkipInvalid, Dequeue, Release, Stop
<1> QED BY <1>1, Invariance, PTL DEF SafetySpec, HeldPayloadStable

-----------------------------------------------------------------------------
(* First in, first out, when no claimed slot becomes INVALID.              *)

\* t messages have been dequeued, the last of them perhaps still being handled.
Taken(t) ==
    /\ m_out = t % CounterMod
    /\ held = NoSlot => received = 1 .. t
    /\ held # NoSlot => t >= 1 /\ m_data[held] = t /\ received = 1 .. (t - 1)

\* The counters count the messages claimed and dequeued, modulo their width.
CountersInv ==
    /\ claimed = NoSlot => m_in = sent % CounterMod
    /\ claimed # NoSlot => m_in = (sent + 1) % CounterMod /\ claimed = Pos(sent)
    /\ \E t \in 0 .. sent : Taken(t)

\* Message number m lives in slot (m - 1) mod Size, and no slot is INVALID.
PlacesInv ==
    /\ \A s \in Slots : m_flag[s] # "INVALID"
    /\ \A s \in ActiveSlots : s = Pos(m_data[s] - 1)

FifoInv == CountersInv /\ PlacesInv

\* A wrapped counter and the count it stands for have the same position.
LEMMA WrappedCount == ASSUME NEW n \in Nat
    PROVE Pos(n % CounterMod) = Pos(n) /\ Next32(n % CounterMod) = (n + 1) % CounterMod
BY SizeAssumption, ModMod, ModSucc DEF Pos, Next32

LEMMA InitFifo == Init => FifoInv
<1> SUFFICES ASSUME Init PROVE FifoInv
  OBVIOUS
<1>1. 0 = 0 % CounterMod
  BY SizeAssumption
<1>2. Taken(0) /\ 0 \in 0 .. sent
  BY <1>1 DEF Init, Taken, NoSlot
<1> QED BY <1>1, <1>2 DEF Init, FifoInv, CountersInv, PlacesInv, ActiveSlots, Slots, NoSlot

\* The message at m_out is the oldest one not yet taken.
LEMMA OldestAtOut ==
    ASSUME IInv, FifoInv, NEW t \in 0 .. sent, Taken(t), Dequeue
    PROVE Pos(m_out) \in ActiveSlots /\ m_data[Pos(m_out)] = t + 1 /\ t + 1 <= sent
<1> USE DEF IInv, TypeOK, ExactlyOnce
<1>1. Pos(m_out) \in ActiveSlots
  BY PosIsSlot DEF Dequeue, ActiveSlots
<1>2. m_data[Pos(m_out)] \in (1 .. sent) \ (1 .. t)
  BY <1>1 DEF Dequeue, Taken
<1>3. t + 1 \in (1 .. sent) \ received
  BY <1>2 DEF Dequeue, Taken
<1>4. PICK s \in ActiveSlots : m_data[s] = t + 1
  BY <1>3
<1> HIDE DEF IInv, TypeOK, ExactlyOnce
<1> t \in Nat /\ t + 1 - 1 = t
  BY BoundAssumption DEF IInv, TypeOK
<1>5. s = Pos(t) /\ Pos(m_out) = Pos(t)
  <2>1. s = Pos(m_data[s] - 1)
    BY <1>4 DEF FifoInv, PlacesInv
  <2>2. m_out = t % CounterMod
    BY DEF Taken
  <2> QED BY <1>4, <2>1, <2>2, WrappedCount
<1>6. t + 1 <= sent
  BY <1>3
<1>7. Pos(m_out) = s
  BY <1>5
<1> QED BY <1>1, <1>4, <1>6, <1>7

LEMMA NextFifo == ASSUME ~CanFail, IInv, FifoInv, [Next]_vars PROVE FifoInv'
<1> USE DEF IInv, TypeOK, ProducerInv, ConsumerInv, ActiveSlots
<1> NoSlot \notin Slots BY DEF NoSlot, Slots
<1> PICK t \in 0 .. sent : Taken(t)
  BY DEF FifoInv, CountersInv
<1>1. CASE Enqueue
  <2>1. Pos(m_in) = Pos(sent) /\ Next32(m_in) = (sent + 1) % CounterMod
    BY <1>1, WrappedCount DEF Enqueue, FifoInv, CountersInv
  <2>2. Pos(m_in) \in Slots
    BY PosIsSlot
  <2>3. Taken(t)' /\ t \in 0 .. sent'
    BY <1>1 DEF Enqueue, Taken
  <2>4. CountersInv'
    BY <1>1, <2>1, <2>2, <2>3 DEF Enqueue, CountersInv
  <2> QED BY <1>1, <2>4 DEF Enqueue, FifoInv, PlacesInv
<1>2. CASE FillHead
  <2>1. Taken(t)' /\ t \in 0 .. sent'
    BY <1>2 DEF FillHead, Taken
  <2> QED BY <1>2, <2>1 DEF FillHead, FifoInv, CountersInv, PlacesInv
<1>3. CASE FillBody
  <2>1. Taken(t)' /\ t \in 0 .. sent'
    BY <1>3 DEF FillBody, Taken
  <2> QED BY <1>3, <2>1 DEF FillBody, FifoInv, CountersInv, PlacesInv
<1>4. CASE Publish
  <2>1. claimed \in Slots /\ m_data[claimed] = sent + 1 /\ claimed = Pos(sent)
        /\ m_in = (sent + 1) % CounterMod
    BY <1>4 DEF Publish, FifoInv, CountersInv
  <2>2. Taken(t)' /\ t \in 0 .. sent'
    BY <1>4 DEF Publish, Taken
  <2>3. CountersInv'
    BY <1>4, <2>1, <2>2 DEF Publish, CountersInv
  <2>4. \A s \in ActiveSlots' : s = claimed \/ s \in ActiveSlots
    BY <1>4, <2>1 DEF Publish
  <2>5. Pos(m_data[claimed] - 1) = claimed
    BY <2>1
  <2>6. PlacesInv'
    BY <1>4, <2>1, <2>4, <2>5 DEF Publish, FifoInv, PlacesInv
  <2> QED BY <2>3, <2>6 DEF FifoInv
<1>5. CASE Invalidate
  BY <1>5 DEF Invalidate
<1>6. CASE SkipInvalid
  <2>1. Pos(m_out) \in Slots
    BY PosIsSlot
  <2> QED BY <1>6, <2>1 DEF SkipInvalid, FifoInv, PlacesInv
<1>7. CASE Dequeue
  <2>1. Next32(m_out) = (t + 1) % CounterMod
    BY WrappedCount DEF Taken
  <2>2. Pos(m_out) \in Slots /\ m_data[Pos(m_out)] = t + 1 /\ t + 1 <= sent
    BY <1>7, OldestAtOut
  <2>3. Taken(t + 1)' /\ t + 1 \in 0 .. sent'
    BY <1>7, <2>1, <2>2 DEF Dequeue, Taken
  <2> QED BY <1>7, <2>3 DEF Dequeue, FifoInv, CountersInv, PlacesInv
<1>8. CASE Release
  <2>1. held \in ActiveSlots /\ ActiveSlots' = ActiveSlots \ {held}
    BY <1>8 DEF Release
  <2>2. Taken(t)' /\ t \in 0 .. sent'
    BY <1>8, <2>1 DEF Release, Taken
  <2> QED BY <1>8, <2>1, <2>2 DEF Release, FifoInv, CountersInv, PlacesInv
<1>9. CASE Stop \/ UNCHANGED vars
  <2>1. Taken(t)' /\ t \in 0 .. sent'
    BY <1>9 DEF Stop, vars, Taken
  <2> QED BY <1>9, <2>1 DEF Stop, vars, FifoInv, CountersInv, PlacesInv
<1> QED
  BY <1>1, <1>2, <1>3, <1>4, <1>5, <1>6, <1>7, <1>8, <1>9
  DEF Next, Producer, Consumer

LEMMA FifoInvariance == ASSUME ~CanFail PROVE SafetySpec => []FifoInv
<1>1. IInv /\ FifoInv /\ [Next]_vars => FifoInv'
  BY NextFifo
<1> QED BY <1>1, InitFifo, Invariance, PTL DEF SafetySpec

-----------------------------------------------------------------------------
(* The ring implements the channel.                                        *)

\* The slots other than the held one, and their messages, are what is pending.
LEMMA StepsOfChannel == ASSUME IInv, ~CanFail => FifoInv, [Next]_vars
                        PROVE [Channel!Next]_(Channel!vars)
<1> USE DEF IInv, TypeOK, ProducerInv, ConsumerInv, ActiveSlots
<1> NoSlot \notin Slots BY DEF NoSlot, Slots
<1> SUFFICES Channel!Next \/ UNCHANGED <<sent, Pending, Handling, received, stopped>>
  BY DEF Channel!vars
<1>1. CASE Enqueue
  BY <1>1 DEF Enqueue, Pending, Handling
<1>2. CASE FillHead
  <2>1. \A s \in Slots : s # claimed => m_data'[s] = m_data[s]
    BY <1>2 DEF FillHead
  <2> QED BY <1>2, <2>1 DEF FillHead, Pending, Handling
<1>3. CASE FillBody
  <2>1. \A s \in Slots : s # claimed => m_data'[s] = m_data[s]
    BY <1>3 DEF FillBody
  <2> QED BY <1>3, <2>1 DEF FillBody, Pending, Handling
<1>4. CASE Publish
  <2>1. claimed \in Slots /\ claimed # held /\ m_data[claimed] = sent + 1
    BY <1>4 DEF Publish
  <2>2. ActiveSlots' \ {held'} = (ActiveSlots \ {held}) \cup {claimed}
    BY <1>4, <2>1 DEF Publish
  <2>3. Pending' = Pending \cup {sent + 1}
    BY <1>4, <2>1, <2>2 DEF Publish, Pending
  <2>4. Channel!Send
    BY <1>4, <2>3 DEF Publish, Channel!Send, Handling
  <2> QED BY <2>4 DEF Channel!Next
<1>5. CASE Invalidate
  BY <1>5 DEF Invalidate, Pending, Handling
<1>6. CASE SkipInvalid
  BY <1>6 DEF SkipInvalid, Pending, Handling
<1>7. CASE Dequeue
  <2> DEFINE p == Pos(m_out)
  <2>1. p \in ActiveSlots /\ m_data[p] \in Nat \ {0}
    BY <1>7, PosIsSlot DEF Dequeue, ExactlyOnce
  <2>2. Handling = 0 /\ Handling' = m_data[p] /\ m_data[p] \in Pending
    BY <1>7, <2>1 DEF Dequeue, Handling, Pending
  <2>3. Pending' = Pending \ {m_data[p]}
    BY <1>7, <2>1 DEF Dequeue, Pending, ExactlyOnce
  <2>4. ~CanFail => \A n \in Pending : m_data[p] <= n
    <3> SUFFICES ASSUME ~CanFail PROVE \A n \in Pending : m_data[p] <= n
      OBVIOUS
    <3>1. PICK t \in 0 .. sent : Taken(t)
      BY DEF FifoInv, CountersInv
    <3>2. m_data[p] = t + 1
      BY <1>7, <3>1, OldestAtOut
    <3>3. Pending \subseteq (1 .. sent) \ (1 .. t)
      BY <1>7, <3>1 DEF Dequeue, Taken, Pending, ExactlyOnce
    <3> QED BY <3>2, <3>3
  <2>5. Channel!Receive
    BY <1>7, <2>2, <2>3, <2>4 DEF Dequeue, Channel!Receive, Channel!Nothing
  <2> QED BY <2>5 DEF Channel!Next
<1>8. CASE Release
  <2>1. held \in ActiveSlots /\ ActiveSlots' = ActiveSlots \ {held} /\ held' = NoSlot
    BY <1>8 DEF Release
  <2>2. Handling = m_data[held] /\ Handling # 0 /\ Handling' = 0
    BY <2>1 DEF Handling, ExactlyOnce
  <2>3. Pending' = Pending
    BY <1>8, <2>1 DEF Release, Pending
  <2>4. Channel!Done
    BY <1>8, <2>2, <2>3 DEF Release, Channel!Done, Channel!Nothing
  <2> QED BY <2>4 DEF Channel!Next
<1>9. CASE Stop
  <2>1. held \in Slots /\ m_flag[held] = "ACTIVE"
    BY <1>9 DEF Stop
  <2>2. Handling = m_data[held] /\ Handling # 0
    BY <1>9, <2>1 DEF Stop, Handling, ExactlyOnce
  <2>3. Channel!Stop
    BY <1>9, <2>2 DEF Stop, Channel!Stop, Channel!Nothing, Pending, Handling
  <2> QED BY <2>3 DEF Channel!Next
<1>10. CASE UNCHANGED vars
  BY <1>10 DEF vars, Pending, Handling
<1> QED
  BY <1>1, <1>2, <1>3, <1>4, <1>5, <1>6, <1>7, <1>8, <1>9, <1>10
  DEF Next, Producer, Consumer

LEMMA InitOfChannel == Init => Channel!Init
BY DEF Init, Channel!Init, Channel!Nothing, Pending, Handling, ActiveSlots, NoSlot

\* A receive queue is a channel that delivers every message at most once, in
\* some order, and a send queue one that delivers them in order.
THEOREM Implementation == SafetySpec => ImplementsChannel
<1>1. CASE CanFail
  <2>1. IInv /\ [Next]_vars => [Channel!Next]_(Channel!vars)
    BY <1>1, StepsOfChannel
  <2> QED BY <2>1, InitOfChannel, Invariance, PTL
          DEF SafetySpec, ImplementsChannel, Channel!SafetySpec
<1>2. CASE ~CanFail
  <2>1. IInv /\ FifoInv /\ [Next]_vars => [Channel!Next]_(Channel!vars)
    BY StepsOfChannel
  <2>2. SafetySpec => []FifoInv
    BY <1>2, FifoInvariance
  <2> QED BY <2>1, <2>2, InitOfChannel, Invariance, PTL
          DEF SafetySpec, ImplementsChannel, Channel!SafetySpec
<1> QED BY <1>1, <1>2
=============================================================================
