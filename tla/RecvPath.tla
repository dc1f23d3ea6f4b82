------------------------------ MODULE RecvPath ------------------------------
(***************************************************************************)
(* How messages get from one connection into the receive queue             *)
(* (Net::product_msg and Net::recvmsg, src/Net/Net.cpp): epoll reports an  *)
(* edge, the thread claims a slot and then calls recvmsg until it has      *)
(* drained the connection or the queue is full; recvmsg reads a head, and  *)
(* the body whose length the head gives.  The bytes come from TcpSocket.   *)
(***************************************************************************)
EXTENDS TcpSocket

CONSTANTS HeadSize,    \* MSG_HEAD_SIZE
          BodyLens,    \* the body lengths a peer uses
          MaxFrames,   \* how many messages it sends
          QueueSize    \* slots of g_recv_queue

ASSUME FrameAssumption ==
    /\ HeadSize \in 1 .. Size
    /\ BodyLens \subseteq 0 .. Size
    /\ MaxFrames \in Nat /\ QueueSize \in Nat \ {0}

VARIABLES frames,    \* body length of every message the peer sends
          edge,      \* epoll has an event for the connection
          stage,     \* where product_msg is
          m_len,     \* m_head.m_len, decoded from the last head
          got,       \* messages published
          queued,    \* of them, still in the queue
          stalled    \* the last drain ended because the queue was full

loopVars == <<frames, edge, stage, m_len, got, queued, stalled>>
vars == <<sockVars, loopVars>>

\* The end of the k-th message in the stream.
End ==
    LET e[k \in 0 .. MaxFrames] == IF k = 0 THEN 0 ELSE e[k - 1] + HeadSize + frames[k]
    IN  e

\* msg_head::decode: the length in a head, when the bytes are a head.
Decoded(b) ==
    LET starts == {k \in 1 .. MaxFrames : End[k - 1] + 1 = b} IN
    IF starts = {} THEN BodyLens ELSE {frames[k] : k \in starts}

-----------------------------------------------------------------------------
\* Bytes and the end of the stream make an edge (EPOLLET, Epoll::Init).
StreamArrives ==
    /\ arrived < End[MaxFrames]
    /\ Arrive
    /\ edge' = TRUE
    /\ UNCHANGED <<frames, stage, m_len, got, queued, stalled>>

StreamEnds ==
    /\ PeerEnds
    /\ edge' = TRUE
    /\ UNCHANGED <<frames, stage, m_len, got, queued, stalled>>

\* Epoll::Wait returns the connection; with EPOLLIN alone it is drained.
WaitReadable ==
    /\ stage = "wait"
    /\ edge /\ peer = "open"
    /\ edge' = FALSE
    /\ stage' = "claim"
    /\ UNCHANGED <<sockVars, frames, m_len, got, queued, stalled>>

\* Any other event, EPOLLIN | EPOLLRDHUP among them: the connection is erased,
\* with what it still holds.
WaitErased ==
    /\ stage = "wait"
    /\ edge /\ peer # "open"
    /\ edge' = FALSE
    /\ stage' = "erased"
    /\ UNCHANGED <<sockVars, frames, m_len, got, queued, stalled>>

\* The first slot is waited for.
ClaimFirst ==
    /\ stage = "claim"
    /\ queued < QueueSize
    /\ stalled' = FALSE
    /\ stage' = "head"
    /\ UNCHANGED <<sockVars, frames, edge, m_len, got, queued>>

CallHead ==
    /\ stage = "head"
    /\ CallRecv(HeadSize)
    /\ stage' = "headret"
    /\ UNCHANGED <<frames, edge, m_len, got, queued, stalled>>

InCall ==
    /\ RecvStep
    /\ UNCHANGED loopVars

\* recvmsg returns 0 or an error for the head: the slot becomes INVALID, and
\* the drain ends.
HeadFails ==
    /\ stage = "headret" /\ pc = "idle" /\ ret <= 0
    /\ stage' = IF ret = EAGAIN THEN "wait" ELSE "erased"
    /\ UNCHANGED <<sockVars, frames, edge, m_len, got, queued, stalled>>

HeadDecoded ==
    /\ stage = "headret" /\ pc = "idle" /\ ret > 0
    /\ m_len' \in Decoded(out[1])
    /\ stage' = IF m_len' > 0 THEN "body" ELSE "complete"
    /\ UNCHANGED <<sockVars, frames, edge, got, queued, stalled>>

CallBody ==
    /\ stage = "body"
    /\ CallRecv(m_len)
    /\ stage' = "bodyret"
    /\ UNCHANGED <<frames, edge, m_len, got, queued, stalled>>

\* Faulty: recvmsg returns when the body is not there yet.
BodyGivesUp ==
    /\ stage = "bodyret" /\ pc = "idle"
    /\ stage' = CASE ret > 0 -> "complete" [] ret = EAGAIN -> "wait" [] OTHER -> "erased"
    /\ UNCHANGED <<sockVars, frames, edge, m_len, got, queued, stalled>>

\* With the head gone from the ring the body must be read: recvmsg spins until
\* the bytes are there.
BodyReturned ==
    /\ stage = "bodyret" /\ pc = "idle"
    /\ stage' = CASE ret > 0 -> "complete" [] ret = EAGAIN -> "body" [] OTHER -> "erased"
    /\ UNCHANGED <<sockVars, frames, edge, m_len, got, queued, stalled>>

\* Faulty: the thread goes back to epoll after one message.
PublishOnce ==
    /\ stage = "complete"
    /\ got' = got + 1
    /\ queued' = queued + 1
    /\ stage' = "wait"
    /\ UNCHANGED <<sockVars, frames, edge, m_len, stalled>>

\* The slot becomes ACTIVE.
PublishFrame ==
    /\ stage = "complete"
    /\ got' = got + 1
    /\ queued' = queued + 1
    /\ stage' = "next"
    /\ UNCHANGED <<sockVars, frames, edge, m_len, stalled>>

\* The loop claims the next slot; when it gets none the loop ends, with the
\* edge consumed.  The slot at the queue's m_in can hold a message although
\* others are free: the consumer may have run ahead (DequeueNeverAhead of
\* MsgQueue), so any message in the queue may be the one in the way.
ClaimNext ==
    /\ stage = "next"
    /\ \/ queued < QueueSize /\ stage' = "head" /\ UNCHANGED stalled
       \/ queued > 0 /\ stage' = "wait" /\ stalled' = TRUE
    /\ UNCHANGED <<sockVars, frames, edge, m_len, got, queued>>

\* The run() thread releases a slot.
Consume ==
    /\ queued > 0
    /\ queued' = queued - 1
    /\ UNCHANGED <<sockVars, frames, edge, stage, m_len, got, stalled>>

-----------------------------------------------------------------------------
Init ==
    /\ SockInit
    /\ frames \in [1 .. MaxFrames -> BodyLens]
    /\ edge = FALSE /\ stage = "wait" /\ m_len = 0
    /\ got = 0 /\ queued = 0 /\ stalled = FALSE

ProductMsg ==
    \/ WaitReadable \/ WaitErased \/ ClaimFirst \/ CallHead \/ InCall
    \/ HeadFails \/ HeadDecoded \/ CallBody \/ BodyReturned \/ PublishFrame \/ ClaimNext

Next == StreamArrives \/ StreamEnds \/ ProductMsg \/ Consume

\* The receiving thread and the consuming one are loops; nothing is assumed
\* of the peer.
Spec == Init /\ [][Next]_vars /\ WF_vars(ProductMsg) /\ WF_vars(Consume)

-----------------------------------------------------------------------------
(* Properties.                                                             *)

\* recvmsg reads every head at the start of a message and every body after its
\* own head, however the two were split on their way and however often the
\* thread went back to epoll between two messages.
FramesAligned ==
    /\ stage \in {"wait", "claim", "head", "next", "complete"} =>
          taken = IF stage = "complete" THEN End[got + 1] ELSE End[got]
    /\ stage \in {"body", "bodyret", "complete"} => m_len = frames[got + 1]

\* The thread sleeps in epoll only when the connection has nothing for it, or
\* epoll will wake it up, or it went to sleep because the queue was full: an
\* edge is never consumed with bytes of a head left unread.
NoLostWakeup ==
    stage = "wait" /\ ~edge /\ ~stalled => arrived - taken < HeadSize

\* A message that has arrived whole is published, unless the peer ends the
\* connection first or a full queue stalls it.
FrameDelivered ==
    \A k \in 1 .. MaxFrames :
        (arrived >= End[k]) ~> (got >= k \/ peer # "open" \/ stalled)
=============================================================================
