-------------------------- MODULE TcpSocketProofs --------------------------
(***************************************************************************)
(* Theorems about TcpSocket and its use in RecvPath: for every size of the *)
(* ring and every width of its counters, and however the stream arrives,   *)
(* the ring neither loses nor mixes up a byte.                             *)
(***************************************************************************)
EXTENDS RecvPath, ModularArithmetic, Counting

\* The counters stand for the bytes read from the kernel and handed out.
CountersInv ==
    /\ taken <= kread /\ kread <= arrived /\ kread - taken <= Size
    /\ m_in = kread % CounterMod
    /\ m_out = taken % CounterMod

ContentsInv == \A b \in (taken + 1) .. kread : m_buffer[Pos(b - 1)] = b

\* A read under way goes to the position of the next byte and stays within the
\* storage and the free part of the ring.
ReadInv ==
    pc = "read" => /\ at = Pos(kread)
                   /\ 1 <= left /\ left <= Size - at
                   /\ left <= Size - (kread - taken)

SockInv == SockTypeOK /\ CountersInv /\ ContentsInv /\ ReadInv /\ StreamInOrder

-----------------------------------------------------------------------------
(* Positions.                                                              *)

LEMMA PosInRing == ASSUME NEW x \in Nat PROVE Pos(x) \in 0 .. (Size - 1)
BY RingAssumption, DivMod DEF Pos

\* Counting on without a wrap moves the position by as much.
LEMMA PosAdd == ASSUME NEW x \in Nat, NEW k \in Nat, Pos(x) + k < Size
                PROVE Pos(x + k) = Pos(x) + k
<1>1. k \in 0 .. Size
  BY PosInRing, RingAssumption
<1> QED BY <1>1, RingAssumption, ModStep DEF Pos

\* Counting on with a wrap begins again at the front.
LEMMA PosWrap == ASSUME NEW x \in Nat, NEW k \in 0 .. Size, Pos(x) + k >= Size
                 PROVE Pos(x + k) = Pos(x) + k - Size
<1>1. ~(Pos(x) + k < Size)
  BY PosInRing, RingAssumption
<1> QED BY <1>1, RingAssumption, ModStep DEF Pos

\* Counts less than a ring apart have different positions.
LEMMA PosApart == ASSUME NEW x \in Nat, NEW y \in Nat, x < y, y - x < Size
                  PROVE Pos(x) # Pos(y)
<1> DEFINE k == y - x
<1>1. k \in 1 .. (Size - 1) /\ k \in 0 .. Size /\ y = x + k
  BY RingAssumption
<1>2. Pos(x) \in 0 .. (Size - 1)
  BY PosInRing
<1> HIDE DEF k
<1>3. CASE Pos(x) + k < Size
  BY <1>1, <1>2, <1>3, PosAdd
<1>4. CASE ~(Pos(x) + k < Size)
  <2>1. Pos(x) + k >= Size
    BY <1>1, <1>2, <1>4, RingAssumption
  <2>2. Pos(x + k) = Pos(x) + k - Size
    BY <1>1, <2>1, PosWrap
  <2> QED BY <1>1, <1>2, <2>2, RingAssumption
<1> QED BY <1>3, <1>4

\* What tcp_recv and recv_full compute from the wrapped counters.
LEMMA Counts == ASSUME SockTypeOK, CountersInv
                PROVE /\ Buffered = kread - taken
                      /\ Free = Size - (kread - taken)
                      /\ Pos(m_in) = Pos(kread)
                      /\ Pos(m_out) = Pos(taken)
<1> USE RingAssumption DEF SockTypeOK, CountersInv
<1>1. Buffered = kread - taken
  <2>1. kread - taken < CounterMod
    OBVIOUS
  <2>2. ((kread % CounterMod) - (taken % CounterMod)) % CounterMod = kread - taken
    BY <2>1, ModDifference
  <2> QED BY <2>2 DEF Buffered
<1>2. Pos(m_in) = Pos(kread) /\ Pos(m_out) = Pos(taken)
  BY ModMod DEF Pos
<1>3. Free = Size - (kread - taken)
  <2> DEFINE k == kread - taken
  <2>1. k \in 0 .. CounterMod - 1 /\ k \in 0 .. CounterMod /\ kread = taken + k
    OBVIOUS
  <2>2. taken % CounterMod \in 0 .. CounterMod - 1
    BY DivMod
  <2> HIDE DEF k
  <2>3. (taken + k) % CounterMod = IF (taken % CounterMod) + k < CounterMod
                                   THEN (taken % CounterMod) + k
                                   ELSE (taken % CounterMod) + k - CounterMod
    BY <2>1, ModStep
  <2>4. Size - m_in + m_out \in {Size - k, Size - k + CounterMod}
    BY <2>1, <2>2, <2>3
  <2>5. Size - k \in 0 .. CounterMod - 1
    BY <2>1 DEF k
  <2>6. (Size - k) % CounterMod = Size - k /\ (Size - k + CounterMod) % CounterMod = Size - k
    BY <2>5, ModNegative
  <2>7. Free = Size - k
    BY <2>4, <2>6 DEF Free
  <2> QED BY <2>7 DEF k
<1> QED BY <1>1, <1>2, <1>3

-----------------------------------------------------------------------------
(* The steps of the socket.                                                *)

LEMMA InitSock == SockInit => SockInv
<1> SUFFICES ASSUME SockInit PROVE SockInv
  OBVIOUS
<1>1. 0 = 0 % CounterMod
  BY RingAssumption, ModNegative
<1>2. SockTypeOK
  BY RingAssumption DEF SockInit, SockTypeOK, EAGAIN
<1> QED
  BY <1>1, <1>2, RingAssumption
  DEF SockInit, SockInv, CountersInv, ContentsInv, ReadInv, StreamInOrder

\* One read() puts the next n bytes of the stream into the free part of the
\* ring and leaves those that wait there alone.
LEMMA ReadStep == ASSUME SockInv, Read PROVE SockInv'
<1> USE RingAssumption DEF SockInv, SockTypeOK, CountersInv, ReadInv
<1>1. PICK n \in 1 .. Least(left, arrived - kread) :
        /\ m_buffer' = [s \in DOMAIN m_buffer |->
                          IF s \in at .. (at + n - 1) THEN kread + 1 + s - at ELSE m_buffer[s]]
        /\ m_in' = (m_in + n) % CounterMod
        /\ kread' = kread + n
        /\ left' = left - n
        /\ at' = at + n
        /\ pc' = IF n = left THEN "full" ELSE "read"
  BY DEF Read
<1>2. /\ n \in Nat \ {0} /\ n <= left /\ n <= arrived - kread
      /\ at = Pos(kread) /\ left <= Size - at /\ left <= Size - (kread - taken)
  BY DEF Read, Least
<1>3. /\ UNCHANGED <<arrived, peer, m_out, want, ret, out, taken>>
      /\ kread \in Nat /\ taken \in Nat /\ taken <= kread
  BY DEF Read, kernel
<1>4. SockTypeOK'
  <2>1. \A s \in at .. (at + n - 1) : kread + 1 + s - at \in Nat
    BY <1>3
  <2>2. m_buffer' \in [0 .. (Size - 1) -> Nat]
    BY <1>1, <2>1
  <2>3. m_in' \in 0 .. (CounterMod - 1)
    <3>1. m_in + n \in Nat
      BY <1>2
    <3>2. (m_in + n) % CounterMod \in 0 .. (CounterMod - 1)
      BY <3>1, DivMod
    <3> QED BY <1>1, <3>2
  <2>4. left' \in 0 .. Size /\ at' \in 0 .. Size /\ kread' \in Nat
        /\ pc' \in {"idle", "full", "read", "copy"}
    BY <1>1, <1>2, <1>3, SMTT(30)
  <2> QED BY <1>3, <2>2, <2>3, <2>4
<1>5. CountersInv'
  <2>1. ((kread % CounterMod) + n) % CounterMod = (kread + n) % CounterMod
    BY <1>2, <1>3, ModAdd
  <2>2. m_in' = kread' % CounterMod /\ m_out' = taken' % CounterMod
    BY <1>1, <1>3, <2>1
  <2>3. taken <= kread + n /\ kread + n <= arrived /\ (kread + n) - taken <= Size
    BY <1>2, <1>3
  <2> QED BY <1>1, <1>3, <2>2, <2>3
<1>6. ContentsInv'
  <2> SUFFICES ASSUME NEW b \in (taken + 1) .. (kread + n)
               PROVE m_buffer'[Pos(b - 1)] = b
    BY <1>1, <1>3 DEF ContentsInv, Pos
  <2>1. b - 1 \in Nat /\ Pos(b - 1) \in DOMAIN m_buffer
    <3>1. b - 1 \in Nat
      BY <1>2, <1>3
    <3>2. Pos(b - 1) \in 0 .. (Size - 1)
      BY <3>1, PosInRing
    <3> QED BY <3>1, <3>2
  <2>2. CASE b > kread
    <3> DEFINE j == b - 1 - kread
    <3>1. j \in 0 .. (n - 1) /\ b - 1 = kread + j
      BY <1>3, <2>2
    <3> HIDE DEF j
    <3>2. Pos(kread) + j < Size
      BY <1>2, <3>1
    <3>3. Pos(b - 1) = at + j
      BY <1>2, <1>3, <3>1, <3>2, PosAdd
    <3> QED BY <1>1, <1>3, <2>1, <3>1, <3>3, SMTT(30)
  <2>3. CASE b <= kread
    <3>1. m_buffer[Pos(b - 1)] = b
      BY <2>3 DEF ContentsInv
    <3>2. ASSUME Pos(b - 1) \in at .. (at + n - 1) PROVE FALSE
      <4> DEFINE j == Pos(b - 1) - at
      <4>1. j \in 0 .. (n - 1) /\ Pos(b - 1) = at + j
        BY <3>2, <2>1
      <4> HIDE DEF j
      <4>2. Pos(kread) + j < Size
        BY <1>2, <4>1
      <4>3. Pos(kread + j) = Pos(b - 1)
        BY <1>2, <1>3, <4>1, <4>2, PosAdd
      <4>4. b - 1 < kread + j /\ (kread + j) - (b - 1) < Size
        BY <1>2, <1>3, <2>3, <4>1
      <4> QED BY <1>3, <2>1, <4>1, <4>3, <4>4, PosApart
    <3> QED BY <1>1, <2>1, <3>1, <3>2
  <2> QED BY <1>3, <2>2, <2>3
<1>7. ReadInv'
  <2> SUFFICES ASSUME n # left
               PROVE /\ at + n = Pos(kread + n)
                     /\ 1 <= left - n /\ left - n <= Size - (at + n)
                     /\ left - n <= Size - (kread + n - taken)
    BY <1>1, <1>3 DEF Pos
  <2>1. Pos(kread) + n < Size
    BY <1>2
  <2>2. Pos(kread + n) = Pos(kread) + n
    BY <1>2, <1>3, <2>1, PosAdd
  <2>3. at \in Nat /\ left \in Nat /\ Size \in Nat
    BY <1>2
  <2> HIDE DEF SockInv, SockTypeOK, CountersInv, ReadInv
  <2> QED BY <1>2, <1>3, <2>2, <2>3
<1>8. StreamInOrder'
  BY <1>3 DEF StreamInOrder
<1> QED BY <1>4, <1>5, <1>6, <1>7, <1>8

\* The two pieces that tcp_recv copies are the next n bytes of the stream.
LEMMA Pieces == ASSUME SockInv, NEW n \in Nat, n <= Buffered
                PROVE FromRing(n) = [i \in 1 .. n |-> taken + i]
<1> USE RingAssumption DEF SockInv, SockTypeOK, CountersInv
<1> DEFINE len == Least(n, Size - Pos(m_out))
<1>1. Pos(m_out) = Pos(taken) /\ n <= kread - taken
  BY Counts
<1>2. Pos(taken) \in 0 .. (Size - 1)
  BY PosInRing
<1> SUFFICES ASSUME NEW i \in 1 .. n
             PROVE (IF i <= len THEN m_buffer[Pos(m_out) + i - 1]
                                ELSE m_buffer[i - len - 1]) = taken + i
  BY DEF FromRing
<1>3. m_buffer[Pos(taken + (i - 1))] = taken + i
  <2>1. taken + i \in (taken + 1) .. kread /\ (taken + i) - 1 = taken + (i - 1)
    BY <1>1
  <2> QED BY <2>1 DEF ContentsInv
<1>4. CASE i <= len
  <2>1. Pos(taken) + (i - 1) < Size
    BY <1>1, <1>2, <1>4 DEF Least
  <2>2. Pos(taken + (i - 1)) = Pos(taken) + (i - 1)
    BY <2>1, PosAdd
  <2> QED BY <1>1, <1>2, <1>3, <1>4, <2>2
<1>5. CASE ~(i <= len)
  <2>1. len = Size - Pos(taken) /\ Pos(taken) + (i - 1) >= Size /\ i - 1 \in 0 .. Size
    BY <1>1, <1>2, <1>5 DEF Least
  <2>2. Pos(taken + (i - 1)) = Pos(taken) + (i - 1) - Size
    BY <2>1, PosWrap
  <2>3. i - len - 1 = Pos(taken) + (i - 1) - Size
    BY <1>2, <2>1
  <2> QED BY <1>3, <1>5, <2>2, <2>3
<1> QED BY <1>4, <1>5

\* The caller gets the n bytes that follow those it already has.
LEMMA CopyStep == ASSUME SockInv, Copy PROVE SockInv'
<1> USE RingAssumption DEF SockInv, SockTypeOK, CountersInv
<1>1. /\ out' = [i \in 1 .. want |-> taken + i]
      /\ m_out' = (m_out + want) % CounterMod
      /\ taken' = taken + want /\ pc' = "idle" /\ ret' = want
      /\ UNCHANGED <<arrived, peer, kread, m_in, m_buffer, want, left, at>>
  BY Pieces DEF Copy, kernel, ring
<1>2. want <= kread - taken
  BY Counts DEF Copy
<1>3. out' \in [1 .. want -> Nat] /\ out' \in Seq(Nat)
  BY <1>1
<1>4. Len(out') = want
  BY <1>3
<1>5. SockTypeOK'
  <2>1. m_out + want \in Nat
    OBVIOUS
  <2>2. (m_out + want) % CounterMod \in 0 .. (CounterMod - 1)
    BY <2>1, DivMod
  <2>3. m_out' \in 0 .. (CounterMod - 1)
    BY <1>1, <2>2
  <2>4. taken' \in Nat /\ ret' \in Nat
    BY <1>1
  <2> QED BY <1>1, <1>3, <2>3, <2>4
<1>6. CountersInv'
  <2>1. ((taken % CounterMod) + want) % CounterMod = (taken + want) % CounterMod
    BY ModAdd
  <2>2. m_in' = kread' % CounterMod /\ m_out' = taken' % CounterMod
    BY <1>1, <2>1
  <2>3. taken + want <= kread /\ kread <= arrived /\ kread - (taken + want) <= Size
    BY <1>2
  <2> QED BY <1>1, <2>2, <2>3
<1>7. ContentsInv'
  <2>1. (taken + want + 1) .. kread \subseteq (taken + 1) .. kread
    OBVIOUS
  <2> QED BY <1>1, <2>1 DEF ContentsInv, Pos
<1>8. ReadInv'
  BY <1>1 DEF ReadInv
<1>9. StreamInOrder'
  <2>1. \A i \in 1 .. want : taken + i = taken + want - want + i
    OBVIOUS
  <2> QED BY <1>1, <1>4, <2>1 DEF StreamInOrder
<1> QED BY <1>5, <1>6, <1>7, <1>8, <1>9

\* Every step of the socket preserves the invariant.
LEMMA NextSock == ASSUME SockInv, [SockNext]_sockVars PROVE SockInv'
<1> USE DEF SockInv, SockTypeOK, CountersInv, ContentsInv, ReadInv, StreamInOrder,
            Pos, kernel, ring
<1>1. CASE Arrive
  BY <1>1 DEF Arrive
<1>2. CASE PeerEnds
  BY <1>2 DEF PeerEnds
<1>3. ASSUME NEW n \in Nat, CallRecv(n) PROVE SockInv'
  BY <1>3 DEF CallRecv
<1>4. CASE RecvFull
  <2> HIDE DEF Pos
  <2>1. Free = Size - (kread - taken) /\ Pos(m_in) = Pos(kread)
    BY Counts
  <2>2. Pos(kread) \in 0 .. (Size - 1)
    BY PosInRing
  <2>3. /\ at' = Pos(kread) /\ left' = Least(Size - (kread - taken), Size - Pos(kread))
        /\ Free # 0 /\ pc' = "read"
        /\ UNCHANGED <<arrived, peer, kread, m_in, m_buffer, m_out, want, ret, out, taken>>
    BY <1>4, <2>1 DEF RecvFull
  <2>4. left' \in 1 .. (Size - Pos(kread)) /\ left' <= Size - (kread - taken)
    BY <2>1, <2>2, <2>3, RingAssumption, SMTT(30) DEF Least
  <2>5. left' \in 0 .. Size /\ at' \in 0 .. Size
    BY <2>2, <2>3, <2>4, RingAssumption
  <2>6. Pos(kread)' = Pos(kread)
    BY <2>3 DEF Pos
  <2>7. SockTypeOK'
    BY <2>3, <2>5
  <2>8. CountersInv' /\ ContentsInv' /\ StreamInOrder'
    BY <2>3 DEF Pos
  <2>9. ReadInv'
    BY <2>2, <2>3, <2>4, <2>6
  <2> QED BY <2>7, <2>8, <2>9
<1>5. CASE RecvFullNoRoom
  BY <1>5 DEF RecvFullNoRoom
<1>6. CASE Read
  BY <1>6, ReadStep
<1>7. CASE ReadAgain
  BY <1>7 DEF ReadAgain
<1>8. CASE ReadFails
  BY <1>8 DEF ReadFails
<1>9. CASE Copy
  BY <1>9, CopyStep
<1>10. CASE TooFew
  BY <1>10 DEF TooFew, EAGAIN
<1>11. CASE UNCHANGED sockVars
  BY <1>11 DEF sockVars
<1> QED
  BY <1>1, <1>2, <1>3, <1>4, <1>5, <1>6, <1>7, <1>8, <1>9, <1>10, <1>11
  DEF SockNext, RecvStep

LEMMA SockInvariance == SockSpec => []SockInv
BY InitSock, NextSock, PTL DEF SockSpec

-----------------------------------------------------------------------------
(* What the receiving thread does with the socket.                         *)

\* The lengths that product_msg decodes are numbers.
LengthInv == m_len \in Nat /\ frames \in [1 .. MaxFrames -> BodyLens]

LEMMA LengthInvariance == Spec => []LengthInv
<1> USE FrameAssumption, RingAssumption DEF LengthInv
<1>1. Init => LengthInv
  BY DEF Init
<1>2. LengthInv /\ [Next]_vars => LengthInv'
  <2> SUFFICES ASSUME LengthInv, [Next]_vars PROVE LengthInv'
    OBVIOUS
  <2>1. CASE HeadDecoded
    <3>1. \A k \in 1 .. MaxFrames : frames[k] \in BodyLens
      OBVIOUS
    <3>2. Decoded(out[1]) \subseteq BodyLens
      BY <3>1 DEF Decoded
    <3>3. m_len' \in Decoded(out[1]) /\ frames' = frames
      BY <2>1 DEF HeadDecoded
    <3>4. m_len' \in BodyLens
      BY <3>2, <3>3 DEF LengthInv
    <3>5. m_len' \in Nat
      BY <3>4
    <3> QED BY <3>3, <3>5
  <2>2. CASE ~HeadDecoded
    BY <2>2 DEF Next, ProductMsg, vars, loopVars, StreamArrives, StreamEnds,
       WaitReadable, WaitErased, ClaimFirst, CallHead, InCall, HeadFails, CallBody,
       BodyReturned, PublishFrame, ClaimNext, Consume
  <2> QED BY <2>1, <2>2
<1> QED BY <1>1, <1>2, PTL DEF Spec

\* Net::product_msg and Net::recvmsg use the socket as any caller may: a step of
\* theirs is a step of the socket or leaves it alone.
THEOREM SocketImplemented == Spec => SockSpec
<1>1. Init => SockInit
  BY DEF Init
<1>2. LengthInv /\ [Next]_vars => [SockNext]_sockVars
  <2> SUFFICES ASSUME LengthInv, [Next]_vars PROVE SockNext \/ UNCHANGED sockVars
    OBVIOUS
  <2>1. CASE CallHead
    BY <2>1, FrameAssumption, RingAssumption DEF CallHead, SockNext
  <2>2. CASE CallBody
    BY <2>2 DEF CallBody, SockNext, LengthInv
  <2>3. CASE StreamArrives \/ StreamEnds \/ InCall
    BY <2>3 DEF StreamArrives, StreamEnds, InCall, SockNext
  <2>4. CASE ~(CallHead \/ CallBody \/ StreamArrives \/ StreamEnds \/ InCall)
    BY <2>4 DEF Next, ProductMsg, vars, WaitReadable, WaitErased, ClaimFirst,
       HeadFails, HeadDecoded, BodyReturned, PublishFrame, ClaimNext, Consume
  <2> QED BY <2>1, <2>2, <2>3, <2>4
<1> QED BY <1>1, <1>2, LengthInvariance, PTL DEF Spec, SockSpec

\* The variables of the socket have their types.
THEOREM SocketTypes == Spec => []SockTypeOK
<1>1. SockInv => SockTypeOK
  BY DEF SockInv
<1> QED BY <1>1, SocketImplemented, SockInvariance, PTL

\* tcp_recv's ring holds exactly the bytes that were read and not handed out,
\* for every size of the ring, every chunk the kernel delivers and every wrap.
THEOREM RingKeepsStream == Spec => []RingHoldsStream
<1>1. SockInv => RingHoldsStream
  BY Counts DEF SockInv, CountersInv, ContentsInv, RingHoldsStream
<1> QED BY <1>1, SocketImplemented, SockInvariance, PTL

\* Every call of tcp_recv hands out the bytes that follow those of the last.
THEOREM CallersSeeStream == Spec => []StreamInOrder
<1>1. SockInv => StreamInOrder
  BY DEF SockInv
<1> QED BY <1>1, SocketImplemented, SockInvariance, PTL

-----------------------------------------------------------------------------
(* No edge is lost.                                                        *)

\* What the receiving thread knows of the connection, unless there is an edge
\* to come back for: before it copies a head, that the ring has one or the
\* kernel is empty; after a call that returned nothing, that there is none.
WakeInv ==
    /\ stage \notin {"headret", "bodyret"} => pc = "idle"
    /\ stage = "headret" => want = HeadSize
    /\ stage = "headret" /\ pc = "copy" /\ ~edge => want <= Buffered \/ kread = arrived
    /\ stage = "headret" /\ pc = "idle" /\ ret = EAGAIN /\ ~edge =>
          arrived - taken < HeadSize
    /\ NoLostWakeup

\* The steps of tcp_recv while a head is being read.
LEMMA WakeInCall == ASSUME SockInv, WakeInv, InCall, stage = "headret" PROVE WakeInv'
<1> USE DEF WakeInv, NoLostWakeup, InCall, loopVars, kernel, ring, Buffered
<1>1. /\ kread - taken = Buffered /\ Free = Size - (kread - taken)
      /\ kread \in Nat /\ taken \in Nat /\ arrived \in Nat
      /\ HeadSize \in 1 .. Size /\ Size \in Nat
  BY Counts, FrameAssumption, RingAssumption DEF SockInv, SockTypeOK
<1>2. CASE RecvFull
  BY <1>2 DEF RecvFull
<1>3. CASE RecvFullNoRoom
  <2>1. want <= Buffered
    BY <1>1, <1>3 DEF RecvFullNoRoom
  <2> QED BY <1>3, <2>1 DEF RecvFullNoRoom
<1>4. CASE Read
  <2>1. pc' \in {"full", "read"}
    BY <1>4 DEF Read
  <2> QED BY <1>4, <2>1 DEF Read
<1>5. CASE ReadAgain
  BY <1>5 DEF ReadAgain
<1>6. CASE ReadFails
  BY <1>6 DEF ReadFails, ERROR_CLOSE, ERROR_UNKNOWN, EAGAIN
<1>7. CASE Copy
  BY <1>1, <1>7 DEF Copy, EAGAIN
<1>8. CASE TooFew
  <2>1. ~edge => arrived - taken < HeadSize
    BY <1>1, <1>8 DEF TooFew
  <2> QED BY <1>8, <2>1 DEF TooFew
<1> QED BY <1>2, <1>3, <1>4, <1>5, <1>6, <1>7, <1>8 DEF RecvStep

LEMMA NextWake == ASSUME SockInv, WakeInv, [Next]_vars PROVE WakeInv'
<1> USE DEF WakeInv, NoLostWakeup
<1>1. CASE StreamArrives
  BY <1>1 DEF StreamArrives, Arrive
<1>2. CASE StreamEnds
  BY <1>2 DEF StreamEnds, PeerEnds
<1>3. CASE InCall
  <2>1. pc # "idle"
    BY <1>3 DEF InCall, RecvStep, RecvFull, RecvFullNoRoom, Read, ReadAgain, ReadFails,
       Copy, TooFew
  <2>2. CASE stage = "headret"
    BY <1>3, <2>2, WakeInCall
  <2>3. CASE stage = "bodyret"
    BY <1>3, <2>3 DEF InCall, loopVars
  <2> QED BY <2>1, <2>2, <2>3
<1>4. CASE CallHead
  <2>1. pc' = IF Buffered < HeadSize THEN "full" ELSE "copy"
    BY <1>4 DEF CallHead, CallRecv
  <2>2. Buffered \in Int /\ HeadSize \in Int
    BY Counts, FrameAssumption, RingAssumption DEF SockInv, SockTypeOK
  <2>3. Buffered' = Buffered /\ want' = HeadSize /\ stage' = "headret"
    BY <1>4 DEF CallHead, CallRecv, Buffered, ring
  <2> QED BY <2>1, <2>2, <2>3
<1>5. CASE CallBody
  BY <1>5 DEF CallBody
<1>6. CASE HeadFails
  BY <1>6 DEF HeadFails, sockVars
<1>7. CASE WaitReadable \/ WaitErased \/ ClaimFirst \/ HeadDecoded \/ BodyReturned
           \/ PublishFrame \/ ClaimNext
  BY <1>7 DEF WaitReadable, WaitErased, ClaimFirst, HeadDecoded, BodyReturned,
     PublishFrame, ClaimNext, sockVars
<1>8. CASE Consume \/ UNCHANGED vars
  BY <1>8 DEF Consume, vars, loopVars, sockVars, Buffered
<1> QED
  BY <1>1, <1>2, <1>3, <1>4, <1>5, <1>6, <1>7, <1>8 DEF Next, ProductMsg

\* Net::product_msg never sleeps in epoll on a connection with a head to read
\* and no edge to come, unless the queue was full.
THEOREM NoEdgeLost == Spec => []NoLostWakeup
<1>1. Init => WakeInv
  BY FrameAssumption DEF Init, SockInit, WakeInv, NoLostWakeup
<1>2. SockInv /\ WakeInv /\ [Next]_vars => WakeInv'
  BY NextWake
<1>3. WakeInv => NoLostWakeup
  BY DEF WakeInv
<1> QED BY <1>1, <1>2, <1>3, SocketImplemented, SockInvariance, PTL DEF Spec

-----------------------------------------------------------------------------
(* Where messages end in the stream.                                       *)

\* The function in the definition of End.
Summed(e) == e = [k \in 0 .. MaxFrames |-> IF k = 0 THEN 0 ELSE e[k - 1] + HeadSize + frames[k]]

\* It exists, and so has the value its definition says.
LEMMA EndExists == Summed(End)
<1> DEFINE Step(e, k) == IF k = 0 THEN 0 ELSE e[k - 1] + HeadSize + frames[k]
           Exists(m) == \E e : e = [k \in 0 .. m |-> Step(e, k)]
           A == {m \in Nat : Exists(m)}
<1>1. MaxFrames \in Nat
  BY FrameAssumption
<1>2. Exists(0)
  <2> DEFINE e == [k \in 0 .. 0 |-> 0]
  <2>1. e = [k \in 0 .. 0 |-> Step(e, k)]
    OBVIOUS
  <2> QED BY <2>1
<1>3. ASSUME NEW m \in Nat, Exists(m) PROVE Exists(m + 1)
  <2>1. PICK e : e = [k \in 0 .. m |-> Step(e, k)]
    BY <1>3
  <2> DEFINE g == [k \in 0 .. m + 1 |-> IF k = m + 1 THEN Step(e, k) ELSE e[k]]
  <2>2. \A k \in 0 .. m : g[k] = e[k]
    OBVIOUS
  <2>3. ASSUME NEW k \in 0 .. m + 1 PROVE g[k] = Step(g, k)
    <3>1. CASE k = 0
      <4>1. e[0] = 0
        BY <2>1
      <4> QED BY <2>2, <3>1, <4>1
    <3>2. CASE k # 0
      <4>1. k - 1 \in 0 .. m
        BY <3>2
      <4>2. g[k - 1] = e[k - 1]
        BY <2>2, <4>1
      <4>3. g[k] = Step(e, k)
        <5>1. CASE k = m + 1
          BY <5>1
        <5>2. CASE k # m + 1
          <6>1. k \in 0 .. m
            BY <5>2
          <6> QED BY <2>1, <2>2, <6>1
        <5> QED BY <5>1, <5>2
      <4> QED BY <3>2, <4>2, <4>3
    <3> QED BY <3>1, <3>2
  <2>4. g = [k \in 0 .. m + 1 |-> Step(g, k)]
    BY <2>3
  <2> HIDE DEF g
  <2> QED BY <2>4
<1>4. Exists(MaxFrames)
  <2> HIDE DEF Exists
  <2>1. 0 .. MaxFrames \subseteq A
    <3>1. 0 \in A /\ \A m \in 0 .. MaxFrames - 1 : m \in A => m + 1 \in A
      BY <1>2, <1>3
    <3> HIDE DEF A
    <3> QED BY <1>1, <3>1, CountUp
  <2> QED BY <1>1, <2>1
<1>5. \E e : Summed(e)
  BY <1>4 DEF Summed
<1>6. End = CHOOSE e : Summed(e)
  BY DEF End, Summed
<1> QED BY <1>5, <1>6

\* Its values, one message after the other.
LEMMA EndValues ==
    ASSUME frames \in [1 .. MaxFrames -> BodyLens]
    PROVE  /\ End[0] = 0
           /\ \A k \in 1 .. MaxFrames : End[k] = End[k - 1] + HeadSize + frames[k]
           /\ \A k \in 0 .. MaxFrames : End[k] \in Nat
<1>0. BodyLens \subseteq Nat
  BY FrameAssumption, RingAssumption
<1>1. /\ MaxFrames \in Nat /\ HeadSize \in Nat
      /\ \A k \in 1 .. MaxFrames : frames[k] \in Nat
  <2>1. \A k \in 1 .. MaxFrames : frames[k] \in BodyLens
    OBVIOUS
  <2>2. MaxFrames \in Nat /\ HeadSize \in Nat
    BY FrameAssumption, RingAssumption
  <2> QED BY <1>0, <2>1, <2>2
<1>2. End[0] = 0
  BY <1>1, EndExists DEF Summed
<1>3. \A k \in 1 .. MaxFrames : End[k] = End[k - 1] + HeadSize + frames[k]
  <2>1. \A k \in 1 .. MaxFrames : k \in 0 .. MaxFrames /\ k # 0
    BY <1>1
  <2> QED BY <2>1, EndExists DEF Summed
<1> DEFINE A == {k \in 0 .. MaxFrames : End[k] \in Nat}
<1>4. 0 \in A
  BY <1>1, <1>2
<1>5. ASSUME NEW k \in 0 .. MaxFrames - 1, k \in A PROVE k + 1 \in A
  <2>1. k + 1 \in 1 .. MaxFrames /\ (k + 1) - 1 = k
    BY <1>1
  <2>2. End[k + 1] = End[k] + HeadSize + frames[k + 1]
    BY <1>3, <2>1
  <2>3. End[k + 1] \in Nat
    BY <1>1, <1>5, <2>1, <2>2
  <2> QED BY <2>1, <2>3
<1>6. 0 .. MaxFrames \subseteq A
  <2> HIDE DEF A
  <2> QED BY <1>1, <1>4, <1>5, CountUp
<1> QED BY <1>2, <1>3, <1>6

\* No two messages end at the same place.
LEMMA EndsApart ==
    ASSUME frames \in [1 .. MaxFrames -> BodyLens],
           NEW k \in 0 .. MaxFrames, NEW l \in 0 .. MaxFrames, k < l
    PROVE  End[k] < End[l]
<1>0. BodyLens \subseteq Nat
  BY FrameAssumption, RingAssumption
<1>1. /\ MaxFrames \in Nat /\ HeadSize \in Nat \ {0}
      /\ \A m \in 1 .. MaxFrames : frames[m] \in Nat
  <2>1. \A m \in 1 .. MaxFrames : frames[m] \in BodyLens
    OBVIOUS
  <2>2. MaxFrames \in Nat /\ HeadSize \in Nat \ {0}
    BY FrameAssumption, RingAssumption
  <2> QED BY <1>0, <2>1, <2>2
<1> DEFINE A == {m \in Nat : k + 1 + m <= MaxFrames => End[k] < End[k + 1 + m]}
<1>2. ASSUME NEW m \in 0 .. MaxFrames - 1 PROVE End[m] < End[m + 1]
  <2>1. m + 1 \in 1 .. MaxFrames /\ (m + 1) - 1 = m /\ m \in 0 .. MaxFrames
    BY <1>1
  <2>2. End[m + 1] = End[m] + HeadSize + frames[m + 1] /\ End[m] \in Nat
    BY <2>1, EndValues
  <2> QED BY <1>1, <2>1, <2>2
<1>3. 0 \in A
  BY <1>1, <1>2
<1>4. ASSUME NEW m \in 0 .. (l - k - 1) - 1, m \in A PROVE m + 1 \in A
  <2> DEFINE p == k + 1 + m
  <2>1. p \in 0 .. MaxFrames - 1 /\ p \in 0 .. MaxFrames /\ p + 1 = k + 1 + (m + 1) /\ p + 1 \in 0 .. MaxFrames
    BY <1>1
  <2>2. End[k] < End[p]
    BY <1>4, <2>1
  <2> HIDE DEF p
  <2>3. End[p] < End[p + 1] /\ End[k] \in Nat /\ End[p] \in Nat /\ End[p + 1] \in Nat
    BY <1>2, <2>1, EndValues
  <2>4. End[k] < End[p + 1]
    BY <2>2, <2>3
  <2> QED BY <2>1, <2>4
<1>5. l - k - 1 \in Nat /\ k + 1 + (l - k - 1) = l
  BY <1>1
<1>6. 0 .. (l - k - 1) \subseteq A
  <2> HIDE DEF A
  <2> QED BY <1>3, <1>4, <1>5, CountUp
<1>7. l - k - 1 \in A
  <2> HIDE DEF A
  <2>1. l - k - 1 \in 0 .. (l - k - 1)
    BY <1>5
  <2> QED BY <1>6, <2>1
<1> QED BY <1>1, <1>5, <1>7
-----------------------------------------------------------------------------
(* Every head is read where a message begins.                              *)

\* The last call of tcp_recv has returned what it was asked for.
Copied == pc = "idle" /\ ret > 0

\* What the receiving thread has taken, by where it is.  While a head is read
\* nothing of it is gone, and when it is there, out[1] is the first byte of a
\* message; of the message whose body is read the head is gone.
FrameInv ==
    /\ got \in 0 .. MaxFrames /\ arrived <= End[MaxFrames]
    /\ stage \notin {"headret", "bodyret"} => pc = "idle"
    /\ stage \in {"wait", "claim", "head", "next"} => taken = End[got]
    /\ stage = "headret" =>
          /\ want = HeadSize
          /\ IF Copied THEN taken = End[got] + HeadSize /\ out[1] = End[got] + 1
             ELSE taken = End[got]
    /\ stage \in {"body", "bodyret", "complete"} => got < MaxFrames /\ m_len = frames[got + 1]
    /\ stage \in {"body", "bodyret"} => m_len > 0
    /\ stage = "body" => taken = End[got] + HeadSize
    /\ stage = "bodyret" =>
          /\ want = m_len
          /\ taken = IF Copied THEN End[got + 1] ELSE End[got] + HeadSize
    /\ stage = "complete" => taken = End[got + 1]

\* The first byte of a message has its number in the stream.
LEMMA FirstByte ==
    ASSUME SockInv, NEW n \in Nat \ {0}, want = n, Copy
    PROVE  taken' = taken + n /\ out'[1] = taken + 1 /\ taken + n <= arrived /\ ret' = n /\ pc' = "idle"
<1>1. n <= Buffered /\ out' = FromRing(n) /\ taken' = taken + n /\ ret' = n /\ pc' = "idle"
  BY DEF Copy
<1>2. Buffered = kread - taken /\ kread <= arrived /\ kread \in Nat /\ taken \in Nat /\ arrived \in Nat
  BY Counts DEF SockInv, SockTypeOK, CountersInv
<1>3. FromRing(n) = [i \in 1 .. n |-> taken + i]
  BY <1>1, Pieces
<1>4. 1 \in 1 .. n
  OBVIOUS
<1> QED BY <1>1, <1>2, <1>3, <1>4

\* The bytes of a head give the length of the message that begins with it.
LEMMA HeadTells ==
    ASSUME LengthInv, NEW k \in 0 .. MaxFrames - 1
    PROVE  Decoded(End[k] + 1) = {frames[k + 1]}
<1> DEFINE starts == {l \in 1 .. MaxFrames : End[l - 1] + 1 = End[k] + 1}
<1>1. MaxFrames \in Nat /\ k + 1 \in 1 .. MaxFrames /\ (k + 1) - 1 = k
  BY FrameAssumption
<1>2. k + 1 \in starts
  BY <1>1
<1>3. ASSUME NEW l \in 1 .. MaxFrames, End[l - 1] + 1 = End[k] + 1 PROVE l = k + 1
  <2>1. l - 1 \in 0 .. MaxFrames /\ k \in 0 .. MaxFrames
    BY <1>1
  <2>2. End[l - 1] \in Nat /\ End[k] \in Nat
    BY <2>1, EndValues DEF LengthInv
  <2>3. End[l - 1] = End[k]
    BY <1>3, <2>2
  <2>4. ~(l - 1 < k) /\ ~(k < l - 1)
    BY <2>1, <2>2, <2>3, EndsApart DEF LengthInv
  <2> QED BY <1>1, <2>1, <2>4
<1>4. starts = {k + 1}
  BY <1>2, <1>3
<1>5. {frames[l] : l \in starts} = {frames[k + 1]}
  BY <1>4
<1> QED BY <1>2, <1>5 DEF Decoded
LEMMA EndKept == ASSUME UNCHANGED frames PROVE End' = End
BY DEF End

\* The numbers that the steps below calculate with.
LEMMA EndNumbers ==
    ASSUME SockInv, LengthInv, FrameInv
    PROVE  /\ End[got] \in Nat /\ End[MaxFrames] \in Nat
           /\ got < MaxFrames =>
                /\ End[got + 1] = End[got] + HeadSize + frames[got + 1] /\ End[got + 1] \in Nat
                /\ frames[got + 1] \in Nat
           /\ got \in Nat /\ MaxFrames \in Nat /\ HeadSize \in Nat \ {0} /\ m_len \in Nat
           /\ taken \in Nat /\ arrived \in Nat /\ ret \in Int
<1>1. got \in 0 .. MaxFrames /\ MaxFrames \in Nat /\ HeadSize \in Nat \ {0}
  BY FrameAssumption, RingAssumption DEF FrameInv
<1>2. \A k \in 1 .. MaxFrames : frames[k] \in Nat
  <2>1. BodyLens \subseteq Nat
    BY FrameAssumption, RingAssumption
  <2>2. \A k \in 1 .. MaxFrames : frames[k] \in BodyLens
    BY DEF LengthInv
  <2> QED BY <2>1, <2>2
<1>3. End[got] \in Nat /\ End[MaxFrames] \in Nat
  BY <1>1, EndValues DEF LengthInv
<1>4. ASSUME got < MaxFrames
      PROVE  /\ End[got + 1] = End[got] + HeadSize + frames[got + 1] /\ End[got + 1] \in Nat
             /\ frames[got + 1] \in Nat
  <2> DEFINE k == got + 1
  <2>1. k \in 1 .. MaxFrames /\ k \in 0 .. MaxFrames /\ k - 1 = got
    BY <1>1, <1>4
  <2> HIDE DEF k
  <2>2. End[k] = End[k - 1] + HeadSize + frames[k] /\ End[k] \in Nat /\ frames[k] \in Nat
    BY <1>2, <2>1, EndValues DEF LengthInv
  <2> QED BY <2>1, <2>2 DEF k
<1> QED
  BY <1>1, <1>3, <1>4 DEF SockInv, SockTypeOK, LengthInv, ERROR_CLOSE, ERROR_UNKNOWN

\* The steps of tcp_recv while a head or a body is read.
LEMMA FrameInCall == ASSUME SockInv, LengthInv, FrameInv, InCall PROVE FrameInv'
<1>1. pc # "idle" /\ UNCHANGED loopVars /\ UNCHANGED <<arrived, want>>
  BY DEF InCall, RecvStep, RecvFull, RecvFullNoRoom, Read, ReadAgain, ReadFails, Copy, TooFew, kernel
<1>2. stage \in {"headret", "bodyret"}
  BY <1>1 DEF FrameInv
<1>3. End' = End /\ UNCHANGED <<got, stage, m_len, frames>>
  BY <1>1, EndKept DEF loopVars
<1>4. CASE Copy /\ stage = "headret"
  <2>1. want = HeadSize /\ taken = End[got]
    BY <1>1, <1>4 DEF FrameInv, Copied
  <2>2. taken' = End[got] + HeadSize /\ out'[1] = End[got] + 1 /\ ret' = HeadSize /\ pc' = "idle"
    BY <1>4, <2>1, EndNumbers, FirstByte
  <2>3. Copied'
    BY <2>2, EndNumbers DEF Copied
  <2> QED BY <1>1, <1>3, <1>4, <2>1, <2>2, <2>3 DEF FrameInv
<1>5. CASE Copy /\ stage = "bodyret"
  <2>1. /\ want = m_len /\ m_len > 0 /\ taken = End[got] + HeadSize
        /\ got < MaxFrames /\ m_len = frames[got + 1]
    BY <1>1, <1>5 DEF FrameInv, Copied
  <2>2. /\ m_len \in Nat \ {0} /\ HeadSize \in Nat /\ End[got] \in Nat
        /\ End[got + 1] = End[got] + HeadSize + m_len
    BY <2>1, EndNumbers
  <2>3. taken' = taken + m_len /\ ret' = m_len /\ pc' = "idle"
    BY <1>5, <2>1, <2>2, FirstByte
  <2>4. taken' = End[got + 1]
    BY <2>1, <2>2, <2>3
  <2>5. Copied'
    BY <2>2, <2>3 DEF Copied
  <2> QED BY <1>1, <1>3, <1>5, <2>1, <2>4, <2>5 DEF FrameInv
<1>6. CASE ~Copy
  <2>1. taken' = taken /\ ~Copied'
    BY <1>6 DEF InCall, RecvStep, RecvFull, RecvFullNoRoom, Read, ReadAgain, ReadFails, TooFew,
       Copied, EAGAIN, ERROR_CLOSE, ERROR_UNKNOWN
  <2>2. ~Copied
    BY <1>1 DEF Copied
  <2> QED BY <1>1, <1>2, <1>3, <2>1, <2>2 DEF FrameInv
<1> QED BY <1>2, <1>4, <1>5, <1>6

LEMMA FrameStep == ASSUME SockInv, LengthInv, FrameInv, [Next]_vars PROVE FrameInv'
<1>1. End' = End
  BY EndKept DEF Next, ProductMsg, vars, loopVars, StreamArrives, StreamEnds, WaitReadable, WaitErased,
     ClaimFirst, CallHead, InCall, HeadFails, HeadDecoded, CallBody, BodyReturned, PublishFrame,
     ClaimNext, Consume
<1>2. CASE StreamArrives
  <2>1. arrived < End[MaxFrames] /\ arrived' = arrived + 1
        /\ UNCHANGED <<got, stage, m_len, frames, pc, ret, out, want, taken>>
    BY <1>2 DEF StreamArrives, Arrive
  <2>2. arrived' <= End[MaxFrames]
    BY <2>1, EndNumbers
  <2> QED BY <1>1, <2>1, <2>2 DEF FrameInv, Copied
<1>3. CASE StreamEnds \/ Consume \/ UNCHANGED vars
  <2>1. UNCHANGED <<got, stage, m_len, frames, arrived, pc, ret, out, want, taken>>
    BY <1>3 DEF StreamEnds, PeerEnds, Consume, vars, loopVars, sockVars
  <2> QED BY <1>1, <2>1 DEF FrameInv, Copied
<1>4. CASE WaitReadable \/ WaitErased \/ ClaimFirst \/ ClaimNext
  <2>1. /\ stage \in {"wait", "claim", "next"} /\ stage' \in {"wait", "claim", "head", "erased"}
        /\ UNCHANGED <<got, m_len, frames, arrived, pc, ret, out, want, taken>>
    BY <1>4 DEF WaitReadable, WaitErased, ClaimFirst, ClaimNext, sockVars
  <2> QED BY <1>1, <2>1 DEF FrameInv, Copied
<1>5. CASE CallHead
  <2>1. /\ stage = "head" /\ stage' = "headret" /\ want' = HeadSize /\ pc' # "idle"
        /\ UNCHANGED <<got, m_len, frames, arrived, taken>>
    BY <1>5 DEF CallHead, CallRecv, kernel
  <2> QED BY <1>1, <2>1 DEF FrameInv, Copied
<1>6. CASE InCall
  BY <1>6, FrameInCall
<1>7. CASE HeadFails
  <2>1. /\ stage = "headret" /\ pc = "idle" /\ ret <= 0 /\ stage' \in {"wait", "erased"}
        /\ UNCHANGED <<got, m_len, frames, arrived, pc, taken>>
    BY <1>7 DEF HeadFails, sockVars
  <2>2. ~Copied
    BY <2>1, EndNumbers DEF Copied
  <2> QED BY <1>1, <2>1, <2>2 DEF FrameInv
<1>8. CASE HeadDecoded
  <2>1. /\ stage = "headret" /\ pc = "idle" /\ ret > 0 /\ m_len' \in Decoded(out[1])
        /\ stage' = IF m_len' > 0 THEN "body" ELSE "complete"
        /\ UNCHANGED <<got, frames, arrived, pc, taken>>
    BY <1>8 DEF HeadDecoded, sockVars
  <2>2. taken = End[got] + HeadSize /\ out[1] = End[got] + 1
    BY <2>1 DEF FrameInv, Copied
  <2>3. got < MaxFrames
    <3>1. taken <= arrived /\ arrived <= End[MaxFrames] /\ got <= MaxFrames
      <4>1. taken <= kread /\ kread <= arrived /\ kread \in Nat
        BY DEF SockInv, SockTypeOK, CountersInv
      <4> QED BY <4>1, EndNumbers DEF FrameInv
    <3> QED BY <2>2, <3>1, EndNumbers
  <2>4. m_len' = frames[got + 1]
    <3>1. got \in 0 .. MaxFrames - 1
      BY <2>3, EndNumbers
    <3> QED BY <2>1, <2>2, <3>1, HeadTells
  <2>5. /\ End[got + 1] = End[got] + HeadSize + frames[got + 1] /\ frames[got + 1] \in Nat
        /\ End[got] \in Nat /\ HeadSize \in Nat
    BY <2>3, EndNumbers
  <2>6. CASE m_len' > 0
    BY <1>1, <2>1, <2>2, <2>3, <2>4, <2>6 DEF FrameInv
  <2>7. CASE ~(m_len' > 0)
    <3>1. taken = End[got + 1]
      BY <2>2, <2>4, <2>5, <2>7
    <3> QED BY <1>1, <2>1, <2>3, <2>4, <2>7, <3>1 DEF FrameInv
  <2> QED BY <2>6, <2>7
<1>9. CASE CallBody
  <2>1. /\ stage = "body" /\ stage' = "bodyret" /\ want' = m_len /\ pc' # "idle"
        /\ UNCHANGED <<got, m_len, frames, arrived, taken>>
    BY <1>9 DEF CallBody, CallRecv, kernel
  <2> QED BY <1>1, <2>1 DEF FrameInv, Copied
<1>10. CASE BodyReturned
  <2>1. /\ stage = "bodyret" /\ pc = "idle"
        /\ stage' = CASE ret > 0 -> "complete" [] ret = EAGAIN -> "body" [] OTHER -> "erased"
        /\ UNCHANGED <<got, m_len, frames, arrived, pc, taken>>
    BY <1>10 DEF BodyReturned, sockVars
  <2>2. CASE ret > 0
    <3>1. Copied /\ stage' = "complete"
      BY <2>1, <2>2, EndNumbers DEF Copied, EAGAIN
    <3> QED BY <1>1, <2>1, <3>1 DEF FrameInv
  <2>3. CASE ~(ret > 0)
    <3>1. ~Copied /\ stage' \in {"body", "erased"}
      BY <2>1, <2>3 DEF Copied
    <3> QED BY <1>1, <2>1, <3>1 DEF FrameInv
  <2> QED BY <2>2, <2>3
<1>11. CASE PublishFrame
  <2>1. /\ stage = "complete" /\ stage' = "next" /\ got' = got + 1
        /\ UNCHANGED <<m_len, frames, arrived, pc, taken>>
    BY <1>11 DEF PublishFrame, sockVars
  <2>2. got + 1 \in 0 .. MaxFrames
    BY <2>1, EndNumbers DEF FrameInv
  <2> QED BY <1>1, <2>1, <2>2 DEF FrameInv
<1> QED BY <1>2, <1>3, <1>4, <1>5, <1>6, <1>7, <1>8, <1>9, <1>10, <1>11 DEF Next, ProductMsg

\* Net::recvmsg reads every head where a message begins and every body behind its own
\* head: for every size of the ring, head and bodies, wherever the stream is cut
\* and whenever the thread goes back to epoll.
THEOREM HeadsAndBodies == Spec => []FramesAligned
<1>1. Init => FrameInv
  <2> SUFFICES ASSUME Init PROVE FrameInv
    OBVIOUS
  <2>1. frames \in [1 .. MaxFrames -> BodyLens] /\ MaxFrames \in Nat
    BY FrameAssumption DEF Init
  <2>2. End[0] = 0 /\ 0 <= End[MaxFrames]
    <3>1. End[0] = 0 /\ End[MaxFrames] \in Nat
      BY <2>1, EndValues
    <3> QED BY <3>1
  <2> QED BY <2>1, <2>2 DEF Init, SockInit, FrameInv
<1>2. SockInv /\ LengthInv /\ FrameInv /\ [Next]_vars => FrameInv'
  BY FrameStep
<1>3. FrameInv => FramesAligned
  BY DEF FrameInv, FramesAligned
<1> QED BY <1>1, <1>2, <1>3, LengthInvariance, SocketImplemented, SockInvariance, PTL DEF Spec
=============================================================================
