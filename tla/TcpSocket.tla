----------------------------- MODULE TcpSocket -----------------------------
(***************************************************************************)
(* The receiving half of a connection (class tcp_socket,                   *)
(* src/Net/tcp_socket.h and tcp_socket.cpp): the ring of bytes between the *)
(* kernel's socket buffer and the caller of tcp_recv, which hands out      *)
(* exactly the number of bytes asked for or none.  The bytes of the stream *)
(* are numbered 1, 2, 3, ... as the peer sent them.  One step is one read  *)
(* system call, so that bytes arrive and the peer closes between any two.  *)
(***************************************************************************)
EXTENDS Integers, Sequences

CONSTANTS Size,        \* m_size, the bytes the ring holds
          CounterMod   \* m_in and m_out are taken modulo this (2^32 in the code)

ASSUME RingAssumption ==
    /\ Size \in Nat \ {0}
    /\ CounterMod \in Nat \ {0}
    /\ CounterMod % Size = 0
    /\ CounterMod > Size

VARIABLES arrived,   \* bytes of the stream that have reached this host
          peer,      \* "open", "closed" (after a FIN) or "reset"
          kread,     \* bytes read from the kernel so far
          m_in, m_out, m_buffer,
          pc,        \* where tcp_recv is
          want,      \* its _length
          left, at,  \* bytes to read and pointer of recv_by_len
          ret,       \* what the last call of tcp_recv returned
          out,       \* the bytes it copied to the caller
          taken      \* bytes copied to callers so far

kernel == <<arrived, peer>>
ring == <<kread, m_in, m_buffer>>
sockVars == <<arrived, peer, kread, m_in, m_out, m_buffer, pc, want, left, at, ret, out, taken>>

EAGAIN == 0
ERROR_CLOSE == -1
ERROR_UNKNOWN == -10

Least(a, b) == IF a < b THEN a ELSE b
Pos(n) == n % Size                             \* n & (m_size - 1)
Buffered == (m_in - m_out) % CounterMod        \* uint32_t(m_in - m_out)
Free == (Size - m_in + m_out) % CounterMod     \* the length of recv_full

-----------------------------------------------------------------------------
(* The peer and the network.                                               *)

\* One byte at a time: a read may come after any of them.
Arrive ==
    /\ peer = "open"
    /\ arrived' = arrived + 1
    /\ UNCHANGED <<peer, kread, m_in, m_out, m_buffer, pc, want, left, at, ret, out, taken>>

PeerEnds ==
    /\ peer = "open"
    /\ peer' \in {"closed", "reset"}
    /\ UNCHANGED <<arrived, kread, m_in, m_out, m_buffer, pc, want, left, at, ret, out, taken>>

-----------------------------------------------------------------------------
(* tcp_recv.                                                               *)

\* The caller asks for n bytes.  The kernel is read only when the ring holds
\* too few.
CallRecv(n) ==
    /\ pc = "idle"
    /\ want' = n
    /\ pc' = IF Buffered < n THEN "full" ELSE "copy"
    /\ out' = <<>>
    /\ UNCHANGED <<kernel, ring, m_out, left, at, ret, taken>>

\* Faulty variants, to see that the properties can fail, no part of RecvStep:
\* one does not stop at the end of the storage, the next overwrites bytes that
\* were not handed out, and CopyOnePiece does not wrap.
RecvFullPastEnd ==
    /\ pc = "full"
    /\ Free # 0
    /\ left' = Free
    /\ at' = Pos(m_in)
    /\ pc' = "read"
    /\ UNCHANGED <<kernel, ring, m_out, want, ret, out, taken>>

RecvFullToEndOnly ==
    /\ pc = "full"
    /\ Free # 0
    /\ left' = Size - Pos(m_in)
    /\ at' = Pos(m_in)
    /\ pc' = "read"
    /\ UNCHANGED <<kernel, ring, m_out, want, ret, out, taken>>

\* recv_full: read up to the end of the ring's storage or of its free space.
RecvFull ==
    /\ pc = "full"
    /\ Free # 0
    /\ left' = Least(Free, Size - Pos(m_in))
    /\ at' = Pos(m_in)
    /\ pc' = "read"
    /\ UNCHANGED <<kernel, ring, m_out, want, ret, out, taken>>

\* recv_full with a full ring returns SOCKET_ERROR_BUFF_FULL, which tcp_recv
\* treats as it treats SOCKET_EAGAIN.
RecvFullNoRoom ==
    /\ pc = "full"
    /\ Free = 0
    /\ pc' = "copy"
    /\ UNCHANGED <<kernel, ring, m_out, want, left, at, ret, out, taken>>

\* One read() of recv_by_len that returns n bytes; after the last byte that
\* was asked for, recv_full calls itself.
Read ==
    /\ pc = "read"
    /\ peer # "reset"
    /\ \E n \in 1 .. Least(left, arrived - kread) :
          /\ m_buffer' = [s \in DOMAIN m_buffer |->
                            IF s \in at .. (at + n - 1) THEN kread + 1 + s - at ELSE m_buffer[s]]
          /\ m_in' = (m_in + n) % CounterMod
          /\ kread' = kread + n
          /\ left' = left - n
          /\ at' = at + n
          /\ pc' = IF n = left THEN "full" ELSE "read"
    /\ UNCHANGED <<kernel, m_out, want, ret, out, taken>>

\* read() has nothing: EAGAIN goes up through recv_full to tcp_recv.
ReadAgain ==
    /\ pc = "read"
    /\ peer = "open" /\ kread = arrived
    /\ pc' = "copy"
    /\ UNCHANGED <<kernel, ring, m_out, want, left, at, ret, out, taken>>

\* End of the stream, or a broken connection: tcp_recv returns the error,
\* and does not look at what the ring already holds.
ReadFails ==
    /\ pc = "read"
    /\ \/ peer = "closed" /\ kread = arrived /\ ret' = ERROR_CLOSE
       \/ peer = "reset" /\ ret' = ERROR_UNKNOWN
    /\ pc' = "idle"
    /\ UNCHANGED <<kernel, ring, m_out, want, left, at, out, taken>>

\* The bytes at m_out, in two pieces when they wrap.
FromRing(n) ==
    LET len == Least(n, Size - Pos(m_out)) IN
    [i \in 1 .. n |-> IF i <= len THEN m_buffer[Pos(m_out) + i - 1] ELSE m_buffer[i - len - 1]]

CopyOnePiece ==
    /\ pc = "copy"
    /\ want <= Buffered
    /\ out' = [i \in 1 .. want |-> m_buffer[Least(Size - 1, Pos(m_out) + i - 1)]]
    /\ ret' = want
    /\ m_out' = (m_out + want) % CounterMod
    /\ taken' = taken + want
    /\ pc' = "idle"
    /\ UNCHANGED <<kernel, ring, want, left, at>>

\* All that was asked for.
Copy ==
    /\ pc = "copy"
    /\ want <= Buffered
    /\ out' = FromRing(want)
    /\ ret' = want
    /\ m_out' = (m_out + want) % CounterMod
    /\ taken' = taken + want
    /\ pc' = "idle"
    /\ UNCHANGED <<kernel, ring, want, left, at>>

\* Or nothing, and no byte leaves the ring.
TooFew ==
    /\ pc = "copy"
    /\ Buffered < want
    /\ ret' = EAGAIN
    /\ pc' = "idle"
    /\ UNCHANGED <<kernel, ring, m_out, want, left, at, out, taken>>

RecvStep == RecvFull \/ RecvFullNoRoom \/ Read \/ ReadAgain \/ ReadFails \/ Copy \/ TooFew

SockInit ==
    /\ arrived = 0 /\ peer = "open" /\ kread = 0
    /\ m_in = 0 /\ m_out = 0 /\ m_buffer = [s \in 0 .. (Size - 1) |-> 0]
    /\ pc = "idle" /\ want = 0 /\ left = 0 /\ at = 0
    /\ ret = EAGAIN /\ out = <<>> /\ taken = 0

\* The socket by itself, called again and again for any number of bytes.
SockNext == Arrive \/ PeerEnds \/ (\E n \in Nat : CallRecv(n)) \/ RecvStep

SockSpec == SockInit /\ [][SockNext]_sockVars

-----------------------------------------------------------------------------
(* Properties.                                                             *)

SockTypeOK ==
    /\ arrived \in Nat /\ kread \in Nat /\ taken \in Nat
    /\ peer \in {"open", "closed", "reset"}
    /\ m_in \in 0 .. (CounterMod - 1) /\ m_out \in 0 .. (CounterMod - 1)
    /\ m_buffer \in [0 .. (Size - 1) -> Nat]
    /\ pc \in {"idle", "full", "read", "copy"}
    /\ want \in Nat /\ left \in 0 .. Size /\ at \in 0 .. Size
    /\ ret \in Nat \cup {ERROR_CLOSE, ERROR_UNKNOWN}
    /\ out \in Seq(Nat)

\* The ring holds exactly the bytes that were read from the kernel and not yet
\* handed out, each at the position of its number: no byte is overwritten
\* before it is copied, none is written twice, none past the ring's end, while
\* the counters wrap and recv_full fills the ring in pieces.
RingHoldsStream ==
    /\ taken <= kread /\ kread <= arrived /\ kread - taken <= Size
    /\ Buffered = kread - taken
    /\ \A b \in (taken + 1) .. kread : m_buffer[Pos(b - 1)] = b

\* tcp_recv hands out the stream as the peer sent it: each call the bytes that
\* follow those of the call before (or nothing), whatever the chunks the kernel
\* delivered them in and wherever the ring wrapped.
StreamInOrder ==
    out # <<>> => out = [i \in 1 .. Len(out) |-> taken - Len(out) + i]
=============================================================================
