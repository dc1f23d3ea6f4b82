------------------------------ MODULE RingSize ------------------------------
(***************************************************************************)
(* The size of every ring of the program: init_queue and tcp_init_buf      *)
(* round the size they are asked for up to a power of two, so that a       *)
(* counter can be turned into a position by masking it (is_pow_of_two and  *)
(* roundup_pow_of_two, src/Net/message.cpp and src/Net/tcp_socket.cpp).    *)
(***************************************************************************)
EXTENDS Integers, Bitwise

\* (n & (n - 1)) == 0 for a nonzero n.
IsPowOfTwo(n) == n # 0 /\ (n & (n - 1)) = 0

\* for (i = s; i != 0; i >>= 1) ++p
Shifts(s) ==
    LET p[i \in 0 .. s] == IF i = 0 THEN 0 ELSE 1 + p[i \div 2] IN p[s]

RoundupPowOfTwo(s) == IF IsPowOfTwo(s) THEN s ELSE 2 ^ Shifts(s)

\* The reference: the least power of two that is no smaller than s.
IsLeastPowerAbove(p, s) ==
    /\ \E k \in 0 .. s : p = 2 ^ k
    /\ s <= p
    /\ p = 1 \/ p \div 2 < s

\* Masking a counter with size - 1 is taking it modulo the size.
MaskIsModulo(size, n) == (n & (size - 1)) = n % size
=============================================================================
