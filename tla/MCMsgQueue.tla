----------------------------- MODULE MCMsgQueue -----------------------------
(* Instances of MsgQueue for TLC: a ring of four slots, asked for as three. *)
EXTENDS MsgQueue, RingSize

MCSize == RoundupPowOfTwo(3)
MCCounterMod == 2 * MCSize

\* The rounding of ring sizes agrees with its reference definition, and the
\* mask with the remainder, for every small size and counter.
ASSUME RoundingIsLeastPower ==
    \A s \in 1 .. 130 : IsLeastPowerAbove(RoundupPowOfTwo(s), s)
ASSUME MaskingIsRemainder ==
    \A s \in 1 .. 20, n \in 0 .. 70 : MaskIsModulo(RoundupPowOfTwo(s), n)
=============================================================================
