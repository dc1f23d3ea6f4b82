------------------------------ MODULE Players -------------------------------
(* What the servers call the same.                                         *)
CONSTANTS Users,   \* user ids
          None     \* no such entry
=============================================================================
