----------------------------- MODULE MCRecvPath -----------------------------
(* An instance of RecvPath for TLC.                                        *)
EXTENDS RecvPath

MCBodyLens == {0, 1, 3}

=============================================================================
