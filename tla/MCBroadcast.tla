---------------------------- MODULE MCBroadcast ----------------------------
(* Instances of Broadcast for TLC: entries are numbers, and the thresholds  *)
(* of broadcast.hpp, 32 threads and 10 clients a thread, become 3 and 2.    *)
EXTENDS Broadcast

\* Entry 4 is another of the client of entry 1; user 2 came back as entry 7 on
\* another connection; the others are clients of their own.
MCEntries == 1 .. 7
MCInfo == [e \in MCEntries |->
    CASE e = 4 -> [usrid |-> 1, fd |-> 1]
      [] e = 7 -> [usrid |-> 2, fd |-> 7]
      [] OTHER -> [usrid |-> e, fd |-> e]]
MCFragile == {1, 3, 5, 6}
MCLists == {<<1>>, <<1, 2, 3>>, <<4, 2, 1>>, <<3, 1, 2, 5, 4>>, <<1, 2, 3, 4, 5, 6, 7>>}

\* No client is in these twice.
MCPlainLists == {<<1>>, <<1, 2, 3>>, <<1, 2, 3, 5, 6>>, <<1, 3, 5, 2, 6, 7>>}

\* The split with the thresholds of the code, scale being a uint8_t: no task
\* reaches past the end of the list, however long it is.
Real == INSTANCE Broadcast WITH MaxThreads <- 32, PerThread <- 10
ASSUME TasksInBounds ==
    \A n \in 10 .. 9000 : Real!Scale(n) * Real!TaskCount(n) <= n
=============================================================================
