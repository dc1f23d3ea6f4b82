----------------------------- MODULE Broadcast -----------------------------
(***************************************************************************)
(* The gate's broadcast of one message to every client (class Broadcast,   *)
(* src/ServerGate/broadcast.hpp, with gate_server::clear_up,               *)
(* src/ServerGate/gate_server.cpp).  run_server splits the list of clients *)
(* into tasks, arms them one by one, and sleeps until the worker threads   *)
(* have put every flag down again; a short list it walks through itself.   *)
(* Clients whose send failed are then swapped out of the list.             *)
(*                                                                         *)
(* Every login appends an entry to the list and nothing looks for an older *)
(* one, so a user can have several entries, and even the same client_info  *)
(* can be there twice: entries stand for the elements of the vector, and   *)
(* Info gives the client_info of each.                                     *)
(*                                                                         *)
(* run_client changes the same list without a lock; what a concurrent      *)
(* change does to a std::vector is undefined and is not modelled: here the *)
(* list changes only by what run_server does to it.                        *)
(***************************************************************************)
EXTENDS Integers, Sequences, SequencesExt

CONSTANTS Entries,         \* the entries a list may hold
          Info,            \* their client_info: a record of usrid and fd
          Fragile,         \* the descriptors whose connection may break
          Lists,           \* the lists the first broadcast may find
          MaxThreads,      \* MAX_THREAD_COUNT
          PerThread,       \* PER_THREAD_NUM
          MaxBroadcasts    \* bound on the number of messages broadcast

ASSUME BroadcastAssumption ==
    /\ MaxThreads \in Nat \ {0, 1} /\ PerThread \in Nat \ {0} /\ MaxBroadcasts \in Nat
    /\ \A l \in Lists : l \in Seq(Entries) /\ IsInjective(l)

VARIABLES m_clientsfd,   \* the list, a sequence of entries
          m_usrfd,       \* the users with an entry in m_usrfd
          m_errorfd,     \* the entries a send to which failed, in that order
          broken,        \* the descriptors whose connection is broken
          m_tasks,       \* the task of every worker
          cursor,        \* the index every worker is at, or Asleep
          phase,         \* where run_server is
          msg,           \* the message being broadcast
          next, last,    \* run_server's loop indices
          which,         \* and the index of the inner loop of clear_up
          tries,         \* how often msg was written for each entry
          found          \* the entries the list had at first, for the properties

vars == <<m_clientsfd, m_usrfd, m_errorfd, broken, m_tasks, cursor, phase, msg, next, last,
          which, tries, found>>

Workers == 0 .. (MaxThreads - 1)
Asleep == -1
NoTask == [isvalied |-> FALSE, data |-> 0, start |-> 0, end |-> 0]

Least(a, b) == IF a < b THEN a ELSE b

Broken(e) == Info[e].fd \in broken

-----------------------------------------------------------------------------
(* How a list of n clients is split.                                       *)

TaskCount(n) == Least(n \div PerThread, MaxThreads - 1)

\* A uint8_t.
Scale(n) == (n \div TaskCount(n)) % 256

\* (a & b) # 0, for a b below 2^16 (it is a number of threads).
ShareBit(a, b) == \E k \in 0 .. 15 : (a \div 2 ^ k) % 2 = 1 /\ (b \div 2 ^ k) % 2 = 1

\* The last task, if it is armed, takes what the others leave.
TasksFor(n) ==
    IF ShareBit(n, TaskCount(n)) THEN TaskCount(n) + 1 ELSE TaskCount(n)

\* Faulty variants, to see that the properties can fail: a task begins one
\* client too early; the ranges are off by one task.
TaskOverlapping(i, n) ==
    [isvalied |-> TRUE, data |-> msg,
     start |-> IF i = 0 THEN 0 ELSE Scale(n) * i - 1,
     end |-> IF i < TaskCount(n) THEN Scale(n) * i + Scale(n) ELSE n]

TaskShifted(i, n) ==
    [isvalied |-> TRUE, data |-> msg, start |-> Scale(n) * (i - 1),
     end |-> IF i < TaskCount(n) THEN Scale(n) * i ELSE n]

\* The task of worker i for the message.
TaskOf(i, n) ==
    [isvalied |-> TRUE, data |-> msg, start |-> Scale(n) * i,
     end |-> IF i < TaskCount(n) THEN Scale(n) * i + Scale(n) ELSE n]

-----------------------------------------------------------------------------
(* run_server: runtask.                                                    *)

StartBroadcast ==
    /\ phase = "idle"
    /\ msg < MaxBroadcasts
    /\ msg' = msg + 1
    /\ tries' = [e \in Entries |-> 0]
    /\ phase' = IF TaskCount(Len(m_clientsfd)) = 0 THEN "direct" ELSE "arm"
    /\ next' = 0
    /\ last' = Len(m_clientsfd)
    /\ UNCHANGED <<m_clientsfd, m_usrfd, m_errorfd, broken, m_tasks, cursor, which, found>>

\* The list is short: send to the client at index next, and put the last one
\* in its place when that fails.  m_usrfd keeps the user.
SendDirect ==
    /\ phase = "direct"
    /\ next < last
    /\ LET e == m_clientsfd[next + 1] IN
       /\ tries' = [tries EXCEPT ![e] = @ + 1]
       /\ IF Broken(e)
          THEN /\ m_clientsfd' = [m_clientsfd EXCEPT ![next + 1] = m_clientsfd[last]]
               /\ last' = last - 1
               /\ next' = next
          ELSE /\ next' = next + 1
               /\ UNCHANGED <<m_clientsfd, last>>
    /\ UNCHANGED <<m_usrfd, m_errorfd, broken, m_tasks, cursor, phase, msg, which, found>>

\* Faulty: the loop runs to the end the list had at first.
EndDirectAtFirstEnd ==
    /\ phase = "direct"
    /\ next = Len(m_clientsfd)
    /\ m_clientsfd' = SubSeq(m_clientsfd, 1, last)
    /\ phase' = "clear"
    /\ UNCHANGED <<m_usrfd, m_errorfd, broken, m_tasks, cursor, msg, next, last, which, tries, found>>

EndDirect ==
    /\ phase = "direct"
    /\ next = last
    /\ m_clientsfd' = SubSeq(m_clientsfd, 1, last)
    /\ phase' = "clear"
    /\ UNCHANGED <<m_usrfd, m_errorfd, broken, m_tasks, cursor, msg, next, last, which, tries, found>>

\* The list is long: arm one task after the other, while the workers of the
\* first ones already run.
ArmTask ==
    /\ phase = "arm"
    /\ next < TasksFor(last)
    /\ m_tasks' = [m_tasks EXCEPT ![next] = TaskOf(next, last)]
    /\ next' = next + 1
    /\ UNCHANGED <<m_clientsfd, m_usrfd, m_errorfd, broken, cursor, phase, msg, last, which, tries, found>>

\* Faulty: the last task is not waited for.
CompleteButLast ==
    /\ phase = "arm"
    /\ next = TasksFor(last)
    /\ \A w \in 0 .. (TaskCount(last) - 1) : ~m_tasks[w].isvalied
    /\ phase' = "clear"
    /\ UNCHANGED <<m_clientsfd, m_usrfd, m_errorfd, broken, m_tasks, cursor, msg, next, last, which, tries, found>>

\* iscomplete.
Complete ==
    /\ phase = "arm"
    /\ next = TasksFor(last)
    /\ \A w \in Workers : ~m_tasks[w].isvalied
    /\ phase' = "clear"
    /\ UNCHANGED <<m_clientsfd, m_usrfd, m_errorfd, broken, m_tasks, cursor, msg, next, last, which, tries, found>>

-----------------------------------------------------------------------------
(* The workers.                                                            *)

WorkerStarts(w) ==
    /\ m_tasks[w].isvalied
    /\ cursor[w] = Asleep
    /\ cursor' = [cursor EXCEPT ![w] = m_tasks[w].start]
    /\ UNCHANGED <<m_clientsfd, m_usrfd, m_errorfd, broken, m_tasks, phase, msg, next, last, which, tries, found>>

WorkerSends(w) ==
    /\ cursor[w] # Asleep
    /\ cursor[w] # m_tasks[w].end
    /\ LET e == m_clientsfd[cursor[w] + 1] IN
       /\ tries' = [tries EXCEPT ![e] = @ + 1]
       /\ m_errorfd' = IF Broken(e) THEN Append(m_errorfd, e) ELSE m_errorfd
    /\ cursor' = [cursor EXCEPT ![w] = @ + 1]
    /\ UNCHANGED <<m_clientsfd, m_usrfd, broken, m_tasks, phase, msg, next, last, which, found>>

\* Faulty: a worker that stops anywhere.
WorkerEndsEarly(w) ==
    /\ cursor[w] # Asleep
    /\ m_tasks' = [m_tasks EXCEPT ![w].isvalied = FALSE]
    /\ cursor' = [cursor EXCEPT ![w] = Asleep]
    /\ UNCHANGED <<m_clientsfd, m_usrfd, m_errorfd, broken, phase, msg, next, last, which, tries, found>>

WorkerEnds(w) ==
    /\ cursor[w] # Asleep
    /\ cursor[w] = m_tasks[w].end
    /\ m_tasks' = [m_tasks EXCEPT ![w].isvalied = FALSE]
    /\ cursor' = [cursor EXCEPT ![w] = Asleep]
    /\ UNCHANGED <<m_clientsfd, m_usrfd, m_errorfd, broken, phase, msg, next, last, which, tries, found>>

-----------------------------------------------------------------------------
(* run_server: clear_up.  next and last are its i and end, which its n.     *)

\* A user with a failed entry leaves m_usrfd, whichever entry it leads to.
StartClear ==
    /\ phase = "clear"
    /\ m_usrfd' = m_usrfd \ {Info[e].usrid : e \in ToSet(m_errorfd)}
    /\ phase' = IF m_errorfd = <<>> THEN "idle" ELSE "swap"
    /\ next' = 0
    /\ last' = Len(m_clientsfd)
    /\ UNCHANGED <<m_clientsfd, m_errorfd, broken, m_tasks, cursor, msg, which, tries, found>>

\* operator== of client_info does not tell two entries of one client apart.
Matches == Info[m_errorfd[which + 1]] = Info[m_clientsfd[next + 1]]

\* Faulty: the end of the list moves and nothing is put into the gap.
DropLast ==
    /\ phase = "swap"
    /\ which < Len(m_errorfd)
    /\ which > 0 \/ next < last
    /\ last' = IF Matches /\ last > 0 THEN last - 1 ELSE last
    /\ which' = which + 1
    /\ UNCHANGED <<m_clientsfd, m_usrfd, m_errorfd, broken, m_tasks, cursor, phase, msg, next, tries, found>>

\* The inner loop: compare the client at next with one failed client after the
\* other, replacing it by the last one on a match; the newcomer is compared
\* with the failed clients still to come.  Nothing keeps end above zero: there
\* the code reads m_clientsfd[-1].
SwapOut ==
    /\ phase = "swap"
    /\ which < Len(m_errorfd)
    /\ which > 0 \/ next < last
    /\ IF Matches /\ last > 0
       THEN /\ m_clientsfd' = [m_clientsfd EXCEPT ![next + 1] = m_clientsfd[last]]
            /\ last' = last - 1
       ELSE UNCHANGED <<m_clientsfd, last>>
    /\ phase' = IF Matches /\ last = 0 THEN "undefined" ELSE phase
    /\ which' = which + 1
    /\ UNCHANGED <<m_usrfd, m_errorfd, broken, m_tasks, cursor, msg, next, tries, found>>

SwapNext ==
    /\ phase = "swap"
    /\ which = Len(m_errorfd)
    /\ which' = 0
    /\ next' = next + 1
    /\ UNCHANGED <<m_clientsfd, m_usrfd, m_errorfd, broken, m_tasks, cursor, phase, msg, last, tries, found>>

EndClear ==
    /\ phase = "swap"
    /\ which = 0 /\ next >= last
    /\ m_clientsfd' = SubSeq(m_clientsfd, 1, last)
    /\ m_errorfd' = <<>>
    /\ phase' = "idle"
    /\ UNCHANGED <<m_usrfd, broken, m_tasks, cursor, msg, next, last, which, tries, found>>

\* A connection breaks: from now on sends to it fail.
Breaks ==
    /\ \E fd \in Fragile \ broken : broken' = broken \cup {fd}
    /\ UNCHANGED <<m_clientsfd, m_usrfd, m_errorfd, m_tasks, cursor, phase, msg, next, last, which, tries, found>>

-----------------------------------------------------------------------------
Init ==
    /\ m_clientsfd \in Lists
    /\ found = ToSet(m_clientsfd)
    /\ m_usrfd = {Info[e].usrid : e \in found}
    /\ m_errorfd = <<>> /\ broken = {}
    /\ m_tasks = [w \in Workers |-> NoTask]
    /\ cursor = [w \in Workers |-> Asleep]
    /\ phase = "idle" /\ msg = 0 /\ next = 0 /\ last = 0 /\ which = 0
    /\ tries = [e \in Entries |-> 0]

RunServer ==
    \/ StartBroadcast \/ SendDirect \/ EndDirect \/ ArmTask \/ Complete
    \/ StartClear \/ SwapOut \/ SwapNext \/ EndClear
Worker(w) == WorkerStarts(w) \/ WorkerSends(w) \/ WorkerEnds(w)

Next == RunServer \/ (\E w \in Workers : Worker(w)) \/ Breaks

\* Every thread is a loop that sleeps between two looks at a flag.
Spec ==
    /\ Init /\ [][Next]_vars
    /\ WF_vars(RunServer)
    /\ \A w \in Workers : WF_vars(Worker(w))

-----------------------------------------------------------------------------
(* Properties.                                                             *)

TypeOK ==
    /\ m_clientsfd \in Seq(Entries) /\ m_errorfd \in Seq(Entries)
    /\ m_usrfd \subseteq {Info[e].usrid : e \in Entries} /\ broken \subseteq Fragile
    /\ found \subseteq Entries
    /\ m_tasks \in [Workers -> [isvalied : BOOLEAN, data : 0 .. MaxBroadcasts,
                                start : Nat, end : Nat]]
    /\ cursor \in [Workers -> Nat \cup {Asleep}]
    /\ phase \in {"idle", "direct", "arm", "clear", "swap", "undefined"}
    /\ msg \in 0 .. MaxBroadcasts /\ next \in Nat /\ last \in Nat /\ which \in Nat
    /\ tries \in [Entries -> Nat]

\* No worker is still writing a message, or walking the list, once run_server
\* has left the wait: the slot of the message can be released and the list
\* rearranged (the isvalied handshake between runtask and the workers).
MessageOutlivesWorkers ==
    \A w \in Workers : cursor[w] # Asleep =>
        /\ phase = "arm" /\ m_tasks[w].isvalied /\ m_tasks[w].data = msg
        /\ cursor[w] <= m_tasks[w].end /\ m_tasks[w].end <= Len(m_clientsfd)

\* A broadcast is written at most once for every entry of the list: the tasks
\* do not overlap, and the entry that SendDirect moves forward has not been
\* served yet.  A client that is listed twice does get the message twice.
SentAtMostOnce == \A e \in Entries : tries[e] <= 1

\* When runtask returns, every entry that some task covered was written to.
CoveredMeansSent ==
    phase = "clear" /\ TaskCount(last) > 0 =>
        \A w \in 0 .. (TasksFor(last) - 1) :
            \A i \in (m_tasks[w].start + 1) .. m_tasks[w].end : tries[m_clientsfd[i]] = 1

\* Taking broken clients out of the list, in SendDirect or by clear_up's swaps,
\* loses no entry whose connection works and doubles none, as long as no client
\* with a broken connection is listed twice; then both entries are noted, and
\* clear_up's second match can move its end over somebody else's entry.  A user
\* stays in m_usrfd as long as all of his entries work.
NoRepeat == \A e, f \in found : Broken(e) /\ Info[e] = Info[f] => e = f

GoodClientsStay ==
    phase = "idle" =>
        /\ ToSet(m_clientsfd) \subseteq found /\ IsInjective(m_clientsfd)
        /\ NoRepeat => {e \in found : ~Broken(e)} \subseteq ToSet(m_clientsfd)
        /\ \A e \in found :
              (\A f \in found : Info[f].usrid = Info[e].usrid => ~Broken(f)) =>
                  Info[e].usrid \in m_usrfd

\* A broadcast ends, so that run_server gets to the next message, provided that
\* every write returns; or the program is undefined.
BroadcastEnds == (phase # "idle") ~> (phase \in {"idle", "undefined"})

\* "The last thread is responsible for the rest" (the comments in runtask):
\* when a broadcast ends every client in the list was written to.
EveryoneReached ==
    phase = "clear" => \A e \in ToSet(m_clientsfd) : tries[e] = 1

\* "invalid fd, to be deleted" (the comment at m_errorfd): clear_up leaves no
\* client in the list whose send failed.
BadClientsRemoved ==
    [][phase = "swap" /\ phase' = "idle" =>
         \A e \in ToSet(m_clientsfd') : \A f \in ToSet(m_errorfd) : Info[e] # Info[f]]_vars
=============================================================================
