--------------------------- MODULE BroadcastProofs ---------------------------
(***************************************************************************)
(* Theorems about Broadcast: for any number of threads, any thresholds and *)
(* any lists, also those that hold a client twice, the handshake between   *)
(* run_server and its workers keeps them apart and nothing is written      *)
(* twice for an entry.  Taking out clients that are gone loses nobody else *)
(* as long as none of those is listed twice.                               *)
(***************************************************************************)
EXTENDS Broadcast, ModularArithmetic, TLAPS

-----------------------------------------------------------------------------
(* The inductive invariant.                                                *)

\* The part of m_clientsfd that is still the list, while others are taken out.
Live == IF phase \in {"direct", "swap", "undefined"} THEN last ELSE Len(m_clientsfd)

ListInv ==
    /\ Live <= Len(m_clientsfd)
    /\ \A i, j \in 1 .. Live : m_clientsfd[i] = m_clientsfd[j] => i = j
    /\ \A i \in 1 .. Len(m_clientsfd) : m_clientsfd[i] \in found
    /\ NoRepeat => \A e \in found : ~Broken(e) => \E i \in 1 .. Live : m_clientsfd[i] = e

\* Only users with a broken entry lose theirs in m_usrfd.
UsersInv ==
    \A e \in found :
        (\A f \in found : Info[f].usrid = Info[e].usrid => ~Broken(f)) => Info[e].usrid \in m_usrfd

\* run_server's indices.
IndexInv ==
    /\ phase \notin {"swap", "undefined"} => which = 0
    /\ phase = "direct" => next <= last /\ TaskCount(last) = 0
    /\ phase = "arm" => last = Len(m_clientsfd) /\ TaskCount(last) > 0 /\ next <= TasksFor(last)

\* t is the task armed, perhaps done by now, and a worker awake is inside it.
At(t, armed, c) ==
    /\ t = [armed EXCEPT !.isvalied = t.isvalied]
    /\ c # Asleep => t.isvalied /\ t.start <= c /\ c <= t.end

\* A worker is awake only at its own task, which run_server has armed.
WorkerInv ==
    \A w \in Workers :
        IF phase = "arm" /\ w < next
          THEN At(m_tasks[w], TaskOf(w, last), cursor[w])
          ELSE cursor[w] = Asleep /\ ~m_tasks[w].isvalied

\* Whether a worker at c has done place i of task t.
Done(t, c, i) ==
    /\ t.start < i /\ i <= t.end
    /\ t.isvalied => c # Asleep /\ i <= c

\* Whether worker w has written to the client at place i of the list.
Written(w, i) == w < next /\ Done(m_tasks[w], cursor[w], i)

TriesInv ==
    /\ \A c \in Entries : tries[c] \in {0, 1}
    /\ phase = "direct" => \A i \in next + 1 .. last : tries[m_clientsfd[i]] = 0
    /\ phase = "arm" =>
          \A i \in 1 .. Len(m_clientsfd) :
              tries[m_clientsfd[i]] = 1 <=> \E w \in Workers : Written(w, i)

\* An entry that cannot be written to is noted once.
ErrorInv ==
    /\ phase \in {"idle", "direct"} => m_errorfd = <<>>
    /\ \A k \in 1 .. Len(m_errorfd) : Broken(m_errorfd[k]) /\ m_errorfd[k] \in found
    /\ \A k, l \in 1 .. Len(m_errorfd) : m_errorfd[k] = m_errorfd[l] => k = l
    /\ phase = "arm" => \A k \in 1 .. Len(m_errorfd) : tries[m_errorfd[k]] = 1

\* Once the last client of the list has been taken out, the inner loop of
\* clear_up goes on with an entry behind the list.  It finds that one again
\* only if its client was noted twice.
SwapInv ==
    phase = "swap" =>
        /\ which <= Len(m_errorfd)
        /\ which > 0 => next < Len(m_clientsfd)
        /\ NoRepeat /\ which > 0 /\ next >= last =>
              \A k \in which + 1 .. Len(m_errorfd) : Info[m_errorfd[k]] # Info[m_clientsfd[next + 1]]

IInv == /\ TypeOK /\ ListInv /\ UsersInv /\ IndexInv /\ WorkerInv
        /\ TriesInv /\ ErrorInv /\ SwapInv /\ CoveredMeansSent

-----------------------------------------------------------------------------
(* How a list is split.                                                    *)

LEMMA CountOfTasks ==
    ASSUME NEW n \in Nat
    PROVE  /\ TaskCount(n) \in 0 .. MaxThreads - 1
           /\ TaskCount(n) = 0 <=> n < PerThread
<1>1. PerThread \in Nat \ {0} /\ MaxThreads \in Nat \ {0, 1}
  BY BroadcastAssumption
<1>2. /\ n = PerThread * (n \div PerThread) + (n % PerThread)
      /\ n % PerThread \in 0 .. PerThread - 1 /\ n \div PerThread \in Nat
  BY <1>1, DivMod
<1>3. n \div PerThread = 0 <=> n < PerThread
  <2> DEFINE q == n \div PerThread
  <2>1. CASE q = 0
    BY <1>1, <1>2, <2>1
  <2>2. CASE q # 0
    <3>1. PerThread * q \in Nat /\ PerThread <= PerThread * q
      <4>1. PerThread * 0 + PerThread <= PerThread * q
        BY <1>1, <1>2, <2>2, MulMono
      <4> QED BY <1>1, <1>2, <4>1
    <3> HIDE DEF q
    <3> QED BY <1>1, <1>2, <2>2, <3>1
  <2> QED BY <2>1, <2>2
<1> QED BY <1>1, <1>2, <1>3 DEF TaskCount, Least

\* The tasks' ranges lie in the list, one after the other.
LEMMA Split ==
    ASSUME NEW n \in Nat, TaskCount(n) > 0, NEW i \in 0 .. TasksFor(n) - 1
    PROVE  /\ i \in Workers
           /\ TaskOf(i, n).start \in 0 .. TaskOf(i, n).end
           /\ TaskOf(i, n).end \in 0 .. n
           /\ \A j \in 0 .. TasksFor(n) - 1 : i < j => TaskOf(i, n).end <= TaskOf(j, n).start
           /\ TaskOf(i, n).isvalied = TRUE /\ TaskOf(i, n).data = msg
<1> DEFINE T == TaskCount(n)
           q == n \div T
           S == Scale(n)
<1>1. T \in Nat \ {0} /\ T <= MaxThreads - 1 /\ MaxThreads \in Nat
  BY CountOfTasks, BroadcastAssumption
<1>2. TasksFor(n) \in {T, T + 1}
  BY DEF TasksFor
<1>3. n = T * q + (n % T) /\ n % T \in 0 .. T - 1 /\ q \in Nat
  BY <1>1, DivMod
<1>4. S \in Nat /\ S <= q
  <2>1. S = q % 256
    BY DEF Scale
  <2> HIDE DEF q, S
  <2>2. q = 256 * (q \div 256) + (q % 256) /\ q % 256 \in 0 .. 255 /\ q \div 256 \in Nat
    BY <1>3
  <2> QED BY <2>1, <2>2
<1> HIDE DEF T, q, S
<1>5. \A k \in Nat : S * k \in Nat
  BY <1>4
<1>6. ASSUME NEW k \in Nat, NEW l \in Nat, k < l PROVE S * k + S <= S * l
  <2>1. CASE S = 0
    BY <1>6, <2>1
  <2>2. CASE S # 0
    BY <1>4, <1>6, <2>2, MulMono
  <2> QED BY <2>1, <2>2
<1>7. S * T <= n
  <2>1. S * T <= q * T
    BY <1>1, <1>3, <1>4
  <2>2. q * T = T * q /\ T * q \in Nat
    BY <1>1, <1>3
  <2> QED BY <1>1, <1>3, <1>5, <2>1, <2>2
<1>8. \A k \in Nat : TaskOf(k, n) = [isvalied |-> TRUE, data |-> msg, start |-> S * k,
                                     end |-> IF k < T THEN S * k + S ELSE n]
  BY DEF TaskOf, S, T
<1>9. i \in Nat /\ i <= T
  BY <1>1, <1>2
<1>10. i \in Workers /\ S * i \in Nat
  BY <1>1, <1>5, <1>9 DEF Workers
<1>11. CASE i < T
  <2>1. S * i + S <= S * T /\ S * i \in Nat /\ S * T \in Nat
    BY <1>1, <1>5, <1>6, <1>9, <1>11
  <2>2. TaskOf(i, n).start = S * i /\ TaskOf(i, n).end = S * i + S
    BY <1>8, <1>9, <1>11
  <2>3. ASSUME NEW j \in 0 .. TasksFor(n) - 1, i < j PROVE TaskOf(i, n).end <= TaskOf(j, n).start
    <3>1. j \in Nat
      BY <1>1, <1>2
    <3> QED BY <1>6, <1>8, <1>9, <2>2, <2>3, <3>1
  <2>4. S * i + S \in 0 .. n /\ S * i \in 0 .. S * i + S
    BY <1>4, <1>7, <2>1
  <2> QED BY <1>8, <1>9, <1>10, <2>2, <2>3, <2>4
<1>12. CASE i = T
  <2>1. TaskOf(i, n).start = S * T /\ TaskOf(i, n).end = n
    BY <1>1, <1>8, <1>9, <1>12
  <2>2. \A j \in 0 .. TasksFor(n) - 1 : ~(i < j)
    BY <1>1, <1>2, <1>12
  <2>3. S * T \in 0 .. n
    BY <1>1, <1>5, <1>7
  <2> QED BY <1>8, <1>9, <1>10, <2>1, <2>2, <2>3
<1>13. i < T \/ i = T
  BY <1>1, <1>9
<1> QED BY <1>11, <1>12, <1>13

-----------------------------------------------------------------------------
(* Initially, and the type of the state.                                   *)

LEMMA Initially == Init => IInv
<1> SUFFICES ASSUME Init PROVE IInv
  OBVIOUS
<1> USE BroadcastAssumption
<1>1. m_clientsfd \in Seq(Entries) /\ IsInjective(m_clientsfd)
  BY DEF Init
<1>2. TypeOK
  <2>1. found \subseteq Entries /\ m_usrfd \subseteq {Info[e].usrid : e \in Entries}
    BY <1>1 DEF Init, ToSet
  <2> QED BY <1>1, <2>1 DEF Init, TypeOK, NoTask
<1>3. ListInv /\ UsersInv
  <2>1. found = {m_clientsfd[i] : i \in 1 .. Len(m_clientsfd)}
    BY <1>1 DEF Init, ToSet
  <2>2. Live = Len(m_clientsfd)
    BY DEF Init, Live
  <2>3. ListInv
    BY <1>1, <2>1, <2>2 DEF ListInv, IsInjective
  <2>4. UsersInv
    BY DEF Init, UsersInv
  <2> QED BY <2>3, <2>4
<1>4. IndexInv /\ ErrorInv /\ SwapInv /\ CoveredMeansSent
  BY DEF Init, IndexInv, ErrorInv, SwapInv, CoveredMeansSent
<1>5. WorkerInv
  BY DEF Init, WorkerInv, NoTask
<1>6. TriesInv
  BY DEF Init, TriesInv
<1> QED BY <1>2, <1>3, <1>4, <1>5, <1>6 DEF IInv

\* The workers whose task is armed are some of those there is a task for.
LEMMA InRange ==
    ASSUME IInv, phase = "arm", NEW w \in Workers, w < next
    PROVE  w \in 0 .. TasksFor(last) - 1 /\ TaskCount(last) > 0 /\ last = Len(m_clientsfd)
<1>1. TaskCount(last) > 0 /\ next <= TasksFor(last) /\ last = Len(m_clientsfd)
  BY DEF IInv, IndexInv
<1>2. last \in Nat /\ next \in Nat
  BY DEF IInv, TypeOK
<1>3. TasksFor(last) \in Nat
  BY <1>2, CountOfTasks, BroadcastAssumption DEF TasksFor
<1> QED BY <1>1, <1>2, <1>3, BroadcastAssumption DEF Workers

\* What WorkerInv and IndexInv say of a worker that is awake.
LEMMA AwakeInList ==
    ASSUME IInv, NEW w \in Workers, cursor[w] # Asleep
    PROVE  /\ phase = "arm" /\ w \in 0 .. TasksFor(last) - 1 /\ w < next
           /\ last = Len(m_clientsfd) /\ TaskCount(last) > 0
           /\ m_tasks[w] = TaskOf(w, last)
           /\ cursor[w] \in m_tasks[w].start .. m_tasks[w].end
           /\ m_tasks[w].end \in 0 .. Len(m_clientsfd)
           /\ cursor[w] # m_tasks[w].end => cursor[w] + 1 \in 1 .. Len(m_clientsfd)
<1>1. phase = "arm" /\ w < next /\ m_tasks[w].isvalied
  BY DEF IInv, WorkerInv, At
<1>2. w \in 0 .. TasksFor(last) - 1 /\ last = Len(m_clientsfd) /\ TaskCount(last) > 0
  BY <1>1, InRange
<1>3. last \in Nat /\ cursor[w] \in Nat
  BY DEF IInv, TypeOK
<1>4. m_tasks[w] = TaskOf(w, last)
  BY <1>1 DEF IInv, WorkerInv, At, TaskOf
<1>5. m_tasks[w].start <= cursor[w] /\ cursor[w] <= m_tasks[w].end
  BY <1>1 DEF IInv, WorkerInv, At
<1>6. TaskOf(w, last).start \in 0 .. TaskOf(w, last).end /\ TaskOf(w, last).end \in 0 .. last
  BY <1>2, <1>3, Split
<1> QED BY <1>1, <1>2, <1>3, <1>4, <1>5, <1>6

\* The entry clear_up looks at is in the list it was given, and, unless one of
\* the broken clients is listed twice, in the part still the list when it matches.
LEMMA MatchIsLive ==
    ASSUME IInv, SwapOut, last > 0
    PROVE  /\ next + 1 \in 1 .. Len(m_clientsfd) /\ last \in 1 .. Len(m_clientsfd)
           /\ which + 1 \in 1 .. Len(m_errorfd)
           /\ NoRepeat /\ Matches => next + 1 \in 1 .. last
<1>1. next \in Nat /\ last \in Nat /\ which \in Nat /\ m_clientsfd \in Seq(Entries) /\ m_errorfd \in Seq(Entries)
  BY DEF IInv, TypeOK
<1>2. phase = "swap" /\ which < Len(m_errorfd)
  BY DEF SwapOut
<1>3. last <= Len(m_clientsfd)
  BY <1>2 DEF IInv, ListInv, Live
<1>4. next < Len(m_clientsfd)
  BY <1>1, <1>2, <1>3 DEF SwapOut, IInv, SwapInv
<1>5. ASSUME NoRepeat, Matches PROVE next < last
  <2>1. which + 1 \in which + 1 .. Len(m_errorfd)
    BY <1>1, <1>2
  <2>2. ~(which > 0 /\ next >= last)
    BY <1>2, <1>5, <2>1 DEF IInv, SwapInv, Matches
  <2> QED BY <1>1, <2>2 DEF SwapOut
<1> QED BY <1>1, <1>2, <1>3, <1>4, <1>5

\* What clear_up takes out cannot be written to.
LEMMA MatchIsBroken ==
    ASSUME IInv, SwapOut, Matches
    PROVE  Broken(m_clientsfd[next + 1])
<1>1. which \in Nat /\ m_errorfd \in Seq(Entries) /\ which < Len(m_errorfd)
  BY DEF IInv, TypeOK, SwapOut
<1>2. which + 1 \in 1 .. Len(m_errorfd)
  BY <1>1
<1>3. Broken(m_errorfd[which + 1])
  BY <1>2 DEF IInv, ErrorInv
<1> QED BY <1>3 DEF Matches, Broken

\* Putting the client at place e, the last one, where the one at place p was.
LEMMA PutLast ==
    ASSUME NEW s \in Seq(Entries), NEW e \in 1 .. Len(s), NEW p \in 1 .. e,
           NEW t, t = [s EXCEPT ![p] = s[e]],
           \A i, j \in 1 .. e : s[i] = s[j] => i = j
    PROVE  /\ t \in Seq(Entries) /\ Len(t) = Len(s)
           /\ \A i \in 1 .. Len(s) : t[i] = IF i = p THEN s[e] ELSE s[i]
           /\ \A i, j \in 1 .. e - 1 : t[i] = t[j] => i = j
           /\ {t[i] : i \in 1 .. e - 1} = {s[i] : i \in 1 .. e} \ {s[p]}
<1>1. s[e] \in Entries
  OBVIOUS
<1>2. t \in Seq(Entries) /\ Len(t) = Len(s)
  BY <1>1
<1>3. \A i \in 1 .. Len(s) : t[i] = IF i = p THEN s[e] ELSE s[i]
  OBVIOUS
<1>4. \A i, j \in 1 .. e - 1 : t[i] = t[j] => i = j
  BY <1>3
<1>5. {t[i] : i \in 1 .. e - 1} \subseteq {s[i] : i \in 1 .. e} \ {s[p]}
  BY <1>3
<1>6. ASSUME NEW i \in 1 .. e, s[i] # s[p] PROVE \E j \in 1 .. e - 1 : t[j] = s[i]
  <2>1. CASE i = e
    BY <1>3, <1>6, <2>1
  <2>2. CASE i # e
    BY <1>3, <1>6, <2>2
  <2> QED BY <2>1, <2>2
<1> QED BY <1>2, <1>3, <1>4, <1>5, <1>6

LEMMA TypeStep == IInv /\ [Next]_vars => TypeOK'
<1> SUFFICES ASSUME IInv, [Next]_vars PROVE TypeOK'
  OBVIOUS
<1>0. TypeOK /\ ListInv /\ IndexInv
  BY DEF IInv
<1> USE <1>0 DEF TypeOK
<1>1. CASE StartBroadcast
  BY <1>1, BroadcastAssumption DEF StartBroadcast
<1>2. CASE SendDirect
  <2>1. next + 1 \in 1 .. Len(m_clientsfd) /\ last \in 1 .. Len(m_clientsfd)
    BY <1>2 DEF SendDirect, ListInv, Live
  <2>2. m_clientsfd[next + 1] \in Entries /\ m_clientsfd[last] \in Entries
    BY <2>1
  <2>3. m_clientsfd' \in Seq(Entries) /\ next' \in Nat /\ last' \in Nat
    <3>1. CASE Broken(m_clientsfd[next + 1])
      <4>1. m_clientsfd' = [m_clientsfd EXCEPT ![next + 1] = m_clientsfd[last]]
        BY <1>2, <3>1 DEF SendDirect
      <4>2. m_clientsfd' \in Seq(Entries)
        <5>1. \A i, j \in 1 .. last : m_clientsfd[i] = m_clientsfd[j] => i = j
          BY <1>2 DEF SendDirect, ListInv, Live
        <5>2. next + 1 \in 1 .. last
          BY <1>2, <2>1 DEF SendDirect
        <5> QED BY <2>1, <4>1, <5>1, <5>2, PutLast, SMTT(30)
      <4>3. next' = next /\ last' = last - 1
        BY <1>2, <3>1 DEF SendDirect
      <4> QED BY <2>1, <4>2, <4>3
    <3>2. CASE ~Broken(m_clientsfd[next + 1])
      BY <1>2, <3>2 DEF SendDirect
    <3> QED BY <3>1, <3>2
  <2>4. tries' \in [Entries -> Nat]
    <3>1. tries' = [tries EXCEPT ![m_clientsfd[next + 1]] = @ + 1]
      BY <1>2 DEF SendDirect
    <3> QED BY <2>2, <3>1
  <2> QED BY <1>2, <2>3, <2>4 DEF SendDirect
<1>3. CASE EndDirect
  BY <1>3 DEF EndDirect, ListInv, Live
<1>4. CASE ArmTask
  <2>1. next \in 0 .. TasksFor(last) - 1 /\ TaskCount(last) > 0
    <3>1. TaskCount(last) \in Nat
      BY CountOfTasks, BroadcastAssumption
    <3>2. TasksFor(last) \in {TaskCount(last), TaskCount(last) + 1}
      BY DEF TasksFor
    <3> QED BY <1>4, <3>1, <3>2 DEF ArmTask, IndexInv
  <2>2. TaskOf(next, last) \in [isvalied : BOOLEAN, data : 0 .. MaxBroadcasts, start : Nat, end : Nat]
    <3>1. /\ TaskOf(next, last).start \in 0 .. TaskOf(next, last).end
          /\ TaskOf(next, last).end \in 0 .. last
          /\ TaskOf(next, last).isvalied = TRUE /\ TaskOf(next, last).data = msg
      BY <2>1, Split
    <3> QED BY <3>1 DEF TaskOf
  <2>3. next \in Workers
    BY <2>1, Split
  <2>4. m_tasks' \in [Workers -> [isvalied : BOOLEAN, data : 0 .. MaxBroadcasts, start : Nat, end : Nat]]
    BY <1>4, <2>2, <2>3 DEF ArmTask
  <2> QED BY <1>4, <2>4 DEF ArmTask
<1>5. CASE Complete
  BY <1>5 DEF Complete
<1>6. CASE StartClear
  BY <1>6 DEF StartClear
<1>7. CASE SwapOut
  <2>1. /\ which' = which + 1 /\ phase' \in {"swap", "undefined"}
        /\ UNCHANGED <<m_usrfd, m_errorfd, broken, m_tasks, cursor, msg, next, tries, found>>
    BY <1>7 DEF SwapOut
  <2>2. m_clientsfd' \in Seq(Entries) /\ last' \in Nat
    <3>1. CASE Matches /\ last > 0
      <4>1. next + 1 \in 1 .. Len(m_clientsfd) /\ last \in 1 .. Len(m_clientsfd)
        BY <1>7, <3>1, MatchIsLive
      <4>2. m_clientsfd' = [m_clientsfd EXCEPT ![next + 1] = m_clientsfd[last]] /\ last' = last - 1
        BY <1>7, <3>1 DEF SwapOut
      <4> HIDE DEF TypeOK
      <4>3. m_clientsfd \in Seq(Entries) /\ last \in Nat
        BY <1>0 DEF TypeOK
      <4>4. m_clientsfd[last] \in Entries
        BY <4>1, <4>3
      <4> QED BY <4>1, <4>2, <4>3, <4>4
    <3>2. CASE ~(Matches /\ last > 0)
      BY <1>7, <3>2 DEF SwapOut
    <3> QED BY <3>1, <3>2
  <2> QED BY <2>1, <2>2, SMTT(30)
<1>8. CASE SwapNext
  BY <1>8 DEF SwapNext
<1>9. CASE EndClear
  BY <1>9 DEF EndClear, ListInv, Live
<1>10. ASSUME NEW w \in Workers, WorkerStarts(w) PROVE TypeOK'
  BY <1>10 DEF WorkerStarts
<1>11. ASSUME NEW w \in Workers, WorkerSends(w) PROVE TypeOK'
  <2>1. cursor[w] \in Nat /\ cursor[w] + 1 \in 1 .. Len(m_clientsfd)
    BY <1>11, AwakeInList DEF WorkerSends
  <2>2. m_clientsfd[cursor[w] + 1] \in Entries
    BY <2>1
  <2>3. /\ tries' = [tries EXCEPT ![m_clientsfd[cursor[w] + 1]] = @ + 1]
        /\ m_errorfd' \in {m_errorfd, Append(m_errorfd, m_clientsfd[cursor[w] + 1])}
        /\ cursor' = [cursor EXCEPT ![w] = @ + 1]
        /\ UNCHANGED <<m_clientsfd, m_usrfd, broken, m_tasks, phase, msg, next, last, which, found>>
    BY <1>11 DEF WorkerSends
  <2>4. tries' \in [Entries -> Nat] /\ m_errorfd' \in Seq(Entries)
    <3>1. tries' \in [Entries -> Nat]
      BY <2>2, <2>3
    <3>2. Append(m_errorfd, m_clientsfd[cursor[w] + 1]) \in Seq(Entries)
      BY <2>2
    <3> QED BY <2>3, <3>1, <3>2
  <2>5. cursor' \in [Workers -> Nat \cup {Asleep}]
    BY <2>1, <2>3
  <2> QED BY <2>3, <2>4, <2>5, SMTT(30)
<1>12. ASSUME NEW w \in Workers, WorkerEnds(w) PROVE TypeOK'
  BY <1>12 DEF WorkerEnds
<1>13. CASE Breaks
  BY <1>13 DEF Breaks
<1>14. CASE UNCHANGED vars
  BY <1>14 DEF vars
<1> QED BY <1>1, <1>2, <1>3, <1>4, <1>5, <1>6, <1>7, <1>8, <1>9, <1>10, <1>11, <1>12, <1>13, <1>14
        DEF Next, RunServer, Worker

-----------------------------------------------------------------------------
(* The list.                                                               *)

\* The client put forward takes the place of one that is broken.
LEMMA TakeOut ==
    ASSUME IInv, Live = last, next + 1 \in 1 .. last, Broken(m_clientsfd[next + 1]),
           m_clientsfd' = [m_clientsfd EXCEPT ![next + 1] = m_clientsfd[last]],
           Live' = last - 1, UNCHANGED <<broken, found>>
    PROVE  ListInv'
<1>1. m_clientsfd \in Seq(Entries) /\ last \in 1 .. Len(m_clientsfd) /\ last \in Nat
  BY DEF IInv, TypeOK, ListInv
<1>2. \A i, j \in 1 .. last : m_clientsfd[i] = m_clientsfd[j] => i = j
  BY DEF IInv, ListInv
<1>3. PICK t : t = m_clientsfd'
  OBVIOUS
<1>4. /\ Len(t) = Len(m_clientsfd)
      /\ \A i \in 1 .. Len(m_clientsfd) : t[i] = IF i = next + 1 THEN m_clientsfd[last] ELSE m_clientsfd[i]
      /\ \A i, j \in 1 .. last - 1 : t[i] = t[j] => i = j
      /\ {t[i] : i \in 1 .. last - 1} = {m_clientsfd[i] : i \in 1 .. last} \ {m_clientsfd[next + 1]}
  BY <1>1, <1>2, <1>3, PutLast, SMTT(30)
<1>5. \A i \in 1 .. Len(t) : t[i] \in found
  BY <1>1, <1>4 DEF IInv, ListInv
<1>6. ASSUME NoRepeat, NEW e \in found, ~Broken(e) PROVE \E i \in 1 .. last - 1 : t[i] = e
  <2>1. PICK i \in 1 .. last : m_clientsfd[i] = e
    BY <1>6 DEF IInv, ListInv
  <2>2. e # m_clientsfd[next + 1]
    BY <1>6
  <2>3. e \in {t[k] : k \in 1 .. last - 1}
    BY <1>4, <2>1, <2>2
  <2> QED BY <2>3
<1>7. last - 1 <= Len(t)
  BY <1>1, <1>4
<1>8. NoRepeat' = NoRepeat /\ \A e \in found : Broken(e)' = Broken(e)
  BY DEF NoRepeat, Broken
<1> QED BY <1>3, <1>4, <1>5, <1>6, <1>7, <1>8 DEF ListInv

\* A client listed twice matches once more, behind the list: the last entry is
\* lost, whosever it is.
LEMMA TakeTwice ==
    ASSUME IInv, Live = last, last > 0, next + 1 \in last + 1 .. Len(m_clientsfd), ~NoRepeat,
           m_clientsfd' = [m_clientsfd EXCEPT ![next + 1] = m_clientsfd[last]],
           Live' = last - 1, UNCHANGED <<broken, found>>
    PROVE  ListInv'
<1>1. m_clientsfd \in Seq(Entries) /\ last \in 1 .. Len(m_clientsfd) /\ last \in Nat
  BY DEF IInv, TypeOK, ListInv
<1>2. PICK t : t = m_clientsfd'
  OBVIOUS
<1>3. /\ Len(t) = Len(m_clientsfd)
      /\ \A i \in 1 .. Len(m_clientsfd) : t[i] = IF i = next + 1 THEN m_clientsfd[last] ELSE m_clientsfd[i]
  BY <1>1, <1>2
<1>4. \A i, j \in 1 .. last - 1 : t[i] = t[j] => i = j
  <2>1. \A i \in 1 .. last - 1 : t[i] = m_clientsfd[i] /\ i \in 1 .. last
    BY <1>1, <1>3
  <2>2. \A i, j \in 1 .. last : m_clientsfd[i] = m_clientsfd[j] => i = j
    BY DEF IInv, ListInv
  <2> QED BY <2>1, <2>2
<1>5. \A i \in 1 .. Len(t) : t[i] \in found
  BY <1>1, <1>3 DEF IInv, ListInv
<1>6. last - 1 <= Len(t)
  BY <1>1, <1>3
<1>7. ~NoRepeat'
  BY DEF NoRepeat, Broken
<1> QED BY <1>2, <1>4, <1>5, <1>6, <1>7 DEF ListInv

\* Cutting the list off at last.
LEMMA CutOff ==
    ASSUME IInv, Live = last, m_clientsfd' = SubSeq(m_clientsfd, 1, last),
           Live' = Len(m_clientsfd'), UNCHANGED <<broken, found>>
    PROVE  ListInv'
<1>1. m_clientsfd \in Seq(Entries) /\ last \in 0 .. Len(m_clientsfd)
  BY DEF IInv, TypeOK, ListInv
<1>2. PICK t : t = m_clientsfd'
  OBVIOUS
<1>3. t \in Seq(Entries) /\ Len(t) = last /\ \A i \in 1 .. last : t[i] = m_clientsfd[i]
  BY <1>1, <1>2
<1>4. (\A i \in 1 .. last : t[i] \in found) /\ \A i, j \in 1 .. last : t[i] = t[j] => i = j
  <2>1. \A i, j \in 1 .. last : m_clientsfd[i] = m_clientsfd[j] => i = j
    BY DEF IInv, ListInv
  <2>2. \A i \in 1 .. last : m_clientsfd[i] \in found
    BY <1>1 DEF IInv, ListInv
  <2> QED BY <1>3, <2>1, <2>2
<1>5. ASSUME NoRepeat, NEW e \in found, ~Broken(e) PROVE \E i \in 1 .. last : t[i] = e
  <2>1. PICK i \in 1 .. last : m_clientsfd[i] = e
    BY <1>5 DEF IInv, ListInv
  <2> QED BY <1>3, <2>1
<1>6. NoRepeat' = NoRepeat /\ \A e \in found : Broken(e)' = Broken(e)
  BY DEF NoRepeat, Broken
<1> QED BY <1>1, <1>2, <1>3, <1>4, <1>5, <1>6 DEF ListInv

LEMMA ListStep == IInv /\ [Next]_vars => ListInv'
<1> SUFFICES ASSUME IInv, [Next]_vars PROVE ListInv'
  OBVIOUS
<1>1. TypeOK /\ ListInv
  BY DEF IInv
<1>2. ASSUME UNCHANGED <<m_clientsfd, broken, found>>, Live' = Live PROVE ListInv'
  BY <1>1, <1>2 DEF ListInv, NoRepeat, Broken
<1>3. CASE StartBroadcast
  BY <1>2, <1>3 DEF StartBroadcast, Live
<1>4. CASE SendDirect
  <2>1. Live = last /\ Live' = last' /\ next + 1 \in 1 .. last
    BY <1>1, <1>4 DEF SendDirect, Live, TypeOK
  <2>2. CASE Broken(m_clientsfd[next + 1])
    BY <1>4, <2>1, <2>2, TakeOut DEF SendDirect
  <2>3. CASE ~Broken(m_clientsfd[next + 1])
    BY <1>2, <1>4, <2>1, <2>3 DEF SendDirect
  <2> QED BY <2>2, <2>3
<1>5. CASE EndDirect
  BY <1>5, CutOff DEF EndDirect, Live
<1>6. CASE ArmTask
  BY <1>2, <1>6 DEF ArmTask, Live
<1>7. CASE Complete
  BY <1>2, <1>7 DEF Complete, Live
<1>8. CASE StartClear
  BY <1>2, <1>8 DEF StartClear, Live
<1>9. CASE SwapOut
  <2>1. Live = last /\ Live' = last' /\ UNCHANGED <<broken, found>>
    BY <1>9 DEF SwapOut, Live
  <2>2. CASE Matches /\ last > 0
    <3>1. /\ m_clientsfd' = [m_clientsfd EXCEPT ![next + 1] = m_clientsfd[last]]
          /\ Live' = last - 1
      BY <1>9, <2>1, <2>2 DEF SwapOut
    <3>2. CASE next + 1 \in 1 .. last
      BY <1>9, <2>1, <2>2, <3>1, <3>2, MatchIsBroken, TakeOut
    <3>3. CASE next + 1 \notin 1 .. last
      <4>1. next + 1 \in 1 .. Len(m_clientsfd) /\ ~NoRepeat
        BY <1>9, <2>2, <3>3, MatchIsLive
      <4>2. next + 1 \in last + 1 .. Len(m_clientsfd)
        BY <1>1, <3>3, <4>1 DEF TypeOK
      <4> QED BY <2>1, <2>2, <3>1, <4>1, <4>2, TakeTwice
    <3> QED BY <3>2, <3>3
  <2>3. CASE ~(Matches /\ last > 0)
    BY <1>2, <1>9, <2>1, <2>3 DEF SwapOut
  <2> QED BY <2>2, <2>3
<1>10. CASE SwapNext
  BY <1>2, <1>10 DEF SwapNext, Live
<1>11. CASE EndClear
  BY <1>11, CutOff DEF EndClear, Live
<1>12. ASSUME NEW w \in Workers, Worker(w) PROVE ListInv'
  BY <1>2, <1>12 DEF Worker, WorkerStarts, WorkerSends, WorkerEnds, Live
<1>13. CASE Breaks
  <2>1. Live' = Live /\ UNCHANGED <<m_clientsfd, found>> /\ broken \subseteq broken'
    BY <1>13 DEF Breaks, Live
  <2>2. NoRepeat' => NoRepeat
    BY <2>1 DEF NoRepeat, Broken
  <2>3. \A e \in found : ~Broken(e)' => ~Broken(e)
    BY <2>1 DEF Broken
  <2> QED BY <1>1, <2>1, <2>2, <2>3 DEF ListInv
<1>14. CASE UNCHANGED vars
  BY <1>2, <1>14 DEF vars, Live
<1> QED BY <1>3, <1>4, <1>5, <1>6, <1>7, <1>8, <1>9, <1>10, <1>11, <1>12, <1>13, <1>14 DEF Next, RunServer

\* m_usrfd loses only users with a noted entry, and those are broken.
LEMMA UsersStep == IInv /\ [Next]_vars => UsersInv'
<1> SUFFICES ASSUME IInv, [Next]_vars PROVE UsersInv'
  OBVIOUS
<1>1. UsersInv
  BY DEF IInv
<1>2. ASSUME UNCHANGED <<m_usrfd, found, broken>> PROVE UsersInv'
  BY <1>1, <1>2 DEF UsersInv, Broken
<1>3. CASE StartClear
  <2>1. \A f \in ToSet(m_errorfd) : f \in found /\ Broken(f)
    BY DEF IInv, TypeOK, ErrorInv, ToSet
  <2>2. m_usrfd' = m_usrfd \ {Info[f].usrid : f \in ToSet(m_errorfd)} /\ UNCHANGED <<found, broken>>
    BY <1>3 DEF StartClear
  <2> QED BY <1>1, <2>1, <2>2 DEF UsersInv, Broken
<1>4. CASE Breaks
  <2>1. UNCHANGED <<m_usrfd, found>> /\ broken \subseteq broken'
    BY <1>4 DEF Breaks
  <2> QED BY <1>1, <2>1 DEF UsersInv, Broken
<1>5. CASE RunServer /\ ~StartClear
  BY <1>2, <1>5 DEF RunServer, StartBroadcast, SendDirect, EndDirect, ArmTask, Complete, SwapOut, SwapNext, EndClear
<1>6. ASSUME NEW w \in Workers, Worker(w) PROVE UsersInv'
  BY <1>2, <1>6 DEF Worker, WorkerStarts, WorkerSends, WorkerEnds
<1>7. CASE UNCHANGED vars
  BY <1>2, <1>7 DEF vars
<1> QED BY <1>3, <1>4, <1>5, <1>6, <1>7 DEF Next

-----------------------------------------------------------------------------
(* The indices and the workers.                                            *)

LEMMA IndexStep == IInv /\ [Next]_vars => IndexInv'
<1> SUFFICES ASSUME IInv, [Next]_vars PROVE IndexInv'
  OBVIOUS
<1>1. TypeOK /\ IndexInv
  BY DEF IInv
<1>2. ASSUME UNCHANGED <<m_clientsfd, phase, next, last, which>> PROVE IndexInv'
  BY <1>1, <1>2 DEF IndexInv, TaskCount, TasksFor, ShareBit
<1>3. CASE StartBroadcast
  <2>1. PICK n \in Nat : n = Len(m_clientsfd)
    BY <1>1 DEF TypeOK
  <2>2. TaskCount(n) \in Nat /\ TasksFor(n) \in Nat
    BY <2>1, CountOfTasks, BroadcastAssumption DEF TasksFor
  <2>3. last' = n /\ next' = 0 /\ m_clientsfd' = m_clientsfd /\ which' = 0
    BY <1>1, <1>3, <2>1 DEF StartBroadcast, IndexInv
  <2>4. TaskCount(last)' = TaskCount(n) /\ TasksFor(last)' = TasksFor(n)
    BY <2>3 DEF TaskCount, TasksFor, ShareBit, Least
  <2>5. phase' = IF TaskCount(n) = 0 THEN "direct" ELSE "arm"
    BY <1>3, <2>1 DEF StartBroadcast
  <2> QED BY <2>1, <2>2, <2>3, <2>4, <2>5 DEF IndexInv
<1>4. CASE SendDirect
  <2>1. next < last /\ phase = "direct" /\ phase' = phase /\ which' = which
    BY <1>4 DEF SendDirect
  <2>2. which = 0 /\ TaskCount(last) = 0 /\ next \in Nat /\ last \in Nat
    BY <1>1, <2>1 DEF IndexInv, TypeOK
  <2>3. PICK e \in {last - 1, last}, i \in {next, next + 1} :
            last' = e /\ next' = i /\ i <= e
    <3>1. CASE Broken(m_clientsfd[next + 1])
      BY <1>4, <2>1, <2>2, <3>1 DEF SendDirect
    <3>2. CASE ~Broken(m_clientsfd[next + 1])
      BY <1>4, <2>1, <2>2, <3>2 DEF SendDirect
    <3> QED BY <3>1, <3>2
  <2>4. TaskCount(e) = 0
    <3>1. last < PerThread
      BY <2>2, CountOfTasks
    <3>2. e \in Nat /\ e < PerThread
      BY <2>1, <2>2, <3>1, BroadcastAssumption
    <3> QED BY <3>2, CountOfTasks
  <2>5. TaskCount(last)' = 0
    BY <2>3, <2>4 DEF TaskCount, Least
  <2> QED BY <2>1, <2>2, <2>3, <2>5 DEF IndexInv
<1>5. CASE EndDirect
  BY <1>1, <1>5 DEF EndDirect, IndexInv
<1>6. CASE ArmTask
  <2>1. PICK i \in Nat : i = next
    BY <1>1 DEF TypeOK
  <2>2. TasksFor(last) \in Nat
    <3>1. last \in Nat
      BY <1>1 DEF TypeOK
    <3>2. TaskCount(last) \in Nat
      BY <3>1, CountOfTasks, BroadcastAssumption
    <3>3. TasksFor(last) \in {TaskCount(last), TaskCount(last) + 1}
      BY DEF TasksFor
    <3> QED BY <3>2, <3>3
  <2>3. next' = i + 1 /\ i + 1 <= TasksFor(last)
    BY <1>6, <2>1, <2>2 DEF ArmTask
  <2>4. phase = "arm" /\ UNCHANGED <<m_clientsfd, phase, last, which>>
    BY <1>6 DEF ArmTask
  <2>5. TaskCount(last)' = TaskCount(last) /\ TasksFor(last)' = TasksFor(last)
    BY <2>4 DEF TaskCount, TasksFor, ShareBit, Least
  <2> QED BY <1>1, <2>3, <2>4, <2>5 DEF IndexInv
<1>7. CASE Complete
  BY <1>1, <1>7 DEF Complete, IndexInv
<1>8. CASE StartClear
  BY <1>1, <1>8 DEF StartClear, IndexInv
<1>9. CASE SwapOut
  BY <1>9 DEF SwapOut, IndexInv
<1>10. CASE SwapNext
  BY <1>10 DEF SwapNext, IndexInv
<1>11. CASE EndClear
  BY <1>11 DEF EndClear, IndexInv
<1>12. ASSUME NEW w \in Workers, Worker(w) PROVE IndexInv'
  BY <1>2, <1>12 DEF Worker, WorkerStarts, WorkerSends, WorkerEnds
<1>13. CASE Breaks
  BY <1>2, <1>13 DEF Breaks
<1>14. CASE UNCHANGED vars
  BY <1>2, <1>14 DEF vars
<1> QED BY <1>3, <1>4, <1>5, <1>6, <1>7, <1>8, <1>9, <1>10, <1>11, <1>12, <1>13, <1>14 DEF Next, RunServer

LEMMA WorkerStep == IInv /\ [Next]_vars => WorkerInv'
<1> SUFFICES ASSUME IInv, [Next]_vars PROVE WorkerInv'
  OBVIOUS
<1>1. TypeOK /\ WorkerInv
  BY DEF IInv
<1>2. ASSUME phase # "arm", phase' # "arm", UNCHANGED <<m_tasks, cursor>> PROVE WorkerInv'
  BY <1>1, <1>2 DEF WorkerInv
<1>3. CASE StartBroadcast
  <2>1. next' = 0 /\ phase = "idle" /\ UNCHANGED <<m_tasks, cursor>>
    BY <1>3 DEF StartBroadcast
  <2>2. \A w \in Workers : ~(w < next')
    BY <2>1, BroadcastAssumption DEF Workers
  <2> QED BY <1>1, <2>1, <2>2 DEF WorkerInv
<1>4. CASE SendDirect \/ EndDirect \/ SwapOut \/ SwapNext \/ EndClear \/ StartClear
  BY <1>2, <1>4 DEF SendDirect, EndDirect, SwapOut, SwapNext, EndClear, StartClear
<1>5. CASE ArmTask
  <2>1. PICK i \in Nat : i = next
    BY <1>1 DEF TypeOK
  <2>2. phase = "arm" /\ phase' = "arm" /\ next' = i + 1 /\ UNCHANGED <<cursor, last, msg>>
    BY <1>5, <2>1 DEF ArmTask
  <2>3. m_tasks' = [m_tasks EXCEPT ![i] = TaskOf(i, last)]
    BY <1>5, <2>1 DEF ArmTask
  <2> SUFFICES ASSUME NEW w \in Workers
               PROVE  IF w < i + 1
                        THEN At(m_tasks'[w], TaskOf(w, last), cursor[w])
                        ELSE cursor[w] = Asleep /\ ~m_tasks'[w].isvalied
    <3>1. \A v \in Workers : TaskOf(v, last)' = TaskOf(v, last)
      BY <2>2 DEF TaskOf, TaskCount, Scale, Least
    <3> QED BY <2>2, <3>1 DEF WorkerInv
  <2>4. w \in Nat
    BY BroadcastAssumption DEF Workers
  <2>5. CASE w = i
    <3>1. cursor[w] = Asleep
      <4>1. ~(w < next)
        BY <2>1, <2>4, <2>5
      <4> QED BY <1>1, <4>1 DEF WorkerInv
    <3>2. m_tasks'[w] = TaskOf(w, last)
      BY <1>1, <2>3, <2>5 DEF TypeOK
    <3>3. At(TaskOf(w, last), TaskOf(w, last), Asleep)
      BY DEF At, TaskOf
    <3> QED BY <2>4, <2>5, <3>1, <3>2, <3>3
  <2>6. CASE w # i
    <3>1. m_tasks'[w] = m_tasks[w]
      BY <1>1, <2>3, <2>6 DEF TypeOK
    <3>2. w < i + 1 <=> w < next
      BY <2>1, <2>4, <2>6
    <3> QED BY <1>1, <2>2, <3>1, <3>2 DEF WorkerInv
  <2> QED BY <2>5, <2>6
<1>6. CASE Complete
  <2>1. /\ \A w \in Workers : ~m_tasks[w].isvalied
        /\ phase' = "clear" /\ UNCHANGED <<m_tasks, cursor>>
    BY <1>6 DEF Complete
  <2>2. \A w \in Workers : cursor[w] = Asleep
    BY <1>1, <2>1 DEF WorkerInv, At
  <2> QED BY <2>1, <2>2 DEF WorkerInv
<1>7. ASSUME NEW w \in Workers, Worker(w) PROVE WorkerInv'
  <2>1. UNCHANGED <<phase, next, last, msg>>
    BY <1>7 DEF Worker, WorkerStarts, WorkerSends, WorkerEnds
  <2>2. \A v \in Workers \ {w} : m_tasks'[v] = m_tasks[v] /\ cursor'[v] = cursor[v]
    BY <1>1, <1>7 DEF Worker, WorkerStarts, WorkerSends, WorkerEnds, TypeOK
  <2>3. phase = "arm" /\ w < next
    BY <1>1, <1>7 DEF WorkerInv, Worker, WorkerStarts, WorkerSends, WorkerEnds
  <2>4. m_tasks[w] = [TaskOf(w, last) EXCEPT !.isvalied = m_tasks[w].isvalied]
    BY <1>1, <2>3 DEF WorkerInv, At
  <2>5. At(m_tasks'[w], TaskOf(w, last), cursor'[w])
    <3>1. CASE WorkerStarts(w)
      <4>1. m_tasks[w].isvalied /\ m_tasks' = m_tasks /\ cursor'[w] = m_tasks[w].start
        BY <1>1, <3>1 DEF WorkerStarts, TypeOK
      <4>2. m_tasks[w].start <= m_tasks[w].end /\ m_tasks[w].start \in Nat
        <5>1. TaskCount(last) > 0 /\ w \in 0 .. TasksFor(last) - 1
          BY <2>3, InRange DEF IInv, TypeOK
        <5>2. TaskOf(w, last).start \in 0 .. TaskOf(w, last).end /\ TaskOf(w, last).end \in 0 .. last
          BY <1>1, <5>1, Split DEF TypeOK
        <5>3. m_tasks[w].start = TaskOf(w, last).start /\ m_tasks[w].end = TaskOf(w, last).end
          BY <2>4 DEF TaskOf
        <5> QED BY <1>1, <5>2, <5>3 DEF TypeOK
      <4> QED BY <2>4, <4>1, <4>2 DEF At
    <3>2. CASE WorkerSends(w)
      <4>1. PICK k \in Nat : k = cursor[w]
        BY <1>1, <3>2 DEF WorkerSends, TypeOK
      <4>2. m_tasks' = m_tasks /\ cursor'[w] = k + 1 /\ cursor[w] # Asleep /\ k # m_tasks[w].end
        BY <1>1, <3>2, <4>1 DEF WorkerSends, TypeOK
      <4>3. m_tasks[w].isvalied /\ m_tasks[w].start <= k /\ k <= m_tasks[w].end
        BY <1>1, <2>3, <4>1, <4>2 DEF WorkerInv, At
      <4>4. m_tasks[w].start \in Nat /\ m_tasks[w].end \in Nat
        BY <1>1 DEF TypeOK
      <4>5. m_tasks[w].start <= k + 1 /\ k + 1 <= m_tasks[w].end
        BY <4>1, <4>2, <4>3, <4>4
      <4> QED BY <2>4, <4>2, <4>3, <4>5 DEF At
    <3>3. CASE WorkerEnds(w)
      <4>1. m_tasks'[w] = [m_tasks[w] EXCEPT !.isvalied = FALSE] /\ cursor'[w] = Asleep
        BY <1>1, <3>3 DEF WorkerEnds, TypeOK
      <4> QED BY <2>4, <4>1 DEF TaskOf, At
    <3> QED BY <1>7, <3>1, <3>2, <3>3 DEF Worker
  <2>6. \A v \in Workers : TaskOf(v, last)' = TaskOf(v, last)
    BY <2>1 DEF TaskOf, TaskCount, Scale, Least
  <2>7. ASSUME NEW v \in Workers \ {w}
        PROVE IF phase = "arm" /\ v < next
                THEN At(m_tasks'[v], TaskOf(v, last), cursor'[v])
                ELSE cursor'[v] = Asleep /\ ~m_tasks'[v].isvalied
    BY <1>1, <2>2 DEF WorkerInv
  <2> QED BY <2>1, <2>3, <2>5, <2>6, <2>7 DEF WorkerInv
<1>8. CASE Breaks \/ UNCHANGED vars
  <2>1. UNCHANGED <<m_tasks, cursor, phase, next, last, msg>>
    BY <1>8 DEF Breaks, vars
  <2>2. \A w \in Workers : TaskOf(w, last)' = TaskOf(w, last)
    BY <2>1 DEF TaskOf, TaskCount, Scale, Least
  <2> QED BY <1>1, <2>1, <2>2 DEF WorkerInv
<1> QED BY <1>3, <1>4, <1>5, <1>6, <1>7, <1>8 DEF Next, RunServer

-----------------------------------------------------------------------------
(* How often the message was written to each client.                       *)

\* No worker, nor the one itself, has been at the place a worker is at.
LEMMA NotYetWritten ==
    ASSUME IInv, NEW w \in Workers, WorkerSends(w), NEW v \in Workers
    PROVE  ~Written(v, cursor[w] + 1)
<1>1. PICK k : k = cursor[w]
  OBVIOUS
<1>2. /\ phase = "arm" /\ w \in 0 .. TasksFor(last) - 1 /\ TaskCount(last) > 0
      /\ m_tasks[w] = TaskOf(w, last) /\ m_tasks[w].end \in 0 .. Len(m_clientsfd)
      /\ k \in m_tasks[w].start .. m_tasks[w].end /\ k # m_tasks[w].end
  BY <1>1, AwakeInList DEF WorkerSends
<1>3. last \in Nat /\ w \in Nat /\ v \in Nat /\ k \in Nat
  BY <1>1, BroadcastAssumption DEF IInv, TypeOK, Workers, WorkerSends
<1>4. m_tasks[w].start \in Nat /\ m_tasks[w].end \in Nat /\ m_tasks[v].start \in Nat /\ m_tasks[v].end \in Nat
  BY DEF IInv, TypeOK
<1>5. SUFFICES ASSUME v < next, Done(m_tasks[v], cursor[v], k + 1) PROVE FALSE
  BY <1>1 DEF Written
<1>6. CASE v = w
  <2>1. m_tasks[w].isvalied = TRUE
    BY <1>2, <1>3, Split
  <2> QED BY <1>1, <1>3, <1>5, <1>6, <2>1 DEF Done
<1>7. CASE v # w
  <2>1. v \in 0 .. TasksFor(last) - 1
    BY <1>2, <1>5, InRange
  <2>2. m_tasks[v].start = TaskOf(v, last).start /\ m_tasks[v].end = TaskOf(v, last).end
    BY <1>2, <1>5 DEF IInv, WorkerInv, At, TaskOf
  <2>3. CASE v < w
    <3>1. m_tasks[v].end <= m_tasks[w].start
      BY <1>2, <1>3, <2>1, <2>2, <2>3, Split
    <3> QED BY <1>2, <1>3, <1>4, <1>5, <3>1 DEF Done
  <2>4. CASE w < v
    <3>1. m_tasks[w].end <= m_tasks[v].start
      BY <1>2, <1>3, <2>1, <2>2, <2>4, Split
    <3> QED BY <1>2, <1>3, <1>4, <1>5, <3>1 DEF Done
  <2> QED BY <1>3, <1>7, <2>3, <2>4
<1> QED BY <1>6, <1>7

\* So the client that is there has not been written to.
LEMMA FirstTime ==
    ASSUME IInv, NEW w \in Workers, WorkerSends(w), NEW c, c = m_clientsfd[cursor[w] + 1]
    PROVE  /\ cursor[w] + 1 \in 1 .. Len(m_clientsfd)
           /\ phase = "arm" /\ c \in Entries /\ tries[c] = 0
           /\ tries' = [tries EXCEPT ![c] = 1]
<1>1. phase = "arm" /\ cursor[w] + 1 \in 1 .. Len(m_clientsfd)
  BY AwakeInList DEF WorkerSends
<1>2. c \in Entries
  BY <1>1 DEF IInv, TypeOK
<1>3. ~ \E v \in Workers : Written(v, cursor[w] + 1)
  BY NotYetWritten
<1>4. tries[c] # 1
  BY <1>1, <1>3 DEF IInv, TriesInv
<1>5. tries[c] = 0
  BY <1>2, <1>4 DEF IInv, TriesInv
<1> QED BY <1>1, <1>2, <1>5 DEF WorkerSends

LEMMA TriesStep == IInv /\ [Next]_vars => TriesInv'
<1> SUFFICES ASSUME IInv, [Next]_vars PROVE TriesInv'
  OBVIOUS
<1>1. TypeOK /\ TriesInv
  BY DEF IInv
<1>2. ASSUME phase' \notin {"direct", "arm"}, tries' = tries PROVE TriesInv'
  BY <1>1, <1>2 DEF TriesInv
<1>3. ASSUME phase = "arm", UNCHANGED <<m_clientsfd, phase, tries>>,
             \A v \in Workers : \A i \in 1 .. Len(m_clientsfd) : Written(v, i)' <=> Written(v, i)
      PROVE  TriesInv'
  BY <1>1, <1>3 DEF TriesInv
<1>4. CASE StartBroadcast
  <2>1. \A w \in Workers : ~(w < next')
    BY <1>4, BroadcastAssumption DEF StartBroadcast, Workers
  <2>2. tries' = [c \in Entries |-> 0] /\ m_clientsfd' = m_clientsfd
    BY <1>4 DEF StartBroadcast
  <2>3. \A i \in 1 .. Len(m_clientsfd) : tries'[m_clientsfd'[i]] = 0
    BY <1>1, <2>2 DEF TypeOK
  <2>4. phase' = "direct" => next' = 0 /\ last' = Len(m_clientsfd)
    BY <1>4 DEF StartBroadcast
  <2> QED BY <1>1, <2>1, <2>2, <2>3, <2>4 DEF TriesInv, Written
<1>5. CASE SendDirect
  <2>1. PICK k : k = next
    OBVIOUS
  <2>2. PICK e : e = last
    OBVIOUS
  <2>3. PICK l : l = m_clientsfd
    OBVIOUS
  <2>4. phase = "direct" /\ phase' = "direct" /\ k < e /\ k \in Nat /\ e \in Nat /\ l \in Seq(Entries)
    BY <1>1, <1>5, <2>1, <2>2, <2>3 DEF SendDirect, TypeOK
  <2>5. e <= Len(l) /\ \A i, j \in 1 .. e : l[i] = l[j] => i = j
    BY <2>2, <2>3, <2>4 DEF IInv, ListInv, Live
  <2>6. \A i \in 1 .. e : l[i] \in Entries
    BY <2>4, <2>5
  <2>7. \A i \in k + 1 .. e : tries[l[i]] = 0
    BY <1>1, <2>1, <2>2, <2>3, <2>4 DEF TriesInv
  <2>8. tries' = [tries EXCEPT ![l[k + 1]] = @ + 1]
    BY <1>5, <2>1, <2>3 DEF SendDirect
  <2>9. tries'[l[k + 1]] = 1 /\ \A c \in Entries : c # l[k + 1] => tries'[c] = tries[c]
    <3>1. l[k + 1] \in Entries /\ tries[l[k + 1]] = 0
      BY <2>4, <2>6, <2>7
    <3>2. tries \in [Entries -> Nat]
      BY <1>1 DEF TypeOK
    <3> QED BY <2>8, <3>1, <3>2
  <2>10. \A c \in Entries : tries'[c] \in {0, 1}
    BY <1>1, <2>9 DEF TriesInv
  <2>11. \A i \in k + 2 .. e : tries'[l[i]] = 0
    BY <2>4, <2>5, <2>6, <2>7, <2>9
  <2>12. \A i \in next' + 1 .. last' : tries'[m_clientsfd'[i]] = 0
    <3>1. CASE Broken(l[k + 1])
      <4>1. next' = k /\ last' = e - 1 /\ m_clientsfd' = [l EXCEPT ![k + 1] = l[e]]
        BY <1>5, <2>1, <2>2, <2>3, <3>1 DEF SendDirect
      <4>2. ASSUME NEW i \in k + 1 .. e - 1 PROVE tries'[m_clientsfd'[i]] = 0
        <5>1. m_clientsfd'[i] = IF i = k + 1 THEN l[e] ELSE l[i]
          BY <2>4, <2>5, <4>1
        <5> QED BY <2>4, <2>11, <5>1
      <4> QED BY <4>1, <4>2
    <3>2. CASE ~Broken(l[k + 1])
      <4>1. next' = k + 1 /\ last' = e /\ m_clientsfd' = l
        BY <1>5, <2>1, <2>2, <2>3, <3>2 DEF SendDirect
      <4> QED BY <2>4, <2>11, <4>1
    <3> QED BY <3>1, <3>2
  <2> QED BY <2>4, <2>10, <2>12 DEF TriesInv
<1>6. CASE EndDirect \/ Complete \/ StartClear \/ SwapOut \/ SwapNext \/ EndClear
  BY <1>2, <1>6 DEF EndDirect, Complete, StartClear, SwapOut, SwapNext, EndClear
<1>7. CASE ArmTask
  <2>1. PICK k \in Nat : k = next
    BY <1>1 DEF TypeOK
  <2>2. phase = "arm" /\ next' = k + 1 /\ UNCHANGED <<m_clientsfd, phase, tries, cursor>>
    BY <1>7, <2>1 DEF ArmTask
  <2>3. ASSUME NEW v \in Workers, NEW i PROVE Written(v, i)' <=> Written(v, i)
    <3>1. v \in Nat
      BY BroadcastAssumption DEF Workers
    <3>2. CASE v = k
      <4>1. cursor[v] = Asleep
        BY <2>1, <3>1, <3>2 DEF IInv, WorkerInv
      <4>2. m_tasks'[v] = TaskOf(v, last)
        BY <1>1, <1>7, <2>1, <3>2 DEF ArmTask, TypeOK
      <4>3. ~Done(TaskOf(v, last), Asleep, i)
        BY DEF Done, TaskOf
      <4> QED BY <2>1, <2>2, <3>1, <3>2, <4>1, <4>2, <4>3 DEF Written
    <3>3. CASE v # k
      <4>1. m_tasks'[v] = m_tasks[v]
        BY <1>1, <1>7, <2>1, <3>3 DEF ArmTask, TypeOK
      <4>2. v < k + 1 <=> v < k
        BY <2>1, <3>1, <3>3
      <4> QED BY <2>1, <2>2, <4>1, <4>2 DEF Written
    <3> QED BY <3>2, <3>3
  <2> QED BY <1>3, <2>2, <2>3
<1>8. ASSUME NEW w \in Workers, WorkerStarts(w) PROVE TriesInv'
  <2>1. phase = "arm" /\ w < next
    BY <1>8 DEF WorkerStarts, IInv, WorkerInv
  <2>2. cursor'[w] = m_tasks[w].start /\ m_tasks[w].start \in Nat
    BY <1>1, <1>8 DEF WorkerStarts, TypeOK
  <2>3. UNCHANGED <<m_clientsfd, phase, tries, m_tasks, next>>
    BY <1>8 DEF WorkerStarts
  <2>4. ASSUME NEW v \in Workers, NEW i \in Nat PROVE Written(v, i)' <=> Written(v, i)
    <3>1. CASE v = w
      BY <1>8, <2>2, <2>3, <3>1 DEF Written, Done, WorkerStarts
    <3>2. CASE v # w
      <4>1. cursor'[v] = cursor[v]
        BY <1>1, <1>8, <3>2 DEF WorkerStarts, TypeOK
      <4> QED BY <2>3, <4>1 DEF Written
    <3> QED BY <3>1, <3>2
  <2> QED BY <1>1, <1>3, <2>1, <2>3, <2>4 DEF TypeOK
<1>9. ASSUME NEW w \in Workers, WorkerSends(w) PROVE TriesInv'
  <2>1. PICK k : k = cursor[w]
    OBVIOUS
  <2>2. /\ phase = "arm" /\ w < next /\ k + 1 \in 1 .. Len(m_clientsfd) /\ m_tasks[w].isvalied = TRUE
        /\ m_tasks[w].start <= k /\ k < m_tasks[w].end
    <3>1. TaskOf(w, last).isvalied = TRUE
      BY DEF TaskOf
    <3>2. m_tasks[w].start \in Nat /\ m_tasks[w].end \in Nat
      BY <1>1 DEF TypeOK
    <3> QED BY <1>9, <2>1, <3>1, <3>2, AwakeInList DEF WorkerSends
  <2>3. k \in Nat /\ m_clientsfd \in Seq(Entries) /\ m_tasks[w].start \in Nat /\ m_tasks[w].end \in Nat
    BY <1>1, <1>9, <2>1 DEF TypeOK, WorkerSends
  <2>4. PICK c : c = m_clientsfd[k + 1]
    OBVIOUS
  <2>5. c \in Entries /\ tries[c] = 0 /\ tries' = [tries EXCEPT ![c] = 1]
    BY <1>9, <2>1, <2>4, FirstTime
  <2>6. tries'[c] = 1 /\ \A d \in Entries : d # c => tries'[d] = tries[d]
    BY <1>1, <2>5 DEF TypeOK
  <2>7. UNCHANGED <<m_clientsfd, phase, m_tasks, next>> /\ cursor' = [cursor EXCEPT ![w] = k + 1]
    BY <1>9, <2>1 DEF WorkerSends
  <2>8. ASSUME NEW v \in Workers, NEW i \in Nat
        PROVE  Written(v, i)' <=> Written(v, i) \/ (v = w /\ i = k + 1)
    <3>1. CASE v = w
      <4>1. cursor'[v] = k + 1 /\ m_tasks'[v] = m_tasks[v] /\ next' = next
        BY <1>1, <2>7, <3>1 DEF TypeOK
      <4>2. Done(m_tasks[v], k + 1, i) <=> Done(m_tasks[v], k, i) \/ i = k + 1
        BY <2>2, <2>3, <3>1 DEF Done, Asleep
      <4> QED BY <2>1, <2>2, <3>1, <4>1, <4>2 DEF Written
    <3>2. CASE v # w
      <4>1. cursor'[v] = cursor[v]
        BY <1>1, <2>7, <3>2 DEF TypeOK
      <4> QED BY <2>7, <3>2, <4>1 DEF Written
    <3> QED BY <3>1, <3>2
  <2>9. \A i, j \in 1 .. Len(m_clientsfd) : m_clientsfd[i] = m_clientsfd[j] => i = j
    BY <2>2 DEF IInv, ListInv, Live
  <2>10. ASSUME NEW i \in 1 .. Len(m_clientsfd)
         PROVE  tries'[m_clientsfd[i]] = 1 <=> \E v \in Workers : Written(v, i)'
    <3>1. m_clientsfd[i] \in Entries /\ i \in Nat
      BY <2>3
    <3>2. CASE i = k + 1
      <4>1. Written(w, i)'
        BY <2>8, <3>1, <3>2
      <4> QED BY <2>4, <2>6, <3>2, <4>1
    <3>3. CASE i # k + 1
      <4>1. m_clientsfd[i] # c
        BY <2>2, <2>4, <2>9, <3>3
      <4>2. tries'[m_clientsfd[i]] = tries[m_clientsfd[i]]
        BY <2>6, <3>1, <4>1
      <4>3. tries[m_clientsfd[i]] = 1 <=> \E v \in Workers : Written(v, i)
        BY <1>1, <2>2 DEF TriesInv
      <4> QED BY <2>8, <3>1, <3>3, <4>2, <4>3
    <3> QED BY <3>2, <3>3
  <2>11. \A d \in Entries : tries'[d] \in {0, 1}
    BY <1>1, <2>6 DEF TriesInv
  <2> QED BY <2>2, <2>7, <2>10, <2>11 DEF TriesInv
<1>10. ASSUME NEW w \in Workers, WorkerEnds(w) PROVE TriesInv'
  <2>1. phase = "arm" /\ w < next /\ cursor[w] # Asleep /\ cursor[w] = m_tasks[w].end
    BY <1>10, AwakeInList DEF WorkerEnds
  <2>2. UNCHANGED <<m_clientsfd, phase, tries, next>>
    BY <1>10 DEF WorkerEnds
  <2>3. ASSUME NEW v \in Workers, NEW i \in Nat PROVE Written(v, i)' <=> Written(v, i)
    <3>1. CASE v = w
      <4>1. m_tasks'[v] = [m_tasks[v] EXCEPT !.isvalied = FALSE]
        BY <1>1, <1>10, <3>1 DEF WorkerEnds, TypeOK
      <4>2. m_tasks[v] \in [isvalied : BOOLEAN, data : 0 .. MaxBroadcasts, start : Nat, end : Nat]
        BY <1>1 DEF TypeOK
      <4> QED BY <2>1, <2>2, <3>1, <4>1, <4>2 DEF Written, Done
    <3>2. CASE v # w
      <4>1. m_tasks'[v] = m_tasks[v] /\ cursor'[v] = cursor[v]
        BY <1>1, <1>10, <3>2 DEF WorkerEnds, TypeOK
      <4> QED BY <2>2, <4>1 DEF Written
    <3> QED BY <3>1, <3>2
  <2> QED BY <1>1, <1>3, <2>1, <2>2, <2>3 DEF TypeOK
<1>11. CASE Breaks \/ UNCHANGED vars
  BY <1>1, <1>11 DEF Breaks, vars, TriesInv, Written
<1> QED BY <1>4, <1>5, <1>6, <1>7, <1>8, <1>9, <1>10, <1>11 DEF Next, RunServer, Worker

-----------------------------------------------------------------------------
(* The clients whose send failed, and taking them out.                     *)

LEMMA ErrorStep == IInv /\ [Next]_vars => ErrorInv'
<1> SUFFICES ASSUME IInv, [Next]_vars PROVE ErrorInv'
  OBVIOUS
<1>1. TypeOK /\ ErrorInv
  BY DEF IInv
<1>0. \A e \in Entries : Broken(e) /\ broken \subseteq broken' => Broken(e)'
  BY DEF Broken
<1>10. ASSUME UNCHANGED <<m_errorfd, found, tries>>, broken \subseteq broken',
              phase' \in {"idle", "direct"} => phase \in {"idle", "direct"},
              phase' = "arm" => phase = "arm"
       PROVE  ErrorInv'
  <2>1. \A k \in 1 .. Len(m_errorfd) : m_errorfd[k] \in Entries
    BY <1>1 DEF TypeOK
  <2>2. \A k \in 1 .. Len(m_errorfd) : Broken(m_errorfd[k])' /\ m_errorfd[k] \in found
    BY <1>0, <1>1, <1>10, <2>1 DEF ErrorInv
  <2> QED BY <1>1, <1>10, <2>2 DEF ErrorInv
<1>2. CASE StartBroadcast
  BY <1>1, <1>2 DEF StartBroadcast, ErrorInv
<1>3. CASE SendDirect \/ EndDirect
  BY <1>1, <1>3 DEF SendDirect, EndDirect, ErrorInv
<1>4. CASE ArmTask \/ Complete
  BY <1>4, <1>10 DEF ArmTask, Complete
<1>5. CASE StartClear \/ SwapOut \/ SwapNext
  <2>1. CASE StartClear
    <3>1. /\ UNCHANGED <<m_errorfd, found, broken>> /\ phase' \in {"idle", "swap"}
          /\ phase' = "idle" => m_errorfd = <<>>
      BY <2>1 DEF StartClear
    <3> QED BY <1>1, <3>1 DEF ErrorInv, Broken
  <2>2. CASE SwapOut \/ SwapNext
    BY <1>10, <2>2 DEF SwapOut, SwapNext
  <2> QED BY <1>5, <2>1, <2>2
<1>6. CASE EndClear
  BY <1>6 DEF EndClear, ErrorInv
<1>7. ASSUME NEW w \in Workers, WorkerStarts(w) \/ WorkerEnds(w) PROVE ErrorInv'
  BY <1>7, <1>10 DEF WorkerStarts, WorkerEnds
<1>8. ASSUME NEW w \in Workers, WorkerSends(w) PROVE ErrorInv'
  <2>1. PICK c : c = m_clientsfd[cursor[w] + 1]
    OBVIOUS
  <2>2. phase = "arm" /\ c \in Entries /\ tries[c] = 0 /\ tries' = [tries EXCEPT ![c] = 1]
    BY <1>8, <2>1, FirstTime
  <2>3. phase' = "arm" /\ UNCHANGED <<broken, found>>
    BY <1>8, <2>2 DEF WorkerSends
  <2>4. tries'[c] = 1 /\ \A d \in Entries : d # c => tries'[d] = tries[d]
    BY <1>1, <2>2 DEF TypeOK
  <2>5. PICK e : e = m_errorfd
    OBVIOUS
  <2>6. e \in Seq(Entries) /\ \A k \in 1 .. Len(e) : e[k] \in Entries /\ tries[e[k]] = 1
    BY <1>1, <2>2, <2>5 DEF TypeOK, ErrorInv
  <2>7. CASE Broken(c)
    <3>1. PICK f : f = Append(e, c)
      OBVIOUS
    <3>2. m_errorfd' = f
      BY <1>8, <2>1, <2>5, <2>7, <3>1 DEF WorkerSends
    <3>3. Len(f) = Len(e) + 1 /\ f[Len(e) + 1] = c /\ \A k \in 1 .. Len(e) : f[k] = e[k]
      BY <2>2, <2>6, <3>1
    <3>4. Len(e) \in Nat
      BY <2>6
    <3>8. c \in found
      <4>1. cursor[w] + 1 \in 1 .. Len(m_clientsfd)
        BY <1>8, FirstTime
      <4> QED BY <2>1, <4>1 DEF IInv, ListInv
    <3>5. \A k \in 1 .. Len(f) : /\ Broken(f[k]) /\ f[k] \in found
                                  /\ f[k] \in Entries /\ tries'[f[k]] = 1
      BY <1>1, <2>2, <2>4, <2>5, <2>6, <2>7, <3>3, <3>4, <3>8 DEF ErrorInv
    <3>9. \A k \in 1 .. Len(f) : Broken(f[k])' /\ f[k] \in found'
      BY <2>3, <3>5 DEF Broken
    <3>6. \A k \in 1 .. Len(e) : f[k] # c
      BY <2>2, <2>6, <3>3
    <3>7. \A k, l \in 1 .. Len(f) : f[k] = f[l] => k = l
      BY <1>1, <2>5, <3>3, <3>4, <3>6 DEF ErrorInv
    <3> QED BY <2>3, <3>2, <3>5, <3>7, <3>9 DEF ErrorInv
  <2>8. CASE ~Broken(c)
    <3>1. m_errorfd' = e
      BY <1>8, <2>1, <2>5, <2>8 DEF WorkerSends
    <3>2. \A k \in 1 .. Len(e) : tries'[e[k]] = 1
      BY <2>2, <2>4, <2>6
    <3> QED BY <1>1, <2>3, <2>5, <3>1, <3>2 DEF ErrorInv, Broken
  <2> QED BY <2>7, <2>8
<1>9. CASE Breaks \/ UNCHANGED vars
  BY <1>9, <1>10 DEF Breaks, vars
<1> QED BY <1>2, <1>3, <1>4, <1>5, <1>6, <1>7, <1>8, <1>9 DEF Next, RunServer, Worker

LEMMA SwapStep == IInv /\ [Next]_vars => SwapInv'
<1> SUFFICES ASSUME IInv, [Next]_vars PROVE SwapInv'
  OBVIOUS
<1>1. TypeOK /\ SwapInv
  BY DEF IInv
<1>2. CASE StartBroadcast \/ SendDirect \/ EndDirect \/ ArmTask \/ Complete \/ EndClear
  BY <1>2 DEF StartBroadcast, SendDirect, EndDirect, ArmTask, Complete, EndClear, SwapInv
<1>3. CASE StartClear
  <2>1. which' = 0
    BY <1>3 DEF StartClear, IInv, IndexInv
  <2>2. Len(m_errorfd) >= 0 /\ m_errorfd' = m_errorfd
    BY <1>1, <1>3 DEF StartClear, TypeOK
  <2> QED BY <2>1, <2>2 DEF SwapInv
<1>4. CASE SwapOut
  <2>1. PICK k : k = which
    OBVIOUS
  <2>2. PICK i : i = next
    OBVIOUS
  <2>3. k \in Nat /\ i \in Nat /\ last \in Nat /\ m_clientsfd \in Seq(Entries) /\ m_errorfd \in Seq(Entries)
    BY <1>1, <2>1, <2>2 DEF TypeOK
  <2>4. /\ k < Len(m_errorfd) /\ which' = k + 1 /\ next' = i /\ phase = "swap"
        /\ UNCHANGED <<m_errorfd, broken, found>>
    BY <1>4, <2>1, <2>2 DEF SwapOut
  <2>5. i < Len(m_clientsfd)
    <3>1. last <= Len(m_clientsfd)
      BY <1>4 DEF SwapOut, IInv, ListInv, Live
    <3> QED BY <1>1, <1>4, <2>1, <2>2, <2>3, <3>1 DEF SwapOut, SwapInv
  <2>6. NoRepeat' = NoRepeat
    BY <2>4 DEF NoRepeat, Broken
  <2>7. CASE Matches /\ last > 0
    <3>1. last \in 1 .. Len(m_clientsfd) /\ i + 1 \in 1 .. Len(m_clientsfd)
      BY <1>4, <2>2, <2>7, MatchIsLive
    <3>2. m_clientsfd' = [m_clientsfd EXCEPT ![i + 1] = m_clientsfd[last]] /\ last' = last - 1
      BY <1>4, <2>2, <2>7 DEF SwapOut
    <3>3. PICK t : t = m_clientsfd'
      OBVIOUS
    <3>4. Len(t) = Len(m_clientsfd) /\ t[i + 1] = m_clientsfd[last]
      BY <2>3, <3>1, <3>2, <3>3
    <3>5. ASSUME NoRepeat, i >= last - 1, NEW l \in k + 2 .. Len(m_errorfd)
          PROVE  Info[m_errorfd[l]] # Info[t[i + 1]]
      <4>1. i + 1 \in 1 .. last
        BY <1>4, <2>2, <2>7, <3>5, MatchIsLive
      <4>2. i + 1 = last
        BY <2>3, <3>5, <4>1
      <4>3. Info[t[i + 1]] = Info[m_errorfd[k + 1]]
        BY <2>1, <2>2, <2>7, <3>4, <4>2 DEF Matches
      <4>4. k + 1 \in 1 .. Len(m_errorfd) /\ l \in 1 .. Len(m_errorfd) /\ l # k + 1
        BY <2>3, <2>4, <3>5
      <4>5. m_errorfd[l] # m_errorfd[k + 1]
        BY <4>4 DEF IInv, ErrorInv
      <4>6. /\ Broken(m_errorfd[l]) /\ m_errorfd[l] \in found /\ m_errorfd[k + 1] \in found
        BY <4>4 DEF IInv, ErrorInv
      <4> QED BY <3>5, <4>3, <4>5, <4>6 DEF NoRepeat
    <3> QED BY <2>3, <2>4, <2>5, <2>6, <3>2, <3>3, <3>4, <3>5 DEF SwapInv
  <2>8. CASE ~(Matches /\ last > 0)
    <3>1. UNCHANGED <<m_clientsfd, last>>
      BY <1>4, <2>8 DEF SwapOut
    <3>2. ASSUME NoRepeat, i >= last
          PROVE  \A l \in k + 2 .. Len(m_errorfd) : Info[m_errorfd[l]] # Info[m_clientsfd[i + 1]]
      <4>1. phase = "swap" /\ which > 0 /\ next >= last
        BY <1>4, <2>1, <2>2, <2>3, <3>2 DEF SwapOut
      <4>2. \A l \in k + 1 .. Len(m_errorfd) : Info[m_errorfd[l]] # Info[m_clientsfd[i + 1]]
        BY <1>1, <2>1, <2>2, <3>2, <4>1 DEF SwapInv
      <4> QED BY <2>3, <4>2
    <3> QED BY <2>3, <2>4, <2>5, <2>6, <3>1, <3>2 DEF SwapInv
  <2> QED BY <2>7, <2>8
<1>5. CASE SwapNext
  <2>1. Len(m_errorfd) >= 0 /\ m_errorfd' = m_errorfd /\ which' = 0
    BY <1>1, <1>5 DEF SwapNext, TypeOK
  <2> QED BY <2>1 DEF SwapInv
<1>6. ASSUME NEW w \in Workers, Worker(w) PROVE SwapInv'
  <2>1. phase # "swap"
    BY <1>6 DEF IInv, WorkerInv, Worker, WorkerStarts, WorkerSends, WorkerEnds
  <2>2. phase' = phase
    BY <1>6 DEF Worker, WorkerStarts, WorkerSends, WorkerEnds
  <2> QED BY <2>1, <2>2 DEF SwapInv
<1>7. CASE Breaks \/ UNCHANGED vars
  <2>1. NoRepeat' => NoRepeat
    BY <1>7 DEF Breaks, vars, NoRepeat, Broken
  <2> QED BY <1>1, <1>7, <2>1 DEF Breaks, vars, SwapInv
<1> QED BY <1>2, <1>3, <1>4, <1>5, <1>6, <1>7 DEF Next, RunServer

LEMMA CoveredStep == IInv /\ [Next]_vars => CoveredMeansSent'
<1> SUFFICES ASSUME IInv, [Next]_vars PROVE CoveredMeansSent'
  OBVIOUS
<1>1. TypeOK /\ CoveredMeansSent
  BY DEF IInv
<1>2. ASSUME phase' # "clear" PROVE CoveredMeansSent'
  BY <1>2 DEF CoveredMeansSent
<1>3. CASE StartBroadcast \/ SendDirect \/ ArmTask \/ StartClear \/ SwapOut \/ SwapNext \/ EndClear
  BY <1>2, <1>3 DEF StartBroadcast, SendDirect, ArmTask, StartClear, SwapOut, SwapNext, EndClear
<1>4. CASE EndDirect
  <2>1. TaskCount(last) = 0 /\ last' = last
    BY <1>4 DEF EndDirect, IInv, IndexInv
  <2>2. TaskCount(last)' = 0
    BY <2>1 DEF TaskCount, Least
  <2> QED BY <2>2 DEF CoveredMeansSent
<1>5. CASE Complete
  <2>1. /\ phase = "arm" /\ next = TasksFor(last)
        /\ UNCHANGED <<m_clientsfd, m_tasks, last, tries>>
        /\ \A w \in Workers : ~m_tasks[w].isvalied
    BY <1>5 DEF Complete
  <2>2. last = Len(m_clientsfd) /\ TaskCount(last) > 0 /\ last \in Nat
    BY <1>1, <2>1 DEF IInv, IndexInv, TypeOK
  <2>3. TasksFor(last) \in Nat
    BY <2>2, CountOfTasks, BroadcastAssumption DEF TasksFor
  <2>4. ASSUME NEW w \in 0 .. TasksFor(last) - 1, NEW i \in m_tasks[w].start + 1 .. m_tasks[w].end
        PROVE  tries[m_clientsfd[i]] = 1
    <3>1. w \in Workers /\ w < next
      <4>1. w \in Workers
        BY <2>2, Split
      <4>2. w < next
        BY <2>1, <2>3
      <4> QED BY <4>1, <4>2
    <3>2. m_tasks[w].start \in Nat /\ m_tasks[w].end \in Nat
      BY <1>1, <3>1 DEF TypeOK
    <3>3. Written(w, i)
      BY <2>1, <2>4, <3>1, <3>2 DEF Written, Done
    <3>4. m_tasks[w].end = TaskOf(w, last).end
      BY <2>1, <3>1 DEF IInv, WorkerInv, At, TaskOf
    <3>5. TaskOf(w, last).end \in 0 .. last
      BY <2>2, Split
    <3>6. i \in 1 .. Len(m_clientsfd)
      BY <2>2, <2>4, <3>2, <3>4, <3>5
    <3> QED BY <2>1, <3>1, <3>3, <3>6 DEF IInv, TriesInv
  <2>5. TasksFor(last)' = TasksFor(last)
    BY <2>1 DEF TasksFor, TaskCount, ShareBit, Least
  <2> QED BY <2>1, <2>4, <2>5 DEF CoveredMeansSent
<1>6. ASSUME NEW w \in Workers, Worker(w) PROVE CoveredMeansSent'
  <2>1. phase # "clear"
    BY <1>6 DEF IInv, WorkerInv, Worker, WorkerStarts, WorkerSends, WorkerEnds
  <2>2. phase' = phase
    BY <1>6 DEF Worker, WorkerStarts, WorkerSends, WorkerEnds
  <2> QED BY <1>2, <2>1, <2>2
<1>7. CASE Breaks \/ UNCHANGED vars
  <2>1. UNCHANGED <<phase, last, m_tasks, m_clientsfd, tries>>
    BY <1>7 DEF Breaks, vars
  <2>2. TasksFor(last)' = TasksFor(last) /\ TaskCount(last)' = TaskCount(last)
    BY <2>1 DEF TasksFor, TaskCount, ShareBit, Least
  <2> QED BY <1>1, <2>1, <2>2 DEF CoveredMeansSent
<1> QED BY <1>3, <1>4, <1>5, <1>6, <1>7 DEF Next, RunServer

-----------------------------------------------------------------------------
(* The theorems.                                                           *)

\* The state of run_server's broadcast keeps its types, and IInv, whatever the
\* workers and the connections do (broadcast.hpp, clear_up).
THEOREM Invariance == Spec => []IInv
<1>1. IInv /\ [Next]_vars => IInv'
  BY TypeStep, ListStep, UsersStep, IndexStep, WorkerStep, TriesStep, ErrorStep, SwapStep, CoveredStep DEF IInv
<1> QED BY Initially, <1>1, PTL DEF Spec

\* The variables keep their types: the indices of runtask and clear_up stay
\* natural numbers and only clients of the game are ever in the lists.
THEOREM TypesKept == Spec => []TypeOK
<1>1. IInv => TypeOK
  BY DEF IInv
<1> QED BY Invariance, <1>1, PTL

\* For any number of threads and any thresholds, no worker writes the message or
\* walks the list once run_server has left the wait for iscomplete.
THEOREM HandshakeHolds == Spec => []MessageOutlivesWorkers
<1>1. ASSUME IInv PROVE MessageOutlivesWorkers
  <2> SUFFICES ASSUME NEW w \in Workers, cursor[w] # Asleep
               PROVE  /\ phase = "arm" /\ m_tasks[w].isvalied /\ m_tasks[w].data = msg
                      /\ cursor[w] <= m_tasks[w].end /\ m_tasks[w].end <= Len(m_clientsfd)
    BY DEF MessageOutlivesWorkers
  <2>1. /\ phase = "arm" /\ m_tasks[w] = TaskOf(w, last)
        /\ cursor[w] \in m_tasks[w].start .. m_tasks[w].end
        /\ m_tasks[w].end \in 0 .. Len(m_clientsfd)
    BY <1>1, AwakeInList
  <2>2. m_tasks[w].start \in Nat /\ m_clientsfd \in Seq(Entries)
    BY <1>1 DEF IInv, TypeOK
  <2>3. TaskOf(w, last).isvalied = TRUE /\ TaskOf(w, last).data = msg
    BY DEF TaskOf
  <2> QED BY <2>1, <2>2, <2>3
<1>2. IInv => MessageOutlivesWorkers
  BY <1>1
<1> QED BY Invariance, <1>2, PTL

\* However a list is split or walked, a message is written at most once for
\* each entry of the list.
THEOREM NobodyTwice == Spec => []SentAtMostOnce
<1>1. IInv => SentAtMostOnce
  BY DEF IInv, TriesInv, SentAtMostOnce
<1> QED BY Invariance, <1>1, PTL

\* When run_server leaves the wait, the message has been written for every entry
\* in the range of some task.
THEOREM RangesDone == Spec => []CoveredMeansSent
<1>1. IInv => CoveredMeansSent
  BY DEF IInv
<1> QED BY Invariance, <1>1, PTL

\* The removals of run_server and of clear_up, which put the last client in the
\* place of one that is gone while they walk the list, lose no entry whose
\* connection works, provided that no broken client is listed twice; and users
\* whose entries all work keep theirs in m_usrfd in any case.
THEOREM NobodyElseLost == Spec => []GoodClientsStay
<1>1. IInv => GoodClientsStay
  <2> SUFFICES ASSUME IInv, phase = "idle"
               PROVE  /\ ToSet(m_clientsfd) \subseteq found /\ IsInjective(m_clientsfd)
                      /\ NoRepeat => {e \in found : ~Broken(e)} \subseteq ToSet(m_clientsfd)
                      /\ \A e \in found :
                            (\A f \in found : Info[f].usrid = Info[e].usrid => ~Broken(f)) =>
                                Info[e].usrid \in m_usrfd
    BY DEF GoodClientsStay
  <2>1. DOMAIN m_clientsfd = 1 .. Live /\ Live = Len(m_clientsfd)
    BY DEF IInv, TypeOK, Live
  <2>2. ToSet(m_clientsfd) = {m_clientsfd[i] : i \in 1 .. Live}
    BY <2>1 DEF ToSet
  <2>3. ToSet(m_clientsfd) \subseteq found /\ IsInjective(m_clientsfd)
    BY <2>1, <2>2 DEF IInv, ListInv, IsInjective
  <2>4. NoRepeat => {e \in found : ~Broken(e)} \subseteq ToSet(m_clientsfd)
    BY <2>2 DEF IInv, ListInv
  <2> QED BY <2>3, <2>4 DEF IInv, UsersInv
<1> QED BY Invariance, <1>1, PTL
=============================================================================
