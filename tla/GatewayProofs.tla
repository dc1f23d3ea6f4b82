---------------------------- MODULE GatewayProofs ----------------------------
(***************************************************************************)
(* Theorems about Gateway: for any users, connections and descriptors, and *)
(* however many messages come, the gate takes each message of its clients  *)
(* once, writes to the right connections, keeps its clients in the list,   *)
(* and a walk over the list reaches them.                                  *)
(***************************************************************************)
EXTENDS Gateway, FiniteSetTheorems, TLAPS

Threads == {"run_client", "run_server"}
Arrivals == [msg : SentMessage, whole : BOOLEAN]

\* The descriptor is the connection's, or the connection has been closed.
Attached(fd, c) == m_connections[fd] = c \/ \A f \in Fds : m_connections[f] # c

-----------------------------------------------------------------------------
(* The inductive invariant.                                                *)

\* A connection has a descriptor from when it is accepted; no two share one.
NetInv ==
    /\ peer \in [Conns -> {"new", "open", "gone"}]
    /\ wire \in [Conns -> Seq(Arrivals)]
    /\ sent \in [Conns -> Nat]
    /\ m_connections \in [Fds -> Conns \cup {None}]
    /\ edge \subseteq Conns
    /\ \A fd \in Fds : m_connections[fd] # None => peer[m_connections[fd]] # "new"
    /\ \A c \in Conns : peer[c] = "open" => \E fd \in Fds : m_connections[fd] = c
    /\ \A fd, other \in Fds :
          m_connections[fd] # None /\ fd # other => m_connections[fd] # m_connections[other]
    /\ draining = None \/ \E fd \in Fds : m_connections[fd] = draining

\* Every message has the descriptor of its connection with it.
Labelled(q) == q \in Published /\ peer[q.conn] # "new" /\ Attached(q.from, q.conn)
QueueInv ==
    /\ \A q \in g_client_queue : Labelled(q)
    /\ client # None => Labelled(client) /\ client.msg.type \in {"USERLOGIN", "USEREXIT"}

\* There is a slot for each message, and for the one that is being read.
SlotsInv ==
    /\ IsFiniteSet(g_client_queue)
    /\ Occupied + (IF draining = None THEN 0 ELSE 1) <= ClientSlots

\* m_usrfd has the descriptor that came with the last login.
LoginInv ==
    /\ m_usrfd \in [Users -> Fds \cup {0, None}]
    /\ loggedOn \in [Users -> Conns \cup {None}]
    /\ \A u \in Users : loggedOn[u] # None =>
          /\ peer[loggedOn[u]] # "new"
          /\ m_usrfd[u] \in Fds => Attached(m_usrfd[u], loggedOn[u])
    /\ client # None =>
          loggedOn[client.msg.usr] = IF client.msg.type = "USERLOGIN" THEN client.conn ELSE None

\* Where the threads are.  Neither is in two places.
ErasingIn(e) ==
    /\ e \in Erasure
    /\ 1 <= e.iter /\ e.iter <= e.end
    /\ e.at = "erase" => e.iter < e.end
ThreadInv ==
    /\ erasing = [t \in Threads |-> erasing[t]]
    /\ \A t \in Threads : erasing[t] # None => ErasingIn(erasing[t])
    /\ erasing["run_client"] # None =>
          client # None /\ client.msg.type = "USEREXIT" /\ erasing["run_client"].usr = client.msg.usr
    /\ erasing["run_server"] # None => server # None
    /\ server # None => server \in ServerWork /\ broadcast = None
    /\ broadcast # None =>
          /\ broadcast \in [i : Nat, j : Nat, fd : Fds \cup {None}]
          /\ 1 <= broadcast.i /\ broadcast.i <= broadcast.j /\ broadcast.j <= Len(storage) + 1
          /\ broadcast.fd # None => broadcast.i < broadcast.j

\* The list, and what a thread in erasefd or in a walk may look at, are entries of clients.
ListInv ==
    /\ storage \in Seq(client_info \cup {None})
    /\ size \in 0 .. Len(storage)
    /\ \A k \in 1 .. size : storage[k] \in client_info
    /\ gate \in {"runs", "killed", "undefined"}
    /\ gate = "runs" =>
          /\ \A t \in Threads : Scans(t) =>
                /\ erasing[t].end <= Len(storage) + 1
                /\ erasing[t].at = "find" =>
                      \A k \in erasing[t].iter .. erasing[t].end - 1 : storage[k] \in client_info
          /\ broadcast # None => \A k \in 1 .. broadcast.j - 1 : storage[k] \in client_info

\* A client's entry is in the list: not where run_server looks for it to erase it, and
\* in front of where a walk will cut the list off.
Good(u) ==
    loggedOn[u] # None /\ loggedOn[u] \notin spoilt /\ peer[loggedOn[u]] = "open" /\ ~BeingListed(u)
At(u, k) ==
    /\ storage[k].usrid = u /\ m_connections[storage[k].fd] = loggedOn[u]
    /\ Scans("run_server") /\ erasing["run_server"].usr = u => k >= erasing["run_server"].end
    /\ broadcast # None => k <= broadcast.j - 1

\* As long as no thread has changed the list under the other, iterators lead to what
\* they were found at.
InPlace ==
    /\ \A t \in Threads : Scans(t) =>
          /\ erasing[t].end <= size + 1
          /\ erasing[t].at = "erase" => storage[erasing[t].iter].usrid = erasing[t].usr
    /\ broadcast # None =>
          /\ broadcast.j <= size + 1
          /\ broadcast.fd # None => broadcast.fd = storage[broadcast.i].fd
ListedInv ==
    gate = "runs" /\ ~overlapped =>
        InPlace /\ \A u \in Users : Good(u) => \E k \in 1 .. size : At(u, k)

\* Whom a walk has still to reach is in the part that is left.
WalkInv ==
    /\ todo \subseteq Conns
    /\ \A c \in todo : peer[c] # "new"
    /\ broadcast # None /\ todo # {} =>
          /\ broadcast.j <= size + 1
          /\ broadcast.fd # None => broadcast.fd = storage[broadcast.i].fd
          /\ \A c \in todo : peer[c] = "open" =>
                \E k \in broadcast.i .. broadcast.j - 1 : m_connections[storage[k].fd] = c

\* Of what a client has sent the first n are in the queue or were taken, the others are
\* on the wire or lost with the connection.
Account(c, n) ==
    /\ handled[c] \cup Queued(c) = 1 .. n /\ handled[c] \cap Queued(c) = {}
    /\ \A k \in DOMAIN wire[c] : wire[c][k].msg.n = n + k
    /\ wire[c] # <<>> \/ peer[c] = "open" => n + Len(wire[c]) = sent[c]
NumbersInv ==
    /\ handled = [c \in Conns |-> handled[c]]
    /\ \A p, q \in g_client_queue : p.conn = q.conn /\ p.msg.n = q.msg.n => p = q
    /\ \A c \in Conns : peer[c] = "new" => sent[c] = 0
    /\ \A c \in Conns : \E n \in 0 .. sent[c] : Account(c, n)

IInv ==
    /\ NetInv /\ QueueInv /\ SlotsInv /\ LoginInv /\ ThreadInv
    /\ ListInv /\ ListedInv /\ WalkInv /\ NumbersInv

LEMMA Initially == GatewayInit => IInv
<1> SUFFICES ASSUME GatewayInit PROVE IInv
  OBVIOUS
<1> USE DEF GatewayInit, GateInit
<1>1. NetInv
  BY DEF NetInv
<1>2. QueueInv
  BY DEF QueueInv
<1>3. SlotsInv
  <2>1. IsFiniteSet(g_client_queue) /\ Cardinality(g_client_queue) = 0
    BY FS_EmptySet
  <2> QED BY <2>1, GateAssumption DEF SlotsInv, Occupied
<1>4. LoginInv
  BY DEF LoginInv
<1>5. ThreadInv
  BY DEF ThreadInv, Threads
<1>6. ListInv
  BY DEF ListInv, Threads, Scans
<1>7. ListedInv
  BY DEF ListedInv, InPlace, Good, Threads, Scans
<1>8. WalkInv
  BY DEF WalkInv
<1>9. NumbersInv
  <2>1. \A c \in Conns : Account(c, 0) /\ sent[c] = 0
    BY DEF Account, Queued
  <2> QED BY <2>1 DEF NumbersInv
<1> QED BY <1>1, <1>2, <1>3, <1>4, <1>5, <1>6, <1>7, <1>8, <1>9 DEF IInv

-----------------------------------------------------------------------------
(* Who changes what: run_client and run_server leave the connections alone *)
(* and all others leave the list alone.                                    *)

listState == <<client, server, erasing, listVars, handled, loggedOn, spoilt, overlapped, todo>>

LEMMA RunThreads == ASSUME RunClient \/ RunServer PROVE UNCHANGED <<wires, sent>>
BY DEF RunClient, run_client, RunServer, RunServerHears, RunServerErases, RunServerWalks

LEMMA Others == ASSUME ClientSteps \/ ProductMsg PROVE UNCHANGED listState
<1> USE DEF listState, behindNet, history
<1>1. CASE ClientSteps
  BY <1>1 DEF ClientSteps, ClientConnects, ClientGoesOn, ClientSends
<1>2. CASE ProductMsg
  BY <1>2 DEF ProductMsg, product_msg
<1> QED BY <1>1, <1>2

LEMMA ThreeKinds ==
    ASSUME [GatewayNext]_gatewayVars
    PROVE  UNCHANGED listState \/ RunClient \/ RunServer
<1>1. CASE GatewayNext
  BY <1>1, Others DEF GatewayNext
<1>2. CASE UNCHANGED gatewayVars
  BY <1>2 DEF gatewayVars, gateVars, history, listState
<1> QED BY <1>1, <1>2

-----------------------------------------------------------------------------
(* The connections.                                                        *)

\* What a step may do to connections that were accepted before it.
Kept ==
    \A c \in Conns : peer[c] # "new" =>
        /\ peer'[c] # "new"
        /\ peer'[c] = "open" => peer[c] = "open"
        /\ \A fd \in Fds :
              /\ Attached(fd, c) => Attached(fd, c)'
              /\ m_connections[fd] = c /\ peer[c] = "open" => m_connections'[fd] = c

LEMMA KeptAll == ASSUME NetInv, UNCHANGED <<peer, m_connections>> PROVE Kept
BY DEF Kept, Attached, NetInv

LEMMA NewConnection ==
    ASSUME NetInv, NEW c \in Conns, NEW m \in SentMessage, Accept(c, m), sent' = [sent EXCEPT ![c] = 1]
    PROVE  NetInv' /\ Kept
<1>1. PICK fd \in Free : m_connections' = [m_connections EXCEPT ![fd] = c]
  BY DEF Accept
<1>2. fd \in Fds /\ m_connections[fd] = None /\ None \notin Conns
  BY GateAssumption DEF Free
<1>3. /\ peer[c] = "new" /\ peer' = [peer EXCEPT ![c] = "open"]
      /\ draining = None /\ draining' = None /\ edge' \subseteq Conns
      /\ wire' = [wire EXCEPT ![c] = <<[msg |-> m, whole |-> TRUE]>>]
  BY DEF Accept, NetInv
<1>4. <<[msg |-> m, whole |-> TRUE]>> \in Seq(Arrivals)
  BY DEF Arrivals
<1>5. \A f \in Fds : m_connections[f] # c
  BY <1>2, <1>3 DEF NetInv
<1>6. NetInv'
  BY <1>1, <1>2, <1>3, <1>4, <1>5 DEF NetInv
<1>7. Kept
  BY <1>1, <1>2, <1>3 DEF NetInv, Kept, Attached
<1> QED BY <1>6, <1>7

LEMMA ConnectionClosed ==
    ASSUME NetInv, NEW fd \in Fds, Erase(fd), UNCHANGED sent
    PROVE  NetInv' /\ Kept
<1> DEFINE c == m_connections[fd]
<1>1. /\ c \in Conns /\ peer[c] = "gone" /\ peer' = peer /\ draining' = None
      /\ edge' \subseteq Conns
      /\ m_connections' = [m_connections EXCEPT ![fd] = None]
      /\ wire' = [wire EXCEPT ![c] = <<>>]
  BY DEF Erase, NetInv
<1>2. None \notin Conns
  BY GateAssumption
<1>3. NetInv'
  BY <1>1, <1>2 DEF NetInv
<1>4. Kept
  BY <1>1, <1>2 DEF NetInv, Kept, Attached
<1> QED BY <1>3, <1>4

LEMMA MessageRead ==
    ASSUME NetInv, NEW fd \in Fds, Receive(fd), UNCHANGED sent
    PROVE  NetInv' /\ UNCHANGED <<peer, m_connections>>
<1> DEFINE c == m_connections[fd]
<1>1. c \in Conns /\ wire[c] # <<>>
  BY DEF NetInv, Receive
<1>2. Tail(wire[c]) \in Seq(Arrivals)
  BY <1>1 DEF NetInv
<1>3. /\ wire' = [wire EXCEPT ![c] = Tail(wire[c])]
      /\ draining' \in {c, None} /\ UNCHANGED <<peer, m_connections, edge>>
  BY DEF Receive, SlotFor
<1>4. wire' \in [Conns -> Seq(Arrivals)]
  BY <1>1, <1>2, <1>3 DEF NetInv
<1> QED BY <1>3, <1>4 DEF NetInv

LEMMA DrainBegins ==
    ASSUME NetInv, NEW fd \in Fds, Report(fd), UNCHANGED sent
    PROVE  NetInv' /\ UNCHANGED <<peer, m_connections>>
BY DEF NetInv, Report

LEMMA MessageSent ==
    ASSUME NetInv, NEW c \in Conns, NEW m \in SentMessage, NEW whole \in BOOLEAN,
           Sends(c, m, whole), sent' = [sent EXCEPT ![c] = @ + 1]
    PROVE  NetInv' /\ UNCHANGED <<peer, m_connections>>
<1> DEFINE a == [msg |-> m, whole |-> whole]
<1>1. wire[c] \in Seq(Arrivals) /\ a \in Arrivals
  BY DEF NetInv, Arrivals
<1> HIDE DEF a
<1>2. Append(wire[c], a) \in Seq(Arrivals)
  BY <1>1
<1>3. /\ wire' = [wire EXCEPT ![c] = Append(wire[c], a)]
      /\ UNCHANGED <<peer, m_connections, draining>>
  BY DEF Sends, a
<1>4. edge' \subseteq Conns
  BY DEF Sends, NetInv
<1> QED BY <1>2, <1>3, <1>4 DEF NetInv

LEMMA RestSent ==
    ASSUME NetInv, NEW c \in Conns, SendsRest(c), UNCHANGED sent
    PROVE  NetInv' /\ UNCHANGED <<peer, m_connections>>
<1> DEFINE w == wire[c]
           last == [w[Len(w)] EXCEPT !.whole = TRUE]
           w2 == [w EXCEPT ![Len(w)] = last]
<1>1. w \in Seq(Arrivals)
  BY DEF NetInv
<1>2. PICK k \in DOMAIN w : ~w[k].whole
  BY DEF SendsRest, SentWhole
<1>3. Len(w) \in 1 .. Len(w)
  BY <1>1, <1>2
<1>4. w[Len(w)] \in Arrivals
  BY <1>1, <1>3
<1>5. last \in Arrivals
  BY <1>4 DEF Arrivals
<1>6. wire' = [wire EXCEPT ![c] = w2] /\ UNCHANGED <<peer, m_connections, draining>>
  BY DEF SendsRest, NetInv
<1>7. w2 \in Seq(Arrivals)
  <2> HIDE DEF w, last
  <2> QED BY <1>1, <1>3, <1>5
<1>8. edge' \subseteq Conns
  BY DEF SendsRest, NetInv
<1> HIDE DEF w2
<1> QED BY <1>6, <1>7, <1>8 DEF NetInv

LEMMA ClientGone ==
    ASSUME NetInv, NEW c \in Conns, Leaves(c), UNCHANGED sent
    PROVE  NetInv' /\ Kept
BY DEF NetInv, Leaves, Kept, Attached

LEMMA NetStep ==
    ASSUME NetInv, [GatewayNext]_gatewayVars
    PROVE  NetInv' /\ Kept
<1>1. ASSUME NEW c \in Conns, ClientConnects(c) PROVE NetInv' /\ Kept
  <2>1. [type |-> "USERLOGIN", usr |-> UserOf[c], n |-> 1] \in SentMessage
    BY GatewayAssumption DEF SentMessage
  <2> QED BY <1>1, <2>1, NewConnection DEF ClientConnects
<1>2. ASSUME NEW c \in Conns, NEW type \in {"USEREXIT", "USERUP", "ITEMEVENT"}, NEW whole \in BOOLEAN,
             ClientSends(c, type, whole)
      PROVE  NetInv' /\ Kept
  <2>1. [type |-> type, usr |-> UserOf[c], n |-> sent[c] + 1] \in SentMessage
    BY GatewayAssumption DEF SentMessage, NetInv
  <2> QED BY <1>2, <2>1, MessageSent, KeptAll DEF ClientSends
<1>3. ASSUME UNCHANGED <<peer, wire, sent, m_connections, edge, draining>> PROVE NetInv' /\ Kept
  BY <1>3, KeptAll DEF NetInv
<1>4. ASSUME NEW c \in Conns, ClientGoesOn(c) PROVE NetInv' /\ Kept
  <2>1. CASE TurnsDeaf(c)
    BY <1>3, <1>4, <2>1 DEF TurnsDeaf, ClientGoesOn
  <2> QED BY <1>4, <2>1, RestSent, ClientGone, KeptAll DEF ClientGoesOn
<1>5. CASE ProductMsg
  <2>1. UNCHANGED sent
    BY <1>5 DEF ProductMsg, history
  <2>2. CASE Drained
    <3>1. NetInv'
      BY <2>1, <2>2 DEF Drained, NetInv
    <3> QED BY <2>2, <3>1, KeptAll DEF Drained
  <2> QED BY <1>5, <2>1, <2>2, MessageRead, DrainBegins, ConnectionClosed, KeptAll DEF ProductMsg, product_msg
<1>6. CASE UNCHANGED <<wires, sent>>
  BY <1>3, <1>6 DEF wires
<1>7. CASE UNCHANGED gatewayVars
  BY <1>6, <1>7 DEF gatewayVars, gateVars, history
<1> QED BY <1>1, <1>2, <1>4, <1>5, <1>6, <1>7, RunThreads DEF GatewayNext, ClientSteps

-----------------------------------------------------------------------------
(* run_client's steps one by one, with what they add to the history.       *)

LEMMA TakenOne ==
    ASSUME RunClient, NEW q \in g_client_queue, g_client_queue' = g_client_queue \ {q}
    PROVE  /\ handled' = [c \in Conns |-> handled[c] \cup (IF q.conn = c THEN {q.msg.n} ELSE {})]
           /\ loggedOn' = [u \in Users |->
                IF q.msg.usr = u /\ q.msg.type = "USERLOGIN" THEN q.conn
                ELSE IF q.msg.usr = u /\ q.msg.type = "USEREXIT" THEN None ELSE loggedOn[u]]
<1>1. g_client_queue \ g_client_queue' = {q}
  OBVIOUS
<1>2. (CHOOSE p \in {q} : TRUE) = q
  OBVIOUS
<1>3. \A c : {p.msg.n : p \in {p \in {q} : p.conn = c}} = IF q.conn = c THEN {q.msg.n} ELSE {}
  OBVIOUS
<1>4. handled' = [c \in Conns |-> handled[c] \cup {p.msg.n : p \in {p \in {q} : p.conn = c}}]
  BY <1>1 DEF RunClient
<1>5. loggedOn' = [u \in Users |->
        IF \E p \in {q} : p.msg.usr = u /\ p.msg.type = "USERLOGIN" THEN (CHOOSE p \in {q} : TRUE).conn
        ELSE IF \E p \in {q} : p.msg.usr = u /\ p.msg.type = "USEREXIT" THEN None ELSE loggedOn[u]]
  BY <1>1 DEF RunClient
<1> QED BY <1>2, <1>3, <1>4, <1>5

LEMMA TakenNone ==
    ASSUME RunClient, UNCHANGED g_client_queue
    PROVE  /\ handled' = [c \in Conns |-> handled[c] \cup {}]
           /\ loggedOn' = [u \in Users |-> loggedOn[u]]
<1>1. g_client_queue \ g_client_queue' = {}
  OBVIOUS
<1> QED BY <1>1 DEF RunClient

LEMMA ClientKinds ==
    ASSUME RunClient
    PROVE  /\ gate = "runs"
           /\ \/ \E q \in g_client_queue :
                   /\ client = None /\ g_client_queue' = g_client_queue \ {q}
                   /\ ClientLogin(q) \/ ClientExit(q) \/ ClientForward(q)
              \/ UNCHANGED g_client_queue /\ (ClientListed \/ ClientErases)
BY DEF RunClient, run_client, ClientLogin, ClientExit, ClientForward, Takes, ClientListed, ClientErases

-----------------------------------------------------------------------------
(* The queue.                                                              *)

LEMMA LabelsKept ==
    ASSUME NetInv, Kept, NEW q, Labelled(q) PROVE Labelled(q)'
<1>1. q.conn \in Conns /\ q.from \in Fds
  BY DEF Labelled, Published
<1> QED BY <1>1 DEF Labelled, Kept

\* A message goes into the queue with the descriptor of its connection.
LEMMA LabelGiven ==
    ASSUME NetInv, NEW fd \in Fds, Receive(fd), NEW q \in g_client_queue', q \notin g_client_queue
    PROVE  Labelled(q)
<1> DEFINE c == m_connections[fd]
<1>1. c \in Conns /\ wire[c] # <<>> /\ wire[c] \in Seq(Arrivals)
  BY DEF NetInv, Receive
<1>2. Head(wire[c]).msg \in SentMessage
  <2>1. Head(wire[c]) \in Arrivals
    BY <1>1
  <2> QED BY <2>1 DEF Arrivals
<1>3. q = [msg |-> Head(wire[c]).msg, from |-> fd, conn |-> c]
  BY DEF Receive
<1>4. q \in Published /\ q.conn = c /\ q.from = fd
  BY <1>1, <1>2, <1>3 DEF Published
<1>5. peer[c] # "new"
  BY <1>1, GateAssumption DEF NetInv
<1> QED BY <1>4, <1>5 DEF Labelled, Attached

LEMMA QueueStep ==
    ASSUME NetInv, QueueInv, [GatewayNext]_gatewayVars, Kept
    PROVE  QueueInv'
<1>1. CASE UNCHANGED listState
  <2>1. client' = client
    BY <1>1 DEF listState
  <2>2. \A q \in g_client_queue' : Labelled(q)
    <3>1. CASE UNCHANGED g_client_queue
      BY <3>1 DEF QueueInv
    <3>2. CASE ProductMsg
      <4>1. ASSUME NEW fd \in Fds, Receive(fd) PROVE \A q \in g_client_queue' : Labelled(q)
        BY <4>1, LabelGiven DEF QueueInv
      <4>2. (\E fd \in Fds : Receive(fd)) \/ UNCHANGED g_client_queue
        BY <3>2 DEF ProductMsg, product_msg, Report, Drained, Erase
      <4> QED BY <3>1, <4>1, <4>2
    <3>3. CASE ClientSteps
      BY <3>1, <3>3 DEF ClientSteps, ClientConnects, ClientSends, ClientGoesOn
    <3>4. CASE RunClient
      BY <3>4, ClientKinds DEF QueueInv
    <3>5. CASE RunServer
      BY <3>1, <3>5 DEF RunServer, RunServerHears, RunServerErases, RunServerWalks
    <3>6. CASE UNCHANGED gatewayVars
      BY <3>1, <3>6 DEF gatewayVars, gateVars
    <3> QED BY <3>2, <3>3, <3>4, <3>5, <3>6 DEF GatewayNext
  <2> QED BY <2>1, <2>2, LabelsKept DEF QueueInv
<1>2. CASE RunClient
  <2>1. \A q \in g_client_queue' : q \in g_client_queue
    BY <1>2, ClientKinds
  <2>2. client' # None => client' = client \/ (client' \in g_client_queue /\ client'.msg.type \in {"USERLOGIN", "USEREXIT"})
    BY <1>2, ClientKinds DEF ClientLogin, ClientExit, ClientForward, Takes, ClientListed, ClientErases
  <2> QED BY <2>1, <2>2, LabelsKept DEF QueueInv
<1>3. CASE RunServer
  <2>1. UNCHANGED <<g_client_queue, client>>
    BY <1>3 DEF RunServer, RunServerHears, RunServerErases, RunServerWalks
  <2> QED BY <2>1, LabelsKept DEF QueueInv
<1> QED BY <1>1, <1>2, <1>3, ThreeKinds

LEMMA SlotsStep ==
    ASSUME NetInv, QueueInv, SlotsInv, [GatewayNext]_gatewayVars
    PROVE  SlotsInv'
<1>1. Cardinality(g_client_queue) \in Nat /\ ClientSlots \in Nat
  BY FS_CardinalityType, GateAssumption DEF SlotsInv
<1>2. CASE UNCHANGED <<g_client_queue, client, draining>>
  BY <1>2 DEF SlotsInv, Occupied
<1>3. CASE ClientSteps
  BY <1>2, <1>3 DEF ClientSteps, ClientConnects, ClientSends, ClientGoesOn, behindNet, Accept, Sends,
                    SendsRest, Leaves, TurnsDeaf
<1>4. CASE ProductMsg
  <2>0. client' = client
    BY <1>4 DEF ProductMsg, product_msg
  <2>1. ASSUME NEW fd \in Fds, Receive(fd) PROVE SlotsInv'
    <3>1. PICK q : g_client_queue' = g_client_queue \cup {q}
      BY <2>1 DEF Receive
    <3>2. IsFiniteSet(g_client_queue') /\ Cardinality(g_client_queue') <= Cardinality(g_client_queue) + 1
      BY <1>1, <3>1, FS_AddElement DEF SlotsInv
    <3>3. Cardinality(g_client_queue') \in Nat
      BY <3>2, FS_CardinalityType
    <3>4. draining # None
      BY <2>1 DEF Receive
    <3>5. (Occupied + 1 < ClientSlots) \/ draining' = None
      BY <2>1 DEF Receive, SlotFor
    <3> QED BY <1>1, <2>0, <3>2, <3>3, <3>4, <3>5 DEF SlotsInv, Occupied
  <2>2. ASSUME NEW fd \in Fds, Report(fd) PROVE SlotsInv'
    BY <1>1, <2>0, <2>2 DEF Report, SlotsInv, Occupied
  <2>3. CASE draining' = None /\ UNCHANGED g_client_queue
    BY <1>1, <2>0, <2>3 DEF SlotsInv, Occupied
  <2> QED BY <1>4, <2>1, <2>2, <2>3 DEF ProductMsg, product_msg, Drained, Erase
<1>5. CASE RunClient
  <2>0. draining' = draining
    BY <1>5, RunThreads DEF wires
  <2>1. ASSUME NEW q \in g_client_queue, client = None, g_client_queue' = g_client_queue \ {q}
        PROVE  SlotsInv'
    <3>1. IsFiniteSet(g_client_queue') /\ Cardinality(g_client_queue') = Cardinality(g_client_queue) - 1
      BY <1>1, <2>1, FS_RemoveElement DEF SlotsInv
    <3> QED BY <1>1, <2>0, <2>1, <3>1 DEF SlotsInv, Occupied
  <2>2. CASE UNCHANGED g_client_queue /\ (ClientListed \/ ClientErases)
    <3>1. client # None => client' \in {None, client}
      BY <2>2 DEF ClientListed, ClientErases
    <3>2. client' = None \/ client' = client
      BY <2>2 DEF ClientListed, ClientErases
    <3> QED BY <1>1, <2>0, <2>2, <3>2 DEF SlotsInv, Occupied
  <2> QED BY <1>5, <2>1, <2>2, ClientKinds
<1>6. CASE RunServer
  <2>1. UNCHANGED <<g_client_queue, client>>
    BY <1>6 DEF RunServer, RunServerHears, RunServerErases, RunServerWalks
  <2> QED BY <1>2, <1>6, <2>1, RunThreads DEF wires
<1>7. CASE UNCHANGED gatewayVars
  BY <1>2, <1>7 DEF gatewayVars, gateVars, wires
<1> QED BY <1>3, <1>4, <1>5, <1>6, <1>7 DEF GatewayNext

-----------------------------------------------------------------------------
(* The threads.                                                            *)

\* One of the two threads goes on in its erasefd.
LEMMA EraseGoesOn ==
    ASSUME ThreadInv, ListInv, NEW t \in Threads, Find(t) \/ EraseAt(t) \/ Forget(t)
    PROVE  /\ erasing[t] # None
           /\ erasing' = [erasing EXCEPT ![t] = erasing'[t]]
           /\ erasing'[t] # None =>
                 /\ ErasingIn(erasing'[t])
                 /\ erasing'[t].usr = erasing[t].usr /\ erasing'[t].end = erasing[t].end
           /\ Len(storage') = Len(storage)
           /\ broadcast' = broadcast
<1> DEFINE e == erasing[t]
<1>1. e # None /\ e \in [usr : Users, at : {"find", "erase", "forget"}, iter : Nat, end : Nat]
      /\ 1 <= e.iter /\ e.iter <= e.end /\ (e.at = "erase" => e.iter < e.end)
  BY DEF ThreadInv, ErasingIn, Erasure, Find, EraseAt, Forget
<1>2. erasing = [s \in Threads |-> erasing[s]]
  BY DEF ThreadInv
<1>3. CASE Find(t)
  <2> DEFINE f == IF e.iter = e.end THEN [e EXCEPT !.at = "forget"]
                  ELSE IF storage[e.iter].usrid = e.usr THEN [e EXCEPT !.at = "erase"]
                  ELSE [e EXCEPT !.iter = @ + 1]
  <2>1. erasing' = [erasing EXCEPT ![t] = f] /\ UNCHANGED listVars /\ e.at = "find"
    BY <1>3 DEF Find
  <2>2. ErasingIn(f) /\ f.usr = e.usr /\ f.end = e.end
    BY <1>1, <2>1 DEF ErasingIn, Erasure
  <2>3. erasing'[t] = f
    BY <1>2, <2>1
  <2> HIDE DEF f
  <2> QED BY <1>1, <2>1, <2>2, <2>3 DEF listVars
<1>4. CASE EraseAt(t)
  <2> DEFINE f == [e EXCEPT !.at = "forget"]
  <2>1. erasing' = [erasing EXCEPT ![t] = f] /\ UNCHANGED broadcast
    BY <1>4 DEF EraseAt
  <2>2. ErasingIn(f) /\ f.usr = e.usr /\ f.end = e.end
    BY <1>1 DEF ErasingIn, Erasure
  <2>3. erasing'[t] = f
    BY <1>2, <2>1
  <2>4. Len(storage') = Len(storage)
    BY <1>4 DEF EraseAt, ListInv
  <2> HIDE DEF f
  <2> QED BY <1>1, <2>1, <2>2, <2>3, <2>4
<1>5. CASE Forget(t)
  <2>1. erasing' = [erasing EXCEPT ![t] = None] /\ UNCHANGED <<storage, broadcast>>
    BY <1>5 DEF Forget
  <2>2. erasing'[t] = None
    BY <1>2, <2>1
  <2> QED BY <1>1, <2>1, <2>2
<1> QED BY <1>3, <1>4, <1>5

LEMMA EraseStarts ==
    ASSUME ThreadInv, ListInv, NEW t \in Threads, NEW u \in Users,
           erasing' = [erasing EXCEPT ![t] = EraseBegins(u)]
    PROVE  /\ erasing' = [s \in Threads |-> erasing'[s]]
           /\ erasing'[t] = EraseBegins(u) /\ ErasingIn(EraseBegins(u))
           /\ \A s \in Threads : s # t => erasing'[s] = erasing[s]
BY DEF ThreadInv, ListInv, EraseBegins, ErasingIn, Erasure

\* What run_server does, and when.
LEMMA ServerKinds ==
    ASSUME RunServer, ThreadInv
    PROVE  /\ gate = "runs"
           /\ \/ /\ server = None /\ broadcast = None /\ erasing["run_server"] = None
                 /\ \E u \in Users, type \in {"GET_ALLINFO", "USERSYNC", "USEREXIT", "ITEMEVENT"} :
                       Hears([type |-> type, usr |-> u])
                 /\ ~overlapped' => ~overlapped
              \/ /\ server # None /\ broadcast = None
                 /\ ItemWritten \/ ServerErases \/ ExitSync
                 /\ ~overlapped' => ~overlapped /\ ~(size' < size /\ Scans("run_client"))
              \/ /\ server = None /\ broadcast # None /\ erasing["run_server"] = None
                 /\ Walks
                 /\ ~overlapped' => ~overlapped /\ ~(<<storage, size>>' # <<storage, size>> /\ Scans("run_client"))
           /\ UNCHANGED <<g_client_queue, client, handled, loggedOn>>
<1>1. CASE RunServerHears
  BY <1>1 DEF RunServerHears, Hears, ServerLogin, ServerExit, ServerSync, ServerItem, Idle, ThreadInv
<1>2. CASE RunServerErases
  <2>1. server # None
    BY <1>2 DEF RunServerErases, ItemWritten, ServerErases, ExitSync, Find, EraseAt, Forget, ThreadInv
  <2> QED BY <1>2, <2>1 DEF RunServerErases, ThreadInv
<1>3. CASE RunServerWalks
  <2>1. broadcast # None
    BY <1>3 DEF RunServerWalks, Walks, SendBegins, SendEnds, EndBroadcast
  <2> QED BY <1>3, <2>1 DEF RunServerWalks, ThreadInv
<1> QED BY <1>1, <1>2, <1>3 DEF RunServer

LEMMA Pushed ==
    ASSUME ListInv, NEW e \in client_info, PushBack(e)
    PROVE  /\ size \in Nat /\ size' = size + 1 /\ Len(storage') >= Len(storage) /\ size' <= Len(storage')
           /\ storage' \in Seq(client_info \cup {None})
           /\ storage'[size + 1] = e
           /\ \A k \in 1 .. size : storage'[k] = storage[k]
           /\ gate' \in {gate, "undefined"}
           /\ gate' = "runs" /\ IteratorsOut =>
                 \A k \in 1 .. Len(storage) : k # size + 1 => storage'[k] = storage[k]
<1>1. size \in Nat /\ storage \in Seq(client_info \cup {None}) /\ Len(storage) \in Nat /\ size <= Len(storage)
  BY DEF ListInv
<1>2. CASE size < Len(storage)
  <2>1. storage' = [storage EXCEPT ![size + 1] = e] /\ size' = size + 1 /\ gate' = gate
    BY <1>2 DEF PushBack
  <2>2. size + 1 \in 1 .. Len(storage)
    BY <1>1, <1>2
  <2>3. storage' \in Seq(client_info \cup {None}) /\ Len(storage') = Len(storage)
    BY <1>1, <2>1, <2>2
  <2>4. storage'[size + 1] = e /\ \A k \in 1 .. Len(storage) : k # size + 1 => storage'[k] = storage[k]
    BY <1>1, <2>1, <2>2
  <2> QED BY <1>1, <2>1, <2>2, <2>3, <2>4
<1>3. CASE ~(size < Len(storage))
  <2> DEFINE n == IF size = 0 THEN 1 ELSE 2 * size
  <2>1. storage' = [k \in 1 .. n |-> IF k <= size THEN storage[k] ELSE IF k = size + 1 THEN e ELSE None]
        /\ size' = size + 1 /\ gate' = IF IteratorsOut THEN "undefined" ELSE gate
    BY <1>3 DEF PushBack
  <2>2. size = Len(storage) /\ n \in Nat /\ size + 1 <= n
    BY <1>1, <1>3
  <2> HIDE DEF n
  <2>3. \A k \in 1 .. size : k \in 1 .. n /\ storage[k] \in client_info
    BY <1>1, <2>2 DEF ListInv
  <2>4. storage' \in Seq(client_info \cup {None}) /\ Len(storage') = n
    BY <1>1, <2>1, <2>2, <2>3
  <2>5. storage'[size + 1] = e /\ \A k \in 1 .. size : storage'[k] = storage[k]
    BY <1>1, <2>1, <2>2, <2>3
  <2>6. gate' \in {gate, "undefined"} /\ (gate' = "runs" => ~IteratorsOut)
    BY <2>1
  <2> QED BY <1>1, <2>1, <2>2, <2>4, <2>5, <2>6
<1> QED BY <1>2, <1>3

\* A walk over the whole list begins.
LEMMA WalkStarts ==
    ASSUME ListInv, broadcast' = [i |-> 1, j |-> size + 1, fd |-> None], UNCHANGED storage
    PROVE  /\ broadcast' \in [i : Nat, j : Nat, fd : Fds \cup {None}]
           /\ 1 <= broadcast'.i /\ broadcast'.i <= broadcast'.j /\ broadcast'.j <= Len(storage') + 1
           /\ broadcast'.fd = None
BY DEF ListInv

LEMMA ThreadClient ==
    ASSUME QueueInv, ThreadInv, ListInv, RunClient
    PROVE  ThreadInv'
<1>0. server' = server
  BY DEF RunClient, run_client
<1>1. ASSUME NEW q \in g_client_queue, client = None, ClientLogin(q) \/ ClientForward(q)
      PROVE  ThreadInv'
  <2>1. UNCHANGED <<erasing, storage, broadcast>> /\ erasing["run_client"] = None
    BY <1>1 DEF ClientLogin, ClientForward, listVars, ThreadInv
  <2> QED BY <1>0, <2>1 DEF ThreadInv, ErasingIn, Erasure
<1>2. ASSUME NEW q \in g_client_queue, client = None, ClientExit(q)
      PROVE  ThreadInv'
  <2>1. q.msg.usr \in Users /\ q # None
    BY <1>2, GateAssumption DEF QueueInv, Labelled, Published, SentMessage
  <2>2. /\ erasing' = [erasing EXCEPT !["run_client"] = EraseBegins(q.msg.usr)]
        /\ client' = q /\ q.msg.type = "USEREXIT" /\ UNCHANGED <<storage, broadcast>>
    BY <1>2 DEF ClientExit, Takes, listVars
  <2>3. EraseBegins(q.msg.usr).usr = q.msg.usr /\ "run_client" \in Threads
    BY DEF EraseBegins, Threads
  <2>4. /\ erasing' = [s \in Threads |-> erasing'[s]]
        /\ erasing'["run_client"] = EraseBegins(q.msg.usr) /\ ErasingIn(EraseBegins(q.msg.usr))
        /\ \A s \in Threads : s # "run_client" => erasing'[s] = erasing[s]
    BY <2>1, <2>2, <2>3, EraseStarts
  <2>5. erasing'["run_server"] = erasing["run_server"]
    BY <2>4 DEF Threads
  <2> QED BY <1>0, <2>1, <2>2, <2>3, <2>4, <2>5 DEF ThreadInv, ErasingIn, Erasure
<1>3. CASE ClientListed
  <2>1. [usrid |-> client.msg.usr, fd |-> client.from] \in client_info
    BY <1>3 DEF ClientListed, QueueInv, Labelled, Published, SentMessage, client_info
  <2>2. Len(storage') >= Len(storage) /\ Len(storage') \in Nat /\ Len(storage) \in Nat
    <3>1. PushBack([usrid |-> client.msg.usr, fd |-> client.from])
      BY <1>3 DEF ClientListed
    <3>2. size \in Nat /\ size' = size + 1 /\ Len(storage') >= Len(storage)
          /\ storage' \in Seq(client_info \cup {None})
      BY <2>1, <3>1, Pushed
    <3> QED BY <3>2 DEF ListInv
  <2>3. UNCHANGED <<erasing, broadcast>> /\ erasing["run_client"] = None
    BY <1>3 DEF ClientListed, ThreadInv
  <2> QED BY <1>0, <2>2, <2>3 DEF ThreadInv, ErasingIn, Erasure
<1>4. CASE ClientErases
  <2>1. /\ erasing["run_client"] # None
        /\ erasing' = [erasing EXCEPT !["run_client"] = erasing'["run_client"]]
        /\ erasing'["run_client"] # None =>
              /\ ErasingIn(erasing'["run_client"])
              /\ erasing'["run_client"].usr = erasing["run_client"].usr
        /\ Len(storage') = Len(storage)
        /\ broadcast' = broadcast
    BY <1>4, EraseGoesOn DEF ClientErases, Threads
  <2>2. erasing' = [s \in Threads |-> erasing'[s]] /\ erasing'["run_server"] = erasing["run_server"]
    BY <2>1 DEF ThreadInv, Threads
  <2>3. client' = IF erasing'["run_client"] = None THEN None ELSE client
    BY <1>4 DEF ClientErases
  <2> QED BY <1>0, <2>1, <2>2, <2>3 DEF ThreadInv, ErasingIn, Erasure, Threads
<1> QED BY <1>1, <1>2, <1>3, <1>4, ClientKinds

LEMMA ThreadServer ==
    ASSUME LoginInv, ThreadInv, ListInv, RunServer
    PROVE  ThreadInv'
<1>0. UNCHANGED client /\ gate = "runs" /\ "run_server" \in Threads /\ None \notin ServerWork
  BY ServerKinds, GateAssumption DEF Threads
<1>1. ASSUME UNCHANGED <<erasing, broadcast, storage>>, server' # None => server' \in ServerWork /\ broadcast = None,
             erasing["run_server"] # None => server' # None
      PROVE  ThreadInv'
  BY <1>0, <1>1 DEF ThreadInv, ErasingIn, Erasure
<1>2. ASSUME UNCHANGED <<erasing, storage>>, broadcast = None, server' = None, erasing["run_server"] = None,
             broadcast' = [i |-> 1, j |-> size + 1, fd |-> None]
      PROVE  ThreadInv'
  <2>1. /\ broadcast' \in [i : Nat, j : Nat, fd : Fds \cup {None}]
        /\ 1 <= broadcast'.i /\ broadcast'.i <= broadcast'.j /\ broadcast'.j <= Len(storage') + 1
        /\ broadcast'.fd = None
    BY <1>2, WalkStarts
  <2> QED BY <1>0, <1>2, <2>1 DEF ThreadInv, ErasingIn, Erasure
<1>3. ASSUME NEW u \in Users, erasing' = [erasing EXCEPT !["run_server"] = EraseBegins(u)],
             server' \in ServerWork, broadcast = None, UNCHANGED <<broadcast, storage>>
      PROVE  ThreadInv'
  <2>1. /\ erasing' = [s \in Threads |-> erasing'[s]]
        /\ erasing'["run_server"] = EraseBegins(u) /\ ErasingIn(EraseBegins(u))
        /\ \A s \in Threads : s # "run_server" => erasing'[s] = erasing[s]
    BY <1>0, <1>3, EraseStarts
  <2>2. erasing'["run_client"] = erasing["run_client"]
    BY <2>1 DEF Threads
  <2>3. \A t \in Threads : erasing'[t] # None => ErasingIn(erasing'[t])
    BY <2>1 DEF ThreadInv
  <2> QED BY <1>0, <1>3, <2>1, <2>2, <2>3 DEF ThreadInv, ErasingIn, Erasure
<1>4. ASSUME NEW u \in Users, NEW type \in {"GET_ALLINFO", "USERSYNC", "USEREXIT", "ITEMEVENT"},
             Hears([type |-> type, usr |-> u]), server = None, broadcast = None, erasing["run_server"] = None
      PROVE  ThreadInv'
  <2> DEFINE m == [type |-> type, usr |-> u]
  <2>1. CASE ServerLogin(m)
    BY <1>1, <1>4, <2>1 DEF ServerLogin, listVars
  <2>2. CASE ServerExit(m)
    BY <1>3, <1>4, <2>2 DEF ServerExit, ServerWork, listVars
  <2>3. CASE ServerSync(m)
    BY <1>2, <1>4, <2>3 DEF ServerSync
  <2>4. CASE ServerItem(m)
    <3> DEFINE fd == IF m_usrfd[u] = None THEN 0 ELSE m_usrfd[u]
    <3>1. fd \in Nat
      <4>1. Fds \subseteq Nat
        BY GateAssumption
      <4>2. m_usrfd[u] \in Fds \cup {0, None}
        BY DEF LoginInv
      <4>3. CASE m_usrfd[u] = None
        BY <4>3
      <4>4. CASE m_usrfd[u] \in Fds \cup {0} /\ m_usrfd[u] # None
        <5>1. \A x \in Fds \cup {0} : x \in Nat
          BY <4>1
        <5> QED BY <4>4, <5>1
      <4> QED BY <4>2, <4>3, <4>4
    <3>2. server' = [type |-> "ITEMEVENT", usr |-> u, fd |-> fd] /\ UNCHANGED <<erasing, storage, broadcast>>
      BY <2>4 DEF ServerItem
    <3>3. server' \in ServerWork
      BY <3>1, <3>2 DEF ServerWork
    <3> QED BY <1>1, <1>4, <3>2, <3>3
  <2> QED BY <1>4, <2>1, <2>2, <2>3, <2>4 DEF Hears
<1>5. CASE ItemWritten /\ server # None /\ broadcast = None
  <2>1. erasing["run_server"] = None /\ UNCHANGED <<storage, broadcast>> /\ server \in ServerWork
    BY <1>5 DEF ItemWritten, ThreadInv
  <2>2. server.usr \in Users
    BY <2>1 DEF ServerWork
  <2>3. \/ erasing' = [erasing EXCEPT !["run_server"] = EraseBegins(server.usr)] /\ UNCHANGED server
        \/ server' = None /\ UNCHANGED erasing
    BY <1>5 DEF ItemWritten
  <2> QED BY <1>1, <1>3, <1>5, <2>1, <2>2, <2>3
<1>6. CASE ServerErases /\ server # None /\ broadcast = None
  <2>1. /\ erasing["run_server"] # None
        /\ erasing' = [erasing EXCEPT !["run_server"] = erasing'["run_server"]]
        /\ erasing'["run_server"] # None => ErasingIn(erasing'["run_server"])
        /\ Len(storage') = Len(storage)
        /\ broadcast' = broadcast
    BY <1>0, <1>6, EraseGoesOn DEF ServerErases
  <2>2. erasing' = [s \in Threads |-> erasing'[s]] /\ erasing'["run_client"] = erasing["run_client"]
    BY <2>1 DEF ThreadInv, Threads
  <2>3. server' = IF erasing'["run_server"] = None /\ server.type = "ITEMEVENT" THEN None ELSE server
    BY <1>6 DEF ServerErases
  <2> QED BY <1>0, <1>6, <2>1, <2>2, <2>3 DEF ThreadInv, ErasingIn, Erasure, Threads
<1>7. CASE ExitSync /\ broadcast = None
  BY <1>2, <1>7 DEF ExitSync
<1>8. CASE Walks /\ broadcast # None
  <2>1. UNCHANGED <<server, erasing>> /\ server = None /\ erasing["run_server"] = None
    BY <1>8 DEF Walks, ThreadInv
  <2>2. /\ broadcast \in [i : Nat, j : Nat, fd : Fds \cup {None}]
        /\ 1 <= broadcast.i /\ broadcast.i <= broadcast.j /\ broadcast.j <= Len(storage) + 1
        /\ Len(storage) \in Nat
    BY <1>8 DEF ThreadInv, ListInv
  <2>3. CASE SendBegins
    <3>1. storage[broadcast.i] \in client_info
      BY <1>0, <2>2, <2>3 DEF SendBegins, ListInv
    <3>2. broadcast' = [broadcast EXCEPT !.fd = storage[broadcast.i].fd] /\ UNCHANGED storage
          /\ broadcast.i # broadcast.j
      BY <2>3 DEF SendBegins
    <3>3. storage[broadcast.i].fd \in Fds
      BY <3>1 DEF client_info
    <3>4. /\ broadcast' \in [i : Nat, j : Nat, fd : Fds \cup {None}]
          /\ broadcast'.i = broadcast.i /\ broadcast'.j = broadcast.j /\ broadcast.i < broadcast.j
      BY <2>2, <3>2, <3>3
    <3> QED BY <1>0, <2>1, <2>2, <3>2, <3>4 DEF ThreadInv, ErasingIn, Erasure
  <2>4. CASE SendEnds
    <3>1. broadcast.i < broadcast.j
      BY <2>4 DEF SendEnds, ThreadInv
    <3>2. \/ broadcast' = [broadcast EXCEPT !.j = @ - 1, !.fd = None]
          \/ broadcast' = [broadcast EXCEPT !.i = @ + 1, !.fd = None]
      BY <2>4 DEF SendEnds
    <3>3. Len(storage') = Len(storage)
      BY <2>4 DEF SendEnds, ListInv
    <3>4. PICK i \in Nat, j \in Nat : i = broadcast.i /\ j = broadcast.j
      BY <2>2
    <3>5. broadcast' \in {[i |-> i, j |-> j - 1, fd |-> None], [i |-> i + 1, j |-> j, fd |-> None]}
      BY <2>2, <3>2, <3>4
    <3>6. /\ broadcast' \in [i : Nat, j : Nat, fd : Fds \cup {None}] /\ broadcast'.fd = None
          /\ 1 <= broadcast'.i /\ broadcast'.i <= broadcast'.j /\ broadcast'.j <= Len(storage) + 1
      BY <2>2, <3>1, <3>4, <3>5
    <3> QED BY <1>0, <2>1, <3>3, <3>6 DEF ThreadInv, ErasingIn, Erasure
  <2>5. CASE EndBroadcast
    BY <1>0, <2>1, <2>5 DEF EndBroadcast, ThreadInv, ErasingIn, Erasure
  <2> QED BY <1>8, <2>3, <2>4, <2>5 DEF Walks
<1> QED BY <1>4, <1>5, <1>6, <1>7, <1>8, ServerKinds

LEMMA ThreadStep ==
    ASSUME QueueInv, LoginInv, ThreadInv, ListInv, [GatewayNext]_gatewayVars
    PROVE  ThreadInv'
<1>1. CASE UNCHANGED listState
  BY <1>1 DEF listState, listVars, ThreadInv, ErasingIn, Erasure
<1> QED BY <1>1, ThreadClient, ThreadServer, ThreeKinds

-----------------------------------------------------------------------------
(* The list.                                                               *)

\* Entries behind the one that goes move up.
LEMMA Erased ==
    ASSUME ThreadInv, ListInv, NEW t \in Threads, EraseAt(t)
    PROVE  /\ storage' \in Seq(client_info \cup {None}) /\ Len(storage') = Len(storage)
           /\ size' \in 0 .. size
           /\ \A k \in 1 .. Len(storage) : storage[k] \in client_info => storage'[k] \in client_info
           /\ gate' \in {gate, "undefined"}
           /\ gate' # "undefined" =>
                 /\ erasing[t].iter \in 1 .. size /\ size' = size - 1
                 /\ \A k \in 1 .. size : k < erasing[t].iter => storage'[k] = storage[k]
                 /\ \A k \in 1 .. size : k > erasing[t].iter => storage'[k - 1] = storage[k]
           /\ erasing' = [erasing EXCEPT ![t].at = "forget"]
           /\ UNCHANGED <<m_usrfd, broadcast>>
<1>1. /\ size \in Nat /\ storage \in Seq(client_info \cup {None}) /\ Len(storage) \in Nat /\ size <= Len(storage)
      /\ \A k \in 1 .. size : storage[k] \in client_info
  BY DEF ListInv
<1>2. PICK i \in Nat : i = erasing[t].iter /\ 1 <= i
  BY DEF EraseAt, ThreadInv, ErasingIn, Erasure
<1>3. erasing' = [erasing EXCEPT ![t].at = "forget"] /\ UNCHANGED <<m_usrfd, broadcast>>
  BY DEF EraseAt
<1>4. CASE i > size
  <2>1. gate' = "undefined" /\ UNCHANGED <<storage, size>>
    BY <1>2, <1>4 DEF EraseAt
  <2> QED BY <1>1, <1>3, <2>1
<1>5. CASE ~(i > size)
  <2>1. /\ storage' = [k \in DOMAIN storage |-> IF k \in i .. size - 1 THEN storage[k + 1] ELSE storage[k]]
        /\ size' = size - 1 /\ gate' = gate
    BY <1>2, <1>5 DEF EraseAt
  <2>2. i \in 1 .. size
    BY <1>1, <1>2, <1>5
  <2>3. \A k \in i .. size - 1 : k \in 1 .. Len(storage) /\ k + 1 \in 1 .. Len(storage) /\ storage[k + 1] \in client_info
    BY <1>1, <2>2
  <2>4. storage' \in Seq(client_info \cup {None}) /\ Len(storage') = Len(storage)
    BY <1>1, <2>1, <2>3
  <2>5. \A k \in 1 .. Len(storage) :
          storage'[k] = IF k \in i .. size - 1 THEN storage[k + 1] ELSE storage[k]
    BY <1>1, <2>1
  <2>6. \A k \in 1 .. Len(storage) : storage[k] \in client_info => storage'[k] \in client_info
    BY <2>3, <2>5
  <2>7. \A k \in 1 .. size : k < i => storage'[k] = storage[k]
    BY <1>1, <2>2, <2>5
  <2>8. \A k \in 1 .. size : k > i => storage'[k - 1] = storage[k]
    <3> SUFFICES ASSUME NEW k \in 1 .. size, k > i PROVE storage'[k - 1] = storage[k]
      OBVIOUS
    <3>1. PICK l \in Nat : l = k - 1
      BY <1>2
    <3>2. l \in 1 .. Len(storage) /\ l \in i .. size - 1 /\ l + 1 = k
      BY <1>1, <2>2, <3>1
    <3>3. storage'[l] = storage[l + 1]
      BY <2>5, <3>2
    <3> QED BY <3>1, <3>2, <3>3
  <2> QED BY <1>1, <1>2, <1>3, <2>1, <2>2, <2>4, <2>6, <2>7, <2>8
<1> QED BY <1>4, <1>5

\* One of the two threads goes on in its erasefd, with the list.
LEMMA EraseKeepsList ==
    ASSUME ThreadInv, ListInv, gate = "runs", NEW t \in Threads, Find(t) \/ EraseAt(t) \/ Forget(t),
           t = "run_server" => broadcast = None
    PROVE  ListInv'
<1>1. CASE EraseAt(t)
  <2>1. /\ storage' \in Seq(client_info \cup {None}) /\ Len(storage') = Len(storage)
        /\ size' \in 0 .. size
        /\ \A k \in 1 .. Len(storage) : storage[k] \in client_info => storage'[k] \in client_info
        /\ gate' \in {gate, "undefined"}
        /\ erasing' = [erasing EXCEPT ![t].at = "forget"]
        /\ UNCHANGED broadcast
    BY <1>1, Erased
  <2>2. \A s \in Threads : Scans(s)' => s # t /\ Scans(s) /\ erasing'[s] = erasing[s]
    BY <2>1 DEF Scans, ThreadInv
  <2>3. \A k \in 1 .. size' : storage'[k] \in client_info
    BY <2>1 DEF ListInv
  <2>4. ASSUME NEW s \in Threads, Scans(s)'
        PROVE  /\ erasing'[s].end <= Len(storage') + 1
               /\ erasing'[s].at = "find" =>
                     \A k \in erasing'[s].iter .. erasing'[s].end - 1 : storage'[k] \in client_info
    <3>1. /\ erasing[s].end <= Len(storage) + 1
          /\ erasing[s].at = "find" =>
                \A k \in erasing[s].iter .. erasing[s].end - 1 : storage[k] \in client_info
          /\ Scans(s) /\ erasing'[s] = erasing[s]
      BY <2>2, <2>4 DEF ListInv
    <3>2. PICK i \in Nat, n \in Nat : i = erasing[s].iter /\ n = erasing[s].end /\ 1 <= i
      BY <3>1 DEF Scans, ThreadInv, ErasingIn, Erasure
    <3> QED BY <2>1, <3>1, <3>2 DEF ListInv
  <2>5. broadcast' # None => \A k \in 1 .. broadcast'.j - 1 : storage'[k] \in client_info
    <3> SUFFICES ASSUME broadcast' # None PROVE \A k \in 1 .. broadcast'.j - 1 : storage'[k] \in client_info
      OBVIOUS
    <3>1. PICK j \in Nat : j = broadcast.j /\ j <= Len(storage) + 1
      BY <2>1 DEF ThreadInv
    <3>2. \A k \in 1 .. j - 1 : storage[k] \in client_info /\ k \in 1 .. Len(storage)
      BY <2>1, <3>1 DEF ListInv
    <3> QED BY <2>1, <3>1, <3>2
  <2> QED BY <2>1, <2>3, <2>4, <2>5 DEF ListInv
<1>2. CASE Find(t)
  <2>1. UNCHANGED listVars /\ erasing[t] # None /\ erasing[t].at = "find" /\ Scans(t)
    BY <1>2 DEF Find, Scans
  <2>2. \A s \in Threads : s # t => erasing'[s] = erasing[s]
    BY <1>2 DEF Find, ThreadInv
  <2>3. ASSUME erasing'[t] # None
        PROVE  /\ erasing'[t].end = erasing[t].end
               /\ erasing'[t].at = "find" => erasing'[t].iter = erasing[t].iter + 1
    <3> DEFINE e == erasing[t]
               f == IF e.iter = e.end THEN [e EXCEPT !.at = "forget"]
                    ELSE IF storage[e.iter].usrid = e.usr THEN [e EXCEPT !.at = "erase"]
                    ELSE [e EXCEPT !.iter = @ + 1]
    <3>1. e \in [usr : Users, at : {"find", "erase", "forget"}, iter : Nat, end : Nat]
      BY <2>1 DEF ThreadInv, ErasingIn, Erasure
    <3>2. erasing'[t] = f
      BY <1>2 DEF Find, ThreadInv
    <3>3. f.end = e.end /\ (f.at = "find" => f.iter = e.iter + 1)
      BY <2>1, <3>1
    <3> QED BY <3>2, <3>3
  <2>4. PICK i \in Nat, n \in Nat : i = erasing[t].iter /\ n = erasing[t].end
    BY <2>1 DEF ThreadInv, ErasingIn, Erasure
  <2>5. n <= Len(storage) + 1 /\ \A k \in i .. n - 1 : storage[k] \in client_info
    BY <2>1, <2>4 DEF ListInv
  <2>6. Scans(t)' =>
          /\ erasing'[t].end <= Len(storage) + 1
          /\ erasing'[t].at = "find" =>
                \A k \in erasing'[t].iter .. erasing'[t].end - 1 : storage[k] \in client_info
    BY <2>3, <2>4, <2>5 DEF Scans
  <2>7. \A s \in Threads : s # t /\ Scans(s)' =>
          /\ erasing'[s].end <= Len(storage) + 1
          /\ erasing'[s].at = "find" =>
                \A k \in erasing'[s].iter .. erasing'[s].end - 1 : storage[k] \in client_info
    BY <2>2 DEF Scans, ListInv
  <2> QED BY <2>1, <2>6, <2>7 DEF ListInv, listVars
<1>3. CASE Forget(t)
  <2>1. UNCHANGED <<storage, size, broadcast, gate>>
    BY <1>3 DEF Forget
  <2>2. \A s \in Threads : Scans(s)' => Scans(s) /\ erasing'[s] = erasing[s]
    BY <1>3 DEF Forget, Scans, ThreadInv
  <2> QED BY <2>1, <2>2 DEF ListInv
<1> QED BY <1>1, <1>2, <1>3

\* A thread enters erasefd.
LEMMA StartKeepsList ==
    ASSUME ThreadInv, ListInv, NEW t \in Threads, NEW u \in Users,
           erasing' = [erasing EXCEPT ![t] = EraseBegins(u)], UNCHANGED <<storage, size, broadcast, gate>>
    PROVE  ListInv'
<1>1. erasing'[t] = EraseBegins(u) /\ \A s \in Threads : s # t => erasing'[s] = erasing[s]
  BY EraseStarts
<1>2. /\ erasing'[t].end <= Len(storage) + 1
      /\ \A k \in erasing'[t].iter .. erasing'[t].end - 1 : storage[k] \in client_info
  BY <1>1 DEF EraseBegins, ListInv
<1>3. \A s \in Threads : s # t /\ Scans(s)' => Scans(s) /\ erasing'[s] = erasing[s]
  BY <1>1 DEF Scans
<1> QED BY <1>2, <1>3 DEF ListInv

LEMMA ListClient ==
    ASSUME QueueInv, ThreadInv, ListInv, RunClient
    PROVE  ListInv'
<1>0. gate = "runs"
  BY ClientKinds
<1>1. ASSUME NEW q \in g_client_queue, ClientLogin(q) \/ ClientForward(q)
      PROVE  ListInv'
  BY <1>1 DEF ClientLogin, ClientForward, listVars, ListInv, Scans
<1>2. ASSUME NEW q \in g_client_queue, ClientExit(q)
      PROVE  ListInv'
  <2>1. q.msg.usr \in Users
    BY <1>2 DEF QueueInv, Labelled, Published, SentMessage
  <2>2. "run_client" \in Threads /\ erasing' = [erasing EXCEPT !["run_client"] = EraseBegins(q.msg.usr)]
        /\ UNCHANGED <<storage, size, broadcast, gate>>
    BY <1>2 DEF ClientExit, listVars, Threads
  <2> QED BY <2>1, <2>2, StartKeepsList
<1>3. CASE ClientListed
  <2> DEFINE e == [usrid |-> client.msg.usr, fd |-> client.from]
  <2>1. e \in client_info
    BY <1>3 DEF ClientListed, QueueInv, Labelled, Published, SentMessage, client_info
  <2>2. PushBack(e) /\ UNCHANGED <<erasing, broadcast>> /\ erasing["run_client"] = None
    BY <1>3 DEF ClientListed, ThreadInv
  <2> HIDE DEF e
  <2>3. /\ size \in Nat /\ size' = size + 1 /\ Len(storage') >= Len(storage) /\ size' <= Len(storage')
        /\ storage' \in Seq(client_info \cup {None})
        /\ storage'[size + 1] = e
        /\ \A k \in 1 .. size : storage'[k] = storage[k]
        /\ gate' \in {gate, "undefined"}
        /\ gate' = "runs" /\ IteratorsOut =>
              \A k \in 1 .. Len(storage) : k # size + 1 => storage'[k] = storage[k]
    BY <2>1, <2>2, Pushed
  <2>4. \A k \in 1 .. size' : storage'[k] \in client_info
    <3>1. \A k \in 1 .. size' : k \in 1 .. size \/ k = size + 1
      BY <2>3
    <3>2. \A k \in 1 .. size : storage[k] \in client_info
      BY DEF ListInv
    <3> QED BY <2>1, <2>3, <3>1, <3>2
  <2>5. Len(storage') \in Nat /\ size' \in 0 .. Len(storage') /\ Len(storage) \in Nat /\ size <= Len(storage)
    BY <2>3 DEF ListInv
  <2>6. gate' = "runs" /\ IteratorsOut =>
          \A k \in 1 .. Len(storage) : storage[k] \in client_info => storage'[k] \in client_info
    BY <2>1, <2>3
  <2>7. ASSUME gate' = "runs", NEW s \in Threads, Scans(s)'
        PROVE  /\ erasing'[s].end <= Len(storage') + 1
               /\ erasing'[s].at = "find" =>
                     \A k \in erasing'[s].iter .. erasing'[s].end - 1 : storage'[k] \in client_info
    <3>1. s = "run_server" /\ Scans(s) /\ erasing' = erasing
      BY <2>2, <2>7 DEF Scans, Threads
    <3>2. PICK i \in Nat, n \in Nat : i = erasing[s].iter /\ n = erasing[s].end /\ 1 <= i /\ i <= n
      BY <3>1 DEF Scans, ThreadInv, ErasingIn, Erasure
    <3>3. n <= Len(storage) + 1
      BY <1>0, <3>1, <3>2 DEF ListInv
    <3>4. ASSUME erasing[s].at = "find", NEW k \in i .. n - 1 PROVE storage'[k] \in client_info
      <4>1. IteratorsOut
        BY <3>1, <3>2, <3>4 DEF IteratorsOut, Scans
      <4>2. storage[k] \in client_info /\ k \in 1 .. Len(storage)
        BY <1>0, <2>5, <3>1, <3>2, <3>3, <3>4 DEF ListInv
      <4> QED BY <2>6, <2>7, <4>1, <4>2
    <3> QED BY <2>3, <2>5, <3>1, <3>2, <3>3, <3>4
  <2>8. ASSUME gate' = "runs", broadcast' # None
        PROVE  \A k \in 1 .. broadcast'.j - 1 : storage'[k] \in client_info
    <3>1. PICK j \in Nat : j = broadcast.j /\ j <= Len(storage) + 1
      BY <2>2, <2>8 DEF ThreadInv
    <3>2. \A k \in 1 .. j - 1 : storage[k] \in client_info /\ k \in 1 .. Len(storage)
      BY <1>0, <2>2, <2>5, <2>8, <3>1 DEF ListInv
    <3>3. IteratorsOut
      BY <2>2, <2>8 DEF IteratorsOut
    <3> QED BY <2>2, <2>6, <2>8, <3>1, <3>2, <3>3
  <2> QED BY <1>0, <2>3, <2>4, <2>5, <2>7, <2>8 DEF ListInv
<1>4. CASE ClientErases
  BY <1>0, <1>4, EraseKeepsList DEF ClientErases, Threads
<1> QED BY <1>1, <1>2, <1>3, <1>4, ClientKinds

LEMMA ListServer ==
    ASSUME ThreadInv, ListInv, RunServer
    PROVE  ListInv'
<1>0. gate = "runs" /\ "run_server" \in Threads
  BY ServerKinds DEF Threads
<1>1. ASSUME UNCHANGED <<erasing, storage, size, broadcast>>, gate' \in {gate, "killed"} PROVE ListInv'
  BY <1>1 DEF ListInv, Scans
<1>2. ASSUME UNCHANGED <<erasing, storage, size, gate>>, broadcast' = [i |-> 1, j |-> size + 1, fd |-> None]
      PROVE  ListInv'
  BY <1>2 DEF ListInv, Scans
<1>3. ASSUME NEW u \in Users, Hears([type |-> "GET_ALLINFO", usr |-> u]) \/ Hears([type |-> "USERSYNC", usr |-> u])
                              \/ Hears([type |-> "USEREXIT", usr |-> u]) \/ Hears([type |-> "ITEMEVENT", usr |-> u])
      PROVE  ListInv'
  <2>1. PICK m : (ServerLogin(m) \/ ServerExit(m) \/ ServerSync(m) \/ ServerItem(m)) /\ m.usr = u
    BY <1>3 DEF Hears
  <2>2. CASE ServerLogin(m) \/ ServerItem(m)
    BY <1>1, <2>2 DEF ServerLogin, ServerItem, listVars
  <2>3. CASE ServerExit(m)
    BY <1>0, <2>1, <2>3, StartKeepsList DEF ServerExit, listVars
  <2>4. CASE ServerSync(m)
    BY <1>2, <2>4 DEF ServerSync
  <2> QED BY <2>1, <2>2, <2>3, <2>4
<1>4. CASE ItemWritten /\ server # None
  <2>1. server.usr \in Users
    BY <1>4 DEF ThreadInv, ServerWork
  <2>2. gate' \in {gate, "killed"} /\ UNCHANGED <<storage, size, broadcast>>
    BY <1>4 DEF ItemWritten
  <2>3. UNCHANGED erasing \/ (erasing' = [erasing EXCEPT !["run_server"] = EraseBegins(server.usr)] /\ UNCHANGED gate)
    BY <1>4 DEF ItemWritten
  <2> QED BY <1>0, <1>1, <2>1, <2>2, <2>3, StartKeepsList
<1>5. CASE ServerErases /\ broadcast = None
  BY <1>0, <1>5, EraseKeepsList DEF ServerErases
<1>6. CASE ExitSync
  BY <1>2, <1>6 DEF ExitSync
<1>7. CASE Walks /\ broadcast # None
  <2>1. UNCHANGED erasing /\ gate' \in {gate, "killed"}
    BY <1>7 DEF Walks, SendBegins, SendEnds, EndBroadcast
  <2>2. PICK i \in Nat, j \in Nat :
          i = broadcast.i /\ j = broadcast.j /\ 1 <= i /\ i <= j /\ j <= Len(storage) + 1
    BY <1>7 DEF ThreadInv
  <2>3. /\ storage \in Seq(client_info \cup {None}) /\ Len(storage) \in Nat /\ size \in Nat /\ size <= Len(storage)
        /\ \A k \in 1 .. j - 1 : storage[k] \in client_info
        /\ \A k \in 1 .. size : storage[k] \in client_info
    BY <1>0, <1>7, <2>2 DEF ListInv
  <2>4. ASSUME UNCHANGED <<storage, size>>, broadcast'.j = j PROVE ListInv'
    BY <1>0, <2>1, <2>2, <2>3, <2>4 DEF ListInv, Scans
  <2>5. CASE SendBegins
    BY <1>7, <2>2, <2>4, <2>5 DEF SendBegins, ThreadInv
  <2>6. CASE SendEnds
    <3>1. i < j
      BY <2>2, <2>6 DEF SendEnds, ThreadInv
    <3>2. \/ broadcast' = [broadcast EXCEPT !.i = @ + 1, !.fd = None] /\ UNCHANGED <<storage, size>>
          \/ /\ storage' = [storage EXCEPT ![i] = storage[j - 1]]
             /\ broadcast' = [broadcast EXCEPT !.j = j - 1, !.fd = None] /\ UNCHANGED size
      BY <2>2, <2>6 DEF SendEnds
    <3>3. CASE broadcast' = [broadcast EXCEPT !.i = @ + 1, !.fd = None] /\ UNCHANGED <<storage, size>>
      BY <1>7, <2>2, <2>4, <3>3 DEF ThreadInv
    <3>4. CASE /\ storage' = [storage EXCEPT ![i] = storage[j - 1]]
               /\ broadcast' = [broadcast EXCEPT !.j = j - 1, !.fd = None] /\ UNCHANGED size
      <4>1. i \in 1 .. Len(storage) /\ storage[j - 1] \in client_info
        BY <2>2, <2>3, <3>1
      <4>2. storage' \in Seq(client_info \cup {None}) /\ Len(storage') = Len(storage)
        BY <2>3, <3>4, <4>1
      <4>3. \A k \in 1 .. Len(storage) : storage[k] \in client_info => storage'[k] \in client_info
        BY <2>3, <3>4, <4>1
      <4>4. broadcast' # None => broadcast'.j = j - 1
        BY <1>7, <3>4 DEF ThreadInv
      <4>5. \A k \in 1 .. j - 2 : storage'[k] \in client_info
        BY <2>2, <2>3, <4>3
      <4>6. \A k \in 1 .. size' : storage'[k] \in client_info
        BY <2>3, <3>4, <4>3
      <4>7. ASSUME NEW s \in Threads, Scans(s)'
            PROVE  /\ erasing'[s].end <= Len(storage') + 1
                   /\ erasing'[s].at = "find" =>
                         \A k \in erasing'[s].iter .. erasing'[s].end - 1 : storage'[k] \in client_info
        <5>1. /\ Scans(s) /\ erasing' = erasing
              /\ erasing[s].end <= Len(storage) + 1
              /\ erasing[s].at = "find" =>
                   \A k \in erasing[s].iter .. erasing[s].end - 1 : storage[k] \in client_info
          BY <1>0, <2>1, <4>7 DEF Scans, ListInv
        <5>2. PICK a \in Nat, n \in Nat : a = erasing[s].iter /\ n = erasing[s].end /\ 1 <= a
          BY <5>1 DEF Scans, ThreadInv, ErasingIn, Erasure
        <5> QED BY <2>3, <4>2, <4>3, <5>1, <5>2
      <4> QED BY <1>0, <2>1, <2>2, <2>3, <3>4, <4>2, <4>4, <4>5, <4>6, <4>7 DEF ListInv
    <3> QED BY <3>2, <3>3, <3>4
  <2>7. CASE EndBroadcast
    <3>1. size' = j - 1 /\ broadcast' = None /\ UNCHANGED <<storage, gate>>
      BY <2>2, <2>7 DEF EndBroadcast
    <3> QED BY <1>0, <2>1, <2>2, <2>3, <3>1 DEF ListInv, Scans
  <2> QED BY <1>7, <2>5, <2>6, <2>7 DEF Walks
<1> QED BY <1>3, <1>4, <1>5, <1>6, <1>7, ServerKinds

LEMMA ListStep ==
    ASSUME QueueInv, ThreadInv, ListInv, [GatewayNext]_gatewayVars
    PROVE  ListInv'
<1>1. CASE UNCHANGED listState
  BY <1>1 DEF listState, listVars, ListInv, Scans
<1> QED BY <1>1, ListClient, ListServer, ThreeKinds

-----------------------------------------------------------------------------
(* Logins.                                                                 *)

LEMMA LoginStep ==
    ASSUME NetInv, QueueInv, LoginInv, ThreadInv, ListInv, [GatewayNext]_gatewayVars, Kept
    PROVE  LoginInv'
<1>0. None \notin Conns /\ None \notin Fds /\ 0 \notin Fds
  BY GateAssumption
<1>1. ASSUME NEW c \in Conns, peer[c] # "new"
      PROVE  peer'[c] # "new" /\ \A fd \in Fds : Attached(fd, c) => Attached(fd, c)'
  BY <1>1 DEF Kept
<1>2. ASSUME UNCHANGED <<m_usrfd, loggedOn>>, client' \in {client, None}
      PROVE  LoginInv'
  BY <1>1, <1>2 DEF LoginInv
<1>3. ASSUME NEW q \in g_client_queue, g_client_queue' = g_client_queue \ {q}, RunClient,
             ClientLogin(q) \/ ClientExit(q) \/ ClientForward(q), client = None
      PROVE  LoginInv'
  <2>1. Labelled(q) /\ q.msg.usr \in Users /\ q.conn \in Conns /\ q.from \in Fds /\ q # None
    BY <1>3, GateAssumption DEF QueueInv, Labelled, Published, SentMessage
  <2>2. loggedOn' = [u \in Users |->
                IF q.msg.usr = u /\ q.msg.type = "USERLOGIN" THEN q.conn
                ELSE IF q.msg.usr = u /\ q.msg.type = "USEREXIT" THEN None ELSE loggedOn[u]]
    BY <1>3, TakenOne
  <2>3. UNCHANGED <<peer, m_connections>>
    BY <1>3, RunThreads DEF wires
  <2>4. CASE ClientLogin(q)
    <3>1. q.msg.type = "USERLOGIN" /\ m_usrfd' = [m_usrfd EXCEPT ![q.msg.usr] = q.from] /\ client' = q
      BY <2>4 DEF ClientLogin, Takes
    <3> QED BY <1>0, <2>1, <2>2, <2>3, <3>1 DEF LoginInv, Labelled, Attached
  <2>5. CASE ClientExit(q)
    <3>1. q.msg.type = "USEREXIT" /\ m_usrfd' = m_usrfd /\ client' = q
      BY <2>5 DEF ClientExit, Takes, listVars
    <3> QED BY <1>0, <2>1, <2>2, <2>3, <3>1 DEF LoginInv, Labelled, Attached
  <2>6. CASE ClientForward(q)
    <3>1. q.msg.type \in {"USERUP", "ITEMEVENT"} /\ m_usrfd' = m_usrfd /\ client' = client
      BY <2>6 DEF ClientForward, Takes, listVars
    <3>2. loggedOn' = loggedOn
      BY <2>2, <3>1 DEF LoginInv
    <3> QED BY <1>2, <3>1, <3>2
  <2> QED BY <1>3, <2>4, <2>5, <2>6
<1>4. ASSUME NEW t \in Threads, Find(t) \/ EraseAt(t) \/ Forget(t), UNCHANGED loggedOn, client' \in {client, None}
      PROVE  LoginInv'
  <2>1. UNCHANGED m_usrfd \/ m_usrfd' = [m_usrfd EXCEPT ![erasing[t].usr] = None]
    BY <1>4 DEF Find, EraseAt, Forget, listVars
  <2>2. m_usrfd' \in [Users -> Fds \cup {0, None}]
    BY <2>1 DEF LoginInv
  <2>3. \A u \in Users : m_usrfd'[u] \in Fds => m_usrfd'[u] = m_usrfd[u]
    BY <1>0, <2>1 DEF LoginInv
  <2> QED BY <1>1, <1>4, <2>2, <2>3 DEF LoginInv
<1>5. CASE RunClient
  <2>1. ASSUME UNCHANGED g_client_queue PROVE loggedOn' = loggedOn
    BY <1>5, <2>1, TakenNone DEF LoginInv
  <2>2. CASE ClientListed /\ UNCHANGED g_client_queue
    BY <1>2, <2>1, <2>2 DEF ClientListed
  <2>3. CASE ClientErases /\ UNCHANGED g_client_queue
    BY <1>4, <2>1, <2>3 DEF ClientErases, Threads
  <2> QED BY <1>3, <1>5, <2>2, <2>3, ClientKinds
<1>6. CASE RunServer
  <2>1. UNCHANGED <<client, loggedOn>>
    BY <1>6, ServerKinds
  <2>2. CASE ServerErases
    BY <1>4, <2>1, <2>2 DEF ServerErases, Threads
  <2>3. CASE UNCHANGED m_usrfd
    BY <1>2, <2>1, <2>3
  <2>4. ASSUME NEW m, m.usr \in Users, ServerItem(m) PROVE LoginInv'
    <3>1. m_usrfd' = [m_usrfd EXCEPT ![m.usr] = IF m_usrfd[m.usr] = None THEN 0 ELSE m_usrfd[m.usr]]
      BY <2>4 DEF ServerItem
    <3>2. \A u \in Users : m_usrfd'[u] \in Fds => m_usrfd'[u] = m_usrfd[u]
      BY <1>0, <3>1 DEF LoginInv
    <3>3. m_usrfd' \in [Users -> Fds \cup {0, None}]
      BY <2>4, <3>1 DEF LoginInv
    <3> QED BY <1>1, <2>1, <3>2, <3>3 DEF LoginInv
  <2>5. ASSUME NEW u \in Users, NEW type, Hears([type |-> type, usr |-> u]) PROVE LoginInv'
    <3>1. UNCHANGED m_usrfd \/ ServerItem([type |-> type, usr |-> u])
      BY <2>5 DEF Hears, ServerLogin, ServerExit, ServerSync, listVars
    <3> QED BY <2>3, <2>4, <3>1
  <2>6. CASE ItemWritten \/ ExitSync \/ Walks
    BY <2>3, <2>6 DEF ItemWritten, ExitSync, Walks, SendBegins, SendEnds, EndBroadcast
  <2> QED BY <1>6, <2>2, <2>5, <2>6, ServerKinds
<1>7. CASE UNCHANGED listState
  BY <1>2, <1>7 DEF listState, listVars
<1> QED BY <1>5, <1>6, <1>7, ThreeKinds

-----------------------------------------------------------------------------
(* Who is in the list.                                                     *)

\* Where the list and the iterators into it stay, everybody stays in it.
LEMMA NotMoved ==
    ASSUME NetInv, LoginInv, ListInv, ListedInv, Kept, gate = "runs", ~overlapped,
           UNCHANGED <<storage, size>>, InPlace',
           broadcast' # None => (broadcast # None /\ broadcast'.j = broadcast.j) \/ broadcast'.j = size + 1,
           \A u \in Users : Good(u)' =>
               /\ Good(u) /\ loggedOn'[u] = loggedOn[u]
               /\ Scans("run_server")' /\ erasing'["run_server"].usr = u =>
                     /\ Scans("run_server") /\ erasing["run_server"].usr = u
                     /\ erasing'["run_server"].end = erasing["run_server"].end
    PROVE  ListedInv'
<1> SUFFICES ASSUME NEW u \in Users, Good(u)' PROVE \E k \in 1 .. size' : At(u, k)'
  BY DEF ListedInv
<1>1. loggedOn'[u] = loggedOn[u] /\ loggedOn[u] \in Conns /\ Good(u) /\ peer'[loggedOn[u]] = "open"
  BY DEF Good, LoginInv
<1>2. peer[loggedOn[u]] = "open"
  BY <1>1 DEF Good
<1>3. PICK k \in 1 .. size : At(u, k)
  BY <1>1 DEF ListedInv
<1>4. size \in Nat /\ storage[k] \in client_info
  BY DEF ListInv
<1>5. m_connections'[storage[k].fd] = loggedOn[u]
  BY <1>1, <1>2, <1>3, <1>4 DEF At, Kept, client_info
<1>6. broadcast' # None => k <= broadcast'.j - 1
  <2>1. CASE broadcast # None /\ broadcast'.j = broadcast.j
    BY <1>3, <2>1 DEF At
  <2>2. CASE broadcast'.j = size + 1
    BY <1>4, <2>2
  <2> QED BY <2>1, <2>2
<1>7. storage'[k].usrid = u /\ storage'[k].fd = storage[k].fd
  BY <1>3 DEF At
<1>8. Scans("run_server")' /\ erasing'["run_server"].usr = u => k >= erasing'["run_server"].end
  BY <1>3 DEF At
<1> QED BY <1>1, <1>3, <1>5, <1>6, <1>7, <1>8 DEF At

LEMMA ListedNet ==
    ASSUME NetInv, LoginInv, ListInv, ListedInv, Kept, UNCHANGED listState
    PROVE  ListedInv'
<1>1. UNCHANGED <<client, erasing, storage, size, broadcast, gate, loggedOn, spoilt, overlapped>>
  BY DEF listState, listVars
<1> SUFFICES ASSUME gate = "runs", ~overlapped PROVE ListedInv'
  BY <1>1 DEF ListedInv
<1>2. InPlace'
  BY <1>1 DEF ListedInv, InPlace, Scans
<1>3. ASSUME NEW u \in Users, Good(u)'
      PROVE  Good(u) /\ loggedOn'[u] = loggedOn[u]
  BY <1>1, <1>3 DEF Good, BeingListed, LoginInv, Kept
<1>4. Scans("run_server")' => Scans("run_server")
  BY <1>1 DEF Scans
<1> QED BY <1>1, <1>2, <1>3, <1>4, NotMoved

\* The iterators of a thread that goes on looking for its user.
LEMMA FoundInPlace ==
    ASSUME ThreadInv, ListInv, InPlace, NEW t \in Threads, Find(t)
    PROVE  InPlace'
<1>1. UNCHANGED listVars /\ Scans(t)
  BY DEF Find, Scans
<1>2. UNCHANGED <<storage, size, broadcast>>
  BY <1>1 DEF listVars
<1>3. \A s \in Threads : s # t => erasing'[s] = erasing[s]
  BY DEF Find, ThreadInv
<1>4. /\ erasing'[t].end = erasing[t].end
      /\ erasing'[t].at = "erase" => storage[erasing'[t].iter].usrid = erasing'[t].usr
  <2> DEFINE e == erasing[t]
             f == IF e.iter = e.end THEN [e EXCEPT !.at = "forget"]
                  ELSE IF storage[e.iter].usrid = e.usr THEN [e EXCEPT !.at = "erase"]
                  ELSE [e EXCEPT !.iter = @ + 1]
  <2>1. e \in [usr : Users, at : {"find", "erase", "forget"}, iter : Nat, end : Nat] /\ e.at = "find"
    BY <1>1 DEF Scans, ThreadInv, ErasingIn, Erasure, Find
  <2>2. erasing'[t] = f
    BY DEF Find, ThreadInv
  <2>3. f.end = e.end /\ (f.at = "erase" => storage[f.iter].usrid = f.usr)
    BY <2>1
  <2> QED BY <2>2, <2>3
<1>5. erasing[t].end <= size + 1
  BY <1>1 DEF InPlace
<1>6. \A s \in Threads : Scans(s)' /\ s # t => Scans(s) /\ erasing'[s] = erasing[s]
  BY <1>3 DEF Scans
<1> QED BY <1>2, <1>4, <1>5, <1>6 DEF InPlace

LEMMA ForgottenInPlace ==
    ASSUME ThreadInv, InPlace, NEW t \in Threads, Forget(t)
    PROVE  InPlace'
<1>1. UNCHANGED <<storage, size, broadcast>>
  BY DEF Forget
<1>2. \A s \in Threads : Scans(s)' => Scans(s) /\ erasing'[s] = erasing[s]
  BY DEF Forget, Scans, ThreadInv
<1> QED BY <1>1, <1>2 DEF InPlace

LEMMA StartedInPlace ==
    ASSUME ThreadInv, ListInv, InPlace, NEW t \in Threads, NEW u \in Users,
           erasing' = [erasing EXCEPT ![t] = EraseBegins(u)], UNCHANGED <<storage, size, broadcast>>
    PROVE  InPlace'
<1>1. erasing'[t] = EraseBegins(u) /\ \A s \in Threads : s # t => erasing'[s] = erasing[s]
  BY EraseStarts
<1>2. erasing'[t].end <= size + 1 /\ erasing'[t].at = "find"
  BY <1>1 DEF EraseBegins, ListInv
<1>3. \A s \in Threads : s # t /\ Scans(s)' => Scans(s) /\ erasing'[s] = erasing[s]
  BY <1>1 DEF Scans
<1> QED BY <1>2, <1>3 DEF InPlace

\* erase() with nothing else going on takes out an entry of the user it was looking for.
LEMMA ErasedInPlace ==
    ASSUME ThreadInv, ListInv, InPlace, NEW t \in Threads, EraseAt(t), gate' # "undefined",
           \A s \in Threads : s # t => ~Scans(s), broadcast = None
    PROVE  /\ InPlace'
           /\ \A s \in Threads : ~Scans(s)'
           /\ \A k \in 1 .. size :
                 storage[k].usrid # erasing[t].usr \/ k >= erasing[t].end =>
                    \E l \in 1 .. size' : storage'[l] = storage[k]
<1>1. /\ erasing[t].iter \in 1 .. size /\ size' = size - 1
      /\ \A k \in 1 .. size : k < erasing[t].iter => storage'[k] = storage[k]
      /\ \A k \in 1 .. size : k > erasing[t].iter => storage'[k - 1] = storage[k]
      /\ erasing' = [erasing EXCEPT ![t].at = "forget"]
      /\ UNCHANGED broadcast
  BY Erased
<1>2. \A s \in Threads : ~Scans(s)'
  BY <1>1 DEF Scans, ThreadInv
<1>3. Scans(t) /\ erasing[t].at = "erase"
  BY DEF EraseAt, Scans
<1>4. storage[erasing[t].iter].usrid = erasing[t].usr
  BY <1>3 DEF InPlace
<1>5. PICK i \in Nat, n \in Nat : i = erasing[t].iter /\ n = erasing[t].end /\ i < n
  BY <1>3 DEF ThreadInv, ErasingIn, Erasure, Scans
<1>6. ASSUME NEW k \in 1 .. size, storage[k].usrid # erasing[t].usr \/ k >= erasing[t].end
      PROVE  \E l \in 1 .. size' : storage'[l] = storage[k]
  <2>1. size \in Nat /\ k # i
    BY <1>4, <1>5, <1>6 DEF ListInv
  <2>2. CASE k < i
    <3>1. k \in 1 .. size' /\ storage'[k] = storage[k]
      BY <1>1, <1>5, <2>1, <2>2
    <3> QED BY <3>1
  <2>3. CASE k > i
    <3>1. k - 1 \in 1 .. size' /\ storage'[k - 1] = storage[k]
      BY <1>1, <1>5, <2>1, <2>3
    <3> QED BY <3>1
  <2> QED BY <1>5, <2>1, <2>2, <2>3
<1> QED BY <1>1, <1>2, <1>6 DEF InPlace

LEMMA ListedClient ==
    ASSUME NetInv, QueueInv, LoginInv, ThreadInv, ListInv, ListedInv, Kept, RunClient
    PROVE  ListedInv'
<1> SUFFICES ASSUME gate' = "runs", ~overlapped' PROVE ListedInv'
  BY DEF ListedInv
<1>1. gate = "runs" /\ ~overlapped /\ (size' < size => broadcast = None /\ ~Scans("run_server"))
  BY ClientKinds DEF RunClient
<1>2. InPlace /\ UNCHANGED <<peer, m_connections>> /\ size \in Nat
  BY <1>1, RunThreads DEF ListedInv, wires, ListInv
<1>3. spoilt' = IF size' > size /\ broadcast # None THEN spoilt \cup {client.conn} ELSE spoilt
  BY DEF RunClient
<1>4. ASSUME UNCHANGED <<storage, size, broadcast>>, InPlace', erasing'["run_server"] = erasing["run_server"],
             \A u \in Users : loggedOn'[u] # None /\ ~BeingListed(u)' => loggedOn'[u] = loggedOn[u] /\ ~BeingListed(u)
      PROVE  ListedInv'
  <2>1. \A u \in Users : Good(u)' => Good(u) /\ loggedOn'[u] = loggedOn[u]
    BY <1>2, <1>3, <1>4 DEF Good
  <2>2. Scans("run_server")' => Scans("run_server")
    BY <1>4 DEF Scans
  <2> QED BY <1>1, <1>4, <2>1, <2>2, NotMoved
<1>5. ASSUME NEW q \in g_client_queue, client = None, g_client_queue' = g_client_queue \ {q},
             ClientLogin(q) \/ ClientExit(q) \/ ClientForward(q)
      PROVE  ListedInv'
  <2>1. q.msg.usr \in Users /\ q # None
    BY GateAssumption DEF QueueInv, Labelled, Published, SentMessage
  <2>2. loggedOn' = [u \in Users |->
                IF q.msg.usr = u /\ q.msg.type = "USERLOGIN" THEN q.conn
                ELSE IF q.msg.usr = u /\ q.msg.type = "USEREXIT" THEN None ELSE loggedOn[u]]
    BY <1>5, TakenOne
  <2>3. \A u \in Users : ~BeingListed(u)
    BY <1>5 DEF BeingListed
  <2>4. CASE ClientLogin(q)
    <3>1. UNCHANGED <<erasing, storage, size, broadcast>> /\ client' = q /\ q.msg.type = "USERLOGIN"
      BY <2>4 DEF ClientLogin, Takes
    <3>2. InPlace'
      BY <1>2, <3>1 DEF InPlace, Scans
    <3>3. \A u \in Users : ~BeingListed(u)' => u # q.msg.usr
      BY <2>1, <3>1 DEF BeingListed
    <3> QED BY <1>4, <2>2, <2>3, <3>1, <3>2, <3>3
  <2>5. CASE ClientExit(q)
    <3>1. UNCHANGED <<storage, size, broadcast>> /\ q.msg.type = "USEREXIT"
          /\ erasing' = [erasing EXCEPT !["run_client"] = EraseBegins(q.msg.usr)]
          /\ "run_client" \in Threads /\ "run_server" \in Threads
      BY <2>5 DEF ClientExit, Takes, listVars, Threads
    <3>2. InPlace'
      BY <1>2, <2>1, <3>1, StartedInPlace
    <3>3. erasing'["run_server"] = erasing["run_server"]
      BY <3>1 DEF ThreadInv
    <3> QED BY <1>4, <2>2, <2>3, <3>1, <3>2, <3>3
  <2>6. CASE ClientForward(q)
    <3>1. UNCHANGED <<erasing, storage, size, broadcast>> /\ q.msg.type \in {"USERUP", "ITEMEVENT"}
      BY <2>6 DEF ClientForward, Takes, listVars
    <3>2. InPlace'
      BY <1>2, <3>1 DEF InPlace, Scans
    <3> QED BY <1>4, <2>2, <2>3, <3>1, <3>2
  <2> QED BY <1>5, <2>4, <2>5, <2>6
<1>6. CASE UNCHANGED g_client_queue /\ ClientListed
  <2> DEFINE v == client.msg.usr
             e == [usrid |-> v, fd |-> client.from]
  <2>1. /\ client # None /\ client.msg.type = "USERLOGIN" /\ PushBack(e) /\ client' = None
        /\ UNCHANGED <<erasing, broadcast>>
    BY <1>6 DEF ClientListed
  <2>2. /\ v \in Users /\ client.from \in Fds /\ client.conn \in Conns /\ e \in client_info
        /\ Attached(client.from, client.conn)
    BY <2>1 DEF QueueInv, Labelled, Published, SentMessage, client_info
  <2>3. loggedOn' = loggedOn
    BY <1>6, TakenNone DEF LoginInv
  <2>4. loggedOn[v] = client.conn
    BY <2>1 DEF LoginInv
  <2>5. e.usrid = v /\ e.fd = client.from
    OBVIOUS
  <2>6. \A u \in Users : BeingListed(u) => u = v
    BY DEF BeingListed
  <2> HIDE DEF e, v
  <2>7. size' = size + 1 /\ storage'[size + 1] = e /\ \A k \in 1 .. size : storage'[k] = storage[k]
    BY <2>1, <2>2, Pushed
  <2>8. InPlace'
    <3>1. \A t \in Threads : Scans(t) =>
            /\ erasing[t].end <= size' + 1
            /\ erasing[t].at = "erase" => storage'[erasing[t].iter].usrid = erasing[t].usr
      <4> SUFFICES ASSUME NEW t \in Threads, Scans(t)
                   PROVE  /\ erasing[t].end <= size' + 1
                          /\ erasing[t].at = "erase" => storage'[erasing[t].iter].usrid = erasing[t].usr
        OBVIOUS
      <4>1. PICK i \in Nat, n \in Nat :
              i = erasing[t].iter /\ n = erasing[t].end /\ 1 <= i /\ (erasing[t].at = "erase" => i < n)
        BY DEF ThreadInv, ErasingIn, Erasure, Scans
      <4>2. n <= size + 1 /\ (erasing[t].at = "erase" => storage[i].usrid = erasing[t].usr)
        BY <1>2, <4>1 DEF InPlace
      <4> QED BY <1>2, <2>7, <4>1, <4>2
    <3>2. broadcast # None =>
            /\ broadcast.j <= size' + 1
            /\ broadcast.fd # None => broadcast.fd = storage'[broadcast.i].fd
      <4> SUFFICES ASSUME broadcast # None
                   PROVE  /\ broadcast.j <= size' + 1
                          /\ broadcast.fd # None => broadcast.fd = storage'[broadcast.i].fd
        OBVIOUS
      <4>1. PICK i \in Nat, j \in Nat :
              i = broadcast.i /\ j = broadcast.j /\ 1 <= i /\ (broadcast.fd # None => i < j)
        BY DEF ThreadInv
      <4>2. j <= size + 1 /\ (broadcast.fd # None => broadcast.fd = storage[i].fd)
        BY <1>2, <4>1 DEF InPlace
      <4> QED BY <1>2, <2>7, <4>1, <4>2
    <3> QED BY <2>1, <3>1, <3>2 DEF InPlace, Scans
  <2>9. ASSUME NEW u \in Users, Good(u)' PROVE \E k \in 1 .. size' : At(u, k)'
    <3>1. loggedOn[u] # None /\ loggedOn[u] \notin spoilt' /\ peer[loggedOn[u]] = "open"
      BY <1>2, <2>3, <2>9 DEF Good
    <3>2. CASE u = v
      <4>1. broadcast = None
        BY <1>2, <1>3, <2>4, <2>7, <3>1, <3>2
      <4>2. m_connections[client.from] = client.conn
        BY <2>2, <2>4, <3>1, <3>2 DEF NetInv, Attached
      <4>3. Scans("run_server") => erasing["run_server"].end <= size + 1
        BY <1>2 DEF InPlace, Threads
      <4>4. Scans("run_server") => erasing["run_server"].end \in Nat
        BY DEF ThreadInv, ErasingIn, Erasure, Scans, Threads
      <4>5. Scans("run_server")' = Scans("run_server")
        BY <2>1 DEF Scans
      <4>6. PICK k \in Nat : k = size + 1
        BY <1>2
      <4>7. storage'[k].usrid = u /\ m_connections'[storage'[k].fd] = loggedOn'[u]
        BY <1>2, <2>3, <2>4, <2>5, <2>7, <3>2, <4>2, <4>6
      <4>8. Scans("run_server")' => k >= erasing'["run_server"].end
        BY <1>2, <2>1, <4>3, <4>4, <4>5, <4>6
      <4>9. At(u, k)'
        BY <2>1, <4>1, <4>7, <4>8 DEF At
      <4> QED BY <1>2, <2>7, <4>6, <4>9
    <3>3. CASE u # v
      <4>1. Good(u)
        BY <1>3, <2>6, <3>1, <3>3 DEF Good
      <4>2. PICK k \in 1 .. size : At(u, k)
        BY <1>1, <4>1 DEF ListedInv
      <4>3. Scans("run_server")' = Scans("run_server")
        BY <2>1 DEF Scans
      <4>4. At(u, k)'
        BY <1>2, <2>1, <2>3, <2>7, <4>2, <4>3 DEF At
      <4> QED BY <1>2, <2>7, <4>4
    <3> QED BY <3>2, <3>3
  <2> QED BY <2>8, <2>9 DEF ListedInv
<1>7. CASE UNCHANGED g_client_queue /\ ClientErases
  <2>1. loggedOn' = loggedOn
    BY <1>7, TakenNone DEF LoginInv
  <2>2. /\ "run_client" \in Threads /\ "run_server" \in Threads /\ erasing["run_client"] # None
        /\ erasing'["run_server"] = erasing["run_server"]
    BY <1>7 DEF ClientErases, Find, EraseAt, Forget, ThreadInv, Threads
  <2>3. client # None /\ client.msg.type = "USEREXIT" /\ erasing["run_client"].usr = client.msg.usr
    BY <2>2 DEF ThreadInv
  <2>4. \A u \in Users : ~BeingListed(u)
    BY <2>3 DEF BeingListed
  <2>5. CASE Find("run_client")
    <3>1. UNCHANGED <<storage, size, broadcast>>
      BY <2>5 DEF Find, listVars
    <3>2. InPlace'
      BY <1>2, <2>2, <2>5, FoundInPlace
    <3> QED BY <1>4, <2>1, <2>2, <2>4, <3>1, <3>2
  <2>6. CASE Forget("run_client")
    <3>1. UNCHANGED <<storage, size, broadcast>>
      BY <2>6 DEF Forget
    <3>2. InPlace'
      BY <1>2, <2>2, <2>6, ForgottenInPlace
    <3> QED BY <1>4, <2>1, <2>2, <2>4, <3>1, <3>2
  <2>7. CASE EraseAt("run_client")
    <3>1. size' = size - 1
      BY <2>2, <2>7, Erased
    <3>2. broadcast = None /\ ~Scans("run_server") /\ size' < size
      BY <1>1, <1>2, <3>1
    <3>3. \A s \in Threads : s # "run_client" => ~Scans(s)
      BY <3>2 DEF Threads
    <3>4. /\ InPlace'
          /\ \A s \in Threads : ~Scans(s)'
          /\ \A k \in 1 .. size :
                storage[k].usrid # erasing["run_client"].usr => \E l \in 1 .. size' : storage'[l] = storage[k]
      BY <1>2, <2>2, <2>7, <3>2, <3>3, ErasedInPlace
    <3>5. broadcast' = None
      BY <2>7, <3>2 DEF EraseAt
    <3>6. spoilt' = spoilt
      BY <1>3, <3>2
    <3>7. ASSUME NEW u \in Users, Good(u)' PROVE \E k \in 1 .. size' : At(u, k)'
      <4>1. Good(u)
        BY <1>2, <2>1, <2>4, <3>6, <3>7 DEF Good
      <4>2. loggedOn[client.msg.usr] = None
        BY <2>3 DEF LoginInv
      <4>3. PICK k \in 1 .. size : At(u, k)
        BY <1>1, <4>1 DEF ListedInv
      <4>4. storage[k].usrid = u /\ u # erasing["run_client"].usr
        BY <2>3, <4>1, <4>2, <4>3 DEF At, Good
      <4>5. PICK l \in 1 .. size' : storage'[l] = storage[k]
        BY <3>4, <4>4
      <4>6. At(u, l)'
        BY <1>2, <2>1, <2>2, <3>4, <3>5, <4>3, <4>5 DEF At
      <4> QED BY <4>6
    <3> QED BY <3>4, <3>7 DEF ListedInv
  <2> QED BY <1>7, <2>5, <2>6, <2>7 DEF ClientErases
<1> QED BY <1>5, <1>6, <1>7, ClientKinds

LEMMA ListedServer ==
    ASSUME NetInv, LoginInv, ThreadInv, ListInv, ListedInv, Kept, RunServer
    PROVE  ListedInv'
<1> SUFFICES ASSUME gate' = "runs", ~overlapped' PROVE ListedInv'
  BY DEF ListedInv
<1>1. /\ gate = "runs" /\ ~overlapped /\ UNCHANGED <<client, loggedOn>>
      /\ "run_server" \in Threads /\ "run_client" \in Threads
  BY ServerKinds DEF Threads
<1>2. InPlace /\ UNCHANGED <<peer, m_connections>> /\ size \in Nat /\ spoilt \subseteq spoilt'
  BY <1>1, RunThreads DEF ListedInv, wires, ListInv, RunServer
<1>3. \A u \in Users : Good(u)' => Good(u)
  BY <1>1, <1>2 DEF Good, BeingListed
<1>4. ASSUME UNCHANGED <<storage, size>>, InPlace',
             broadcast' # None => (broadcast # None /\ broadcast'.j = broadcast.j) \/ broadcast'.j = size + 1,
             \A u \in Users : Good(u)' /\ Scans("run_server")' /\ erasing'["run_server"].usr = u =>
                 /\ Scans("run_server") /\ erasing["run_server"].usr = u
                 /\ erasing'["run_server"].end = erasing["run_server"].end
      PROVE  ListedInv'
  BY <1>1, <1>3, <1>4, NotMoved
<1>5. ASSUME UNCHANGED <<erasing, storage, size, broadcast>>
      PROVE  ListedInv'
  <2>1. InPlace' /\ (Scans("run_server")' => Scans("run_server"))
    BY <1>2, <1>5 DEF InPlace, Scans
  <2> QED BY <1>4, <1>5, <2>1
<1>6. ASSUME NEW u \in Users, erasing["run_server"] = None,
             erasing' = [erasing EXCEPT !["run_server"] = EraseBegins(u)], UNCHANGED <<storage, size, broadcast>>
      PROVE  ListedInv'
  <2>1. InPlace'
    BY <1>1, <1>2, <1>6, StartedInPlace
  <2>2. erasing'["run_server"] = EraseBegins(u)
    BY <1>1, <1>6, EraseStarts
  <2>3. erasing'["run_server"] # None /\ erasing'["run_server"].usr = u
    <3>1. EraseBegins(u) \in Erasure /\ EraseBegins(u).usr = u
      BY <1>2 DEF EraseBegins, Erasure
    <3> QED BY <2>2, <3>1, GateAssumption
  <2>4. {loggedOn[u]} \ {None} \subseteq spoilt'
    BY <1>6, <2>3 DEF RunServer
  <2>5. \A w \in Users : Good(w)' => w # u
    BY <1>1, <2>4 DEF Good
  <2> QED BY <1>4, <1>6, <2>1, <2>3, <2>5
<1>7. ASSUME UNCHANGED <<erasing, storage, size>>, broadcast' = [i |-> 1, j |-> size + 1, fd |-> None]
      PROVE  ListedInv'
  <2>1. InPlace' /\ (Scans("run_server")' => Scans("run_server"))
    BY <1>2, <1>7 DEF InPlace, Scans
  <2>2. broadcast'.j = size + 1
    BY <1>7
  <2> QED BY <1>4, <1>7, <2>1, <2>2
<1>8. ASSUME NEW m, m.usr \in Users, ServerLogin(m) \/ ServerExit(m) \/ ServerSync(m) \/ ServerItem(m),
             erasing["run_server"] = None
      PROVE  ListedInv'
  <2>1. CASE ServerLogin(m) \/ ServerItem(m)
    BY <1>5, <2>1 DEF ServerLogin, ServerItem, listVars
  <2>2. CASE ServerExit(m)
    BY <1>6, <1>8, <2>2 DEF ServerExit, listVars
  <2>3. CASE ServerSync(m)
    BY <1>7, <2>3 DEF ServerSync
  <2> QED BY <1>8, <2>1, <2>2, <2>3
<1>9. CASE ItemWritten /\ server # None
  <2>1. server.usr \in Users /\ erasing["run_server"] = None
    BY <1>9 DEF ThreadInv, ServerWork, ItemWritten
  <2>2. UNCHANGED erasing \/ erasing' = [erasing EXCEPT !["run_server"] = EraseBegins(server.usr)]
    BY <1>9 DEF ItemWritten
  <2>3. UNCHANGED <<storage, size, broadcast>>
    BY <1>9 DEF ItemWritten
  <2> QED BY <1>5, <1>6, <2>1, <2>2, <2>3
<1>10. ASSUME ServerErases, broadcast = None, ~(size' < size /\ Scans("run_client"))
       PROVE  ListedInv'
  <2>1. /\ erasing["run_server"] # None /\ broadcast' = broadcast
        /\ erasing'["run_server"] # None =>
              /\ erasing'["run_server"].usr = erasing["run_server"].usr
              /\ erasing'["run_server"].end = erasing["run_server"].end
    BY <1>1, <1>10, EraseGoesOn DEF ServerErases
  <2>2. CASE Find("run_server")
    <3>1. UNCHANGED <<storage, size>> /\ Scans("run_server")
      BY <2>1, <2>2 DEF Find, listVars, Scans
    <3>2. InPlace'
      BY <1>1, <1>2, <2>2, FoundInPlace
    <3>3. Scans("run_server")' => erasing'["run_server"] # None
      BY DEF Scans
    <3> QED BY <1>4, <1>10, <2>1, <3>1, <3>2, <3>3
  <2>3. CASE Forget("run_server")
    <3>1. UNCHANGED <<storage, size>> /\ ~Scans("run_server")'
      BY <1>1, <2>3 DEF Forget, Scans, ThreadInv
    <3>2. InPlace'
      BY <1>1, <1>2, <2>3, ForgottenInPlace
    <3> QED BY <1>4, <1>10, <2>1, <3>1, <3>2
  <2>4. CASE EraseAt("run_server")
    <3>1. size' = size - 1
      BY <1>1, <2>4, Erased
    <3>2. ~Scans("run_client")
      BY <1>2, <1>10, <3>1
    <3>3. \A s \in Threads : s # "run_server" => ~Scans(s)
      BY <3>2 DEF Threads
    <3>4. /\ InPlace'
          /\ \A s \in Threads : ~Scans(s)'
          /\ \A k \in 1 .. size :
                storage[k].usrid # erasing["run_server"].usr \/ k >= erasing["run_server"].end =>
                   \E l \in 1 .. size' : storage'[l] = storage[k]
      BY <1>1, <1>2, <1>10, <2>4, <3>3, ErasedInPlace
    <3>5. Scans("run_server")
      BY <2>4 DEF Scans, EraseAt
    <3>6. ASSUME NEW u \in Users, Good(u)' PROVE \E k \in 1 .. size' : At(u, k)'
      <4>1. PICK k \in 1 .. size : At(u, k)
        BY <1>1, <1>3, <3>6 DEF ListedInv
      <4>2. storage[k].usrid # erasing["run_server"].usr \/ k >= erasing["run_server"].end
        BY <3>5, <4>1 DEF At
      <4>3. PICK l \in 1 .. size' : storage'[l] = storage[k]
        BY <3>4, <4>2
      <4>4. At(u, l)'
        BY <1>1, <1>2, <1>10, <2>1, <3>4, <4>1, <4>3 DEF At
      <4> QED BY <4>4
    <3> QED BY <3>4, <3>6 DEF ListedInv
  <2> QED BY <1>10, <2>2, <2>3, <2>4 DEF ServerErases
<1>11. CASE ExitSync
  BY <1>7, <1>11 DEF ExitSync
<1>12. ASSUME Walks, broadcast # None, erasing["run_server"] = None,
              ~(<<storage, size>>' # <<storage, size>> /\ Scans("run_client"))
       PROVE  ListedInv'
  <2>1. UNCHANGED erasing
    BY <1>12 DEF Walks
  <2>2. PICK i \in Nat, j \in Nat : i = broadcast.i /\ j = broadcast.j /\ 1 <= i /\ i <= j
                                    /\ (broadcast.fd # None => i < j) /\ broadcast.fd \in Fds \cup {None}
    BY <1>12 DEF ThreadInv
  <2>3. j <= size + 1 /\ (broadcast.fd # None => broadcast.fd = storage[i].fd)
    BY <1>2, <1>12, <2>2 DEF InPlace
  <2>4. ~Scans("run_server")' /\ ~Scans("run_server")
    BY <1>12, <2>1 DEF Scans
  <2>5. \A t \in Threads : Scans(t)' => t = "run_client" /\ Scans("run_client") /\ UNCHANGED <<storage, size>>
    BY <1>12, <2>1, <2>4 DEF Scans, Threads
  <2>6. \A t \in Threads : Scans(t)' =>
          /\ erasing'[t].end <= size' + 1
          /\ erasing'[t].at = "erase" => storage'[erasing'[t].iter].usrid = erasing'[t].usr
    BY <1>2, <2>1, <2>5 DEF InPlace
  <2>7. broadcast \in [i : Nat, j : Nat, fd : Fds \cup {None}]
    BY <1>12 DEF ThreadInv
  <2>8. CASE SendBegins
    <3>1. broadcast' = [broadcast EXCEPT !.fd = storage[i].fd] /\ UNCHANGED <<storage, size>>
      BY <2>2, <2>8 DEF SendBegins
    <3>2. broadcast'.j = j /\ broadcast'.i = i /\ broadcast'.fd = storage[i].fd
      BY <2>2, <2>7, <3>1
    <3>3. InPlace'
      BY <2>3, <2>6, <3>1, <3>2 DEF InPlace
    <3> QED BY <1>4, <1>12, <2>2, <2>4, <3>1, <3>2, <3>3
  <2>9. CASE SendEnds
    <3>1. PICK o \in WriteOutcomes(broadcast.fd) :
            /\ gate' = IF o = "killed" THEN "killed" ELSE gate
            /\ IF o = "failed"
                 THEN /\ storage' = [storage EXCEPT ![broadcast.i] = storage[broadcast.j - 1]]
                      /\ broadcast' = [broadcast EXCEPT !.j = @ - 1, !.fd = None]
                 ELSE broadcast' = [broadcast EXCEPT !.i = @ + 1, !.fd = None] /\ UNCHANGED storage
      BY <2>9 DEF SendEnds
    <3>2. size' = size /\ broadcast.fd \in Fds /\ i < j /\ broadcast.fd = storage[i].fd
      BY <2>2, <2>3, <2>9 DEF SendEnds
    <3>3. CASE o # "failed"
      <4>1. broadcast' = [broadcast EXCEPT !.i = @ + 1, !.fd = None] /\ UNCHANGED storage
        BY <3>1, <3>3
      <4>2. broadcast'.j = j /\ broadcast'.fd = None
        BY <2>2, <2>7, <4>1
      <4>3. InPlace'
        BY <2>3, <2>6, <3>2, <4>1, <4>2 DEF InPlace
      <4> QED BY <1>4, <1>12, <2>2, <2>4, <3>2, <4>1, <4>2, <4>3
    <3>4. CASE o = "failed"
      <4>1. storage' = [storage EXCEPT ![i] = storage[j - 1]] /\ broadcast' = [broadcast EXCEPT !.j = @ - 1, !.fd = None]
        BY <2>2, <3>1, <3>4
      <4>2. broadcast'.j = j - 1 /\ broadcast'.fd = None
        BY <2>2, <2>7, <4>1
      <4>3. InPlace'
        BY <1>2, <2>2, <2>3, <2>6, <3>2, <4>2 DEF InPlace
      <4>4. m_connections[broadcast.fd] = None \/ peer[m_connections[broadcast.fd]] # "open"
        BY <3>1, <3>2, <3>4, GateAssumption DEF WriteOutcomes
      <4>5. ASSUME NEW u \in Users, Good(u)' PROVE \E k \in 1 .. size' : At(u, k)'
        <5>1. PICK k \in 1 .. size : At(u, k)
          BY <1>1, <1>3, <4>5 DEF ListedInv
        <5>2. peer[loggedOn[u]] = "open" /\ loggedOn[u] # None
          BY <1>3, <4>5 DEF Good
        <5>3. storage[k].usrid = u /\ m_connections[storage[k].fd] = loggedOn[u] /\ k <= j - 1
          BY <1>12, <2>2, <5>1 DEF At
        <5>4. k # i
          BY <3>2, <4>4, <5>2, <5>3
        <5>5. \A l \in 1 .. size : l # i => storage'[l] = storage[l]
          BY <4>1 DEF ListInv
        <5>6. i \in DOMAIN storage
          BY <1>2, <2>2, <2>3, <3>2 DEF ListInv
        <5>7. storage'[i] = storage[j - 1]
          BY <4>1, <5>6
        <5>8. PICK l \in 1 .. size : l <= j - 2 /\ storage'[l] = storage[k]
          <6>1. CASE k = j - 1
            BY <1>2, <2>2, <2>3, <3>2, <5>3, <5>4, <5>7, <6>1
          <6>2. CASE k # j - 1
            BY <1>2, <2>2, <5>3, <5>4, <5>5, <6>2
          <6> QED BY <6>1, <6>2
        <5>9. At(u, l)'
          BY <1>1, <1>2, <2>2, <2>4, <4>2, <5>3, <5>8 DEF At
        <5> QED BY <3>2, <5>9
      <4> QED BY <4>3, <4>5 DEF ListedInv
    <3> QED BY <3>3, <3>4
  <2>10. CASE EndBroadcast
    <3>1. size' = j - 1 /\ broadcast' = None /\ UNCHANGED storage
      BY <2>2, <2>10 DEF EndBroadcast
    <3>2. InPlace'
      BY <2>6, <3>1 DEF InPlace
    <3>3. ASSUME NEW u \in Users, Good(u)' PROVE \E k \in 1 .. size' : At(u, k)'
      <4>1. PICK k \in 1 .. size : At(u, k)
        BY <1>1, <1>3, <3>3 DEF ListedInv
      <4>2. k \in 1 .. size'
        BY <1>2, <1>12, <2>2, <3>1, <4>1 DEF At
      <4>3. At(u, k)'
        BY <1>1, <1>2, <2>4, <3>1, <4>1 DEF At
      <4> QED BY <4>2, <4>3
    <3> QED BY <3>2, <3>3 DEF ListedInv
  <2> QED BY <1>12, <2>8, <2>9, <2>10 DEF Walks
<1>13. ASSUME NEW u \in Users, NEW type, Hears([type |-> type, usr |-> u]), erasing["run_server"] = None
       PROVE  ListedInv'
  BY <1>8, <1>13 DEF Hears
<1> QED BY <1>9, <1>10, <1>11, <1>12, <1>13, ServerKinds

LEMMA ListedStep ==
    ASSUME NetInv, QueueInv, LoginInv, ThreadInv, ListInv, ListedInv, Kept, [GatewayNext]_gatewayVars
    PROVE  ListedInv'
BY ListedNet, ListedClient, ListedServer, ThreeKinds

-----------------------------------------------------------------------------
(* Whom a walk reaches.                                                    *)

LEMMA ClientKeepsFront ==
    ASSUME QueueInv, ThreadInv, ListInv, RunClient
    PROVE  broadcast' = broadcast /\ (~(size' < size) => \A k \in 1 .. size : storage'[k] = storage[k])
                                  /\ (~(size' < size) => size <= size') /\ size \in Nat
<1>0. size \in Nat
  BY DEF ListInv
<1>1. CASE UNCHANGED <<storage, size, broadcast>>
  BY <1>0, <1>1
<1>2. CASE ClientListed
  <2>1. [usrid |-> client.msg.usr, fd |-> client.from] \in client_info
    BY <1>2 DEF ClientListed, QueueInv, Labelled, Published, SentMessage, client_info
  <2>2. PushBack([usrid |-> client.msg.usr, fd |-> client.from]) /\ UNCHANGED broadcast
    BY <1>2 DEF ClientListed
  <2>3. size' = size + 1 /\ \A k \in 1 .. size : storage'[k] = storage[k]
    BY <2>1, <2>2, Pushed
  <2> QED BY <1>0, <2>2, <2>3
<1>3. CASE EraseAt("run_client")
  <2>1. UNCHANGED broadcast /\ (gate' # "undefined" => size' = size - 1)
    BY <1>3, Erased DEF Threads
  <2>2. CASE gate' = "undefined"
    <3>1. UNCHANGED <<storage, size>> \/ UNCHANGED gate
      BY <1>3 DEF EraseAt
    <3>2. gate = "runs"
      BY ClientKinds
    <3> QED BY <1>0, <2>1, <2>2, <3>1, <3>2
  <2> QED BY <1>0, <2>1, <2>2
<1>4. CASE ClientErases /\ ~EraseAt("run_client")
  BY <1>1, <1>4 DEF ClientErases, Find, Forget, listVars
<1>5. ASSUME NEW q, ClientLogin(q) \/ ClientExit(q) \/ ClientForward(q)
      PROVE  UNCHANGED <<storage, size, broadcast>>
  BY <1>5 DEF ClientLogin, ClientExit, ClientForward, listVars
<1> QED BY <1>1, <1>2, <1>3, <1>4, <1>5, ClientKinds

LEMMA WalkClient ==
    ASSUME QueueInv, ThreadInv, ListInv, WalkInv, RunClient
    PROVE  WalkInv'
<1>1. UNCHANGED <<peer, m_connections>>
  BY RunThreads DEF wires
<1>2. todo' = IF size' < size THEN {} ELSE todo
  BY DEF RunClient
<1>3. CASE size' < size
  BY <1>2, <1>3 DEF WalkInv
<1>4. CASE ~(size' < size)
  <2>1. todo' = todo
    BY <1>2, <1>4
  <2>2. /\ broadcast' = broadcast /\ \A k \in 1 .. size : storage'[k] = storage[k]
        /\ size <= size' /\ size \in Nat
    BY <1>4, ClientKeepsFront
  <2>3. size' \in Nat
    BY ListClient DEF ListInv
  <2> SUFFICES ASSUME broadcast # None, todo # {}
               PROVE  /\ broadcast.j <= size' + 1
                      /\ broadcast.fd # None => broadcast.fd = storage'[broadcast.i].fd
                      /\ \A c \in todo : peer[c] = "open" =>
                            \E k \in broadcast.i .. broadcast.j - 1 : m_connections[storage'[k].fd] = c
    BY <1>1, <2>1, <2>2 DEF WalkInv
  <2>4. PICK i \in Nat, j \in Nat :
          i = broadcast.i /\ j = broadcast.j /\ 1 <= i /\ (broadcast.fd # None => i < j)
    BY DEF ThreadInv
  <2>5. /\ j <= size + 1 /\ (broadcast.fd # None => broadcast.fd = storage[i].fd)
        /\ \A c \in todo : peer[c] = "open" => \E k \in i .. j - 1 : m_connections[storage[k].fd] = c
    BY <2>4 DEF WalkInv
  <2>6. \A k \in i .. j - 1 : storage'[k] = storage[k]
    BY <2>2, <2>4, <2>5
  <2>7. broadcast.fd # None => storage'[i] = storage[i]
    BY <2>4, <2>6
  <2>8. j <= size' + 1
    <3>1. PICK n \in Nat : n = size'
      BY <2>3
    <3>2. PICK m \in Nat : m = size
      BY <2>2
    <3>3. m <= n
      BY <2>2, <3>1, <3>2
    <3>4. j <= m + 1
      BY <2>5, <3>2
    <3>5. j <= n + 1
      BY <3>3, <3>4
    <3> QED BY <3>1, <3>5
  <2> QED BY <2>4, <2>5, <2>6, <2>7, <2>8
<1> QED BY <1>3, <1>4

LEMMA WalkServer ==
    ASSUME NetInv, ThreadInv, ListInv, WalkInv, RunServer
    PROVE  WalkInv'
<1>1. UNCHANGED <<peer, m_connections>> /\ gate = "runs"
  BY RunThreads, ServerKinds DEF wires
<1>2. todo' = IF broadcast = None THEN (IF broadcast' = None THEN {} ELSE InList)
              ELSE IF broadcast' = None THEN {}
              ELSE IF broadcast'.fd # None THEN todo
              ELSE todo \ {m_connections[broadcast.fd]}
  BY DEF RunServer
<1>3. CASE todo' = {}
  BY <1>3 DEF WalkInv
<1>4. CASE broadcast = None /\ broadcast' # None
  <2>1. broadcast' = [i |-> 1, j |-> size + 1, fd |-> None] /\ UNCHANGED <<storage, size>>
    <3>1. ASSUME NEW u, NEW type, Hears([type |-> type, usr |-> u])
          PROVE  broadcast' = [i |-> 1, j |-> size + 1, fd |-> None] /\ UNCHANGED <<storage, size>>
      BY <1>4, <3>1 DEF Hears, ServerLogin, ServerExit, ServerSync, ServerItem, listVars
    <3>2. CASE ItemWritten \/ ServerErases \/ ExitSync
      BY <1>4, <3>2 DEF ItemWritten, ServerErases, ExitSync, Find, EraseAt, Forget, listVars
    <3> QED BY <1>4, <3>1, <3>2, ServerKinds
  <2>2. todo' = InList
    BY <1>2, <1>4
  <2>3. \A c \in InList : c \in Conns /\ peer[c] = "open" /\ \E k \in 1 .. size : m_connections[storage[k].fd] = c
    BY DEF InList
  <2>4. broadcast'.i = 1 /\ broadcast'.j = size + 1 /\ broadcast'.fd = None /\ size \in Nat
    BY <2>1 DEF ListInv
  <2>5. \A c \in InList : \E k \in 1 .. (size + 1) - 1 : m_connections[storage[k].fd] = c
    BY <2>3, <2>4
  <2> QED BY <1>1, <2>1, <2>2, <2>3, <2>4, <2>5 DEF WalkInv
<1>5. CASE broadcast # None /\ broadcast' # None /\ todo' # {}
  <2>1. Walks
    BY <1>5, ServerKinds
  <2>2. PICK i \in Nat, j \in Nat :
          i = broadcast.i /\ j = broadcast.j /\ 1 <= i /\ i <= j /\ (broadcast.fd # None => i < j)
    BY <1>5 DEF ThreadInv
  <2>3. broadcast \in [i : Nat, j : Nat, fd : Fds \cup {None}] /\ size \in Nat /\ Len(storage) \in Nat
        /\ size <= Len(storage) /\ storage \in Seq(client_info \cup {None})
    BY <1>5 DEF ThreadInv, ListInv
  <2>4. todo # {} /\ todo' \subseteq todo
    BY <1>2, <1>5
  <2>5. /\ j <= size + 1 /\ (broadcast.fd # None => broadcast.fd = storage[i].fd)
        /\ \A c \in todo : peer[c] = "open" => \E k \in i .. j - 1 : m_connections[storage[k].fd] = c
    BY <1>5, <2>2, <2>4 DEF WalkInv
  <2>6. todo' \subseteq Conns /\ \A c \in todo' : peer'[c] # "new"
    BY <1>1, <2>4 DEF WalkInv
  <2>7. CASE SendBegins
    <3>1. broadcast' = [broadcast EXCEPT !.fd = storage[i].fd] /\ UNCHANGED <<storage, size>>
      BY <2>2, <2>7 DEF SendBegins
    <3>2. broadcast'.i = i /\ broadcast'.j = j /\ broadcast'.fd = storage[i].fd
      BY <2>2, <2>3, <3>1
    <3> QED BY <1>1, <2>4, <2>5, <2>6, <3>1, <3>2 DEF WalkInv
  <2>8. CASE SendEnds
    <3>1. broadcast.fd # None /\ i < j /\ broadcast.fd = storage[i].fd /\ size' = size
      BY <2>2, <2>5, <2>8 DEF SendEnds
    <3>2. \/ broadcast' = [broadcast EXCEPT !.i = @ + 1, !.fd = None] /\ UNCHANGED storage
          \/ /\ storage' = [storage EXCEPT ![i] = storage[j - 1]]
             /\ broadcast' = [broadcast EXCEPT !.j = @ - 1, !.fd = None]
      BY <2>2, <2>8 DEF SendEnds
    <3>3. broadcast'.fd = None
      BY <2>3, <3>2
    <3>4. todo' = todo \ {m_connections[storage[i].fd]}
      BY <1>2, <1>5, <3>1, <3>3
    <3>5. ASSUME NEW c \in todo', peer[c] = "open"
          PROVE  \E k \in i .. j - 1 : k # i /\ m_connections[storage[k].fd] = c
      <4>1. PICK k \in i .. j - 1 : m_connections[storage[k].fd] = c
        BY <2>4, <2>5, <3>5
      <4>2. k # i
        BY <3>4, <3>5, <4>1
      <4> QED BY <4>1, <4>2
    <3>6. CASE broadcast' = [broadcast EXCEPT !.i = @ + 1, !.fd = None] /\ UNCHANGED storage
      <4>1. broadcast'.i = i + 1 /\ broadcast'.j = j
        BY <2>2, <2>3, <3>6
      <4>2. \A k \in i .. j - 1 : k # i => k \in i + 1 .. j - 1
        BY <2>2
      <4>3. \A c \in todo' : peer'[c] = "open" =>
              \E k \in broadcast'.i .. broadcast'.j - 1 : m_connections'[storage'[k].fd] = c
        BY <1>1, <3>5, <3>6, <4>1, <4>2
      <4> QED BY <2>5, <2>6, <3>1, <3>3, <4>1, <4>3 DEF WalkInv
    <3>7. CASE /\ storage' = [storage EXCEPT ![i] = storage[j - 1]]
               /\ broadcast' = [broadcast EXCEPT !.j = @ - 1, !.fd = None]
      <4>1. broadcast'.i = i /\ broadcast'.j = j - 1
        BY <2>2, <2>3, <3>7
      <4>2. i \in 1 .. Len(storage)
        BY <2>2, <2>3, <2>5, <3>1
      <4>3. storage'[i] = storage[j - 1] /\ \A k \in 1 .. Len(storage) : k # i => storage'[k] = storage[k]
        BY <2>3, <3>7, <4>2
      <4>4. ASSUME NEW c \in todo', peer'[c] = "open"
            PROVE  \E k \in i .. (j - 1) - 1 : m_connections'[storage'[k].fd] = c
        <5>1. PICK k \in i .. j - 1 : k # i /\ m_connections[storage[k].fd] = c
          BY <1>1, <3>5, <4>4
        <5>2. PICK l \in i .. (j - 1) - 1 : storage'[l] = storage[k]
          <6>1. CASE k = j - 1
            BY <2>2, <4>3, <5>1, <6>1
          <6>2. CASE k # j - 1
            <7>1. k \in 1 .. Len(storage) /\ k \in i .. (j - 1) - 1
              BY <2>2, <2>3, <2>5, <6>2
            <7>2. storage'[k] = storage[k]
              BY <4>3, <5>1, <7>1
            <7> QED BY <7>1, <7>2
          <6> QED BY <6>1, <6>2
        <5> QED BY <1>1, <5>1, <5>2
      <4>5. j - 1 <= size' + 1
        BY <2>2, <2>3, <2>5, <3>1
      <4> QED BY <2>6, <3>3, <4>1, <4>4, <4>5 DEF WalkInv
    <3> QED BY <3>2, <3>6, <3>7
  <2>9. ~EndBroadcast
    BY <1>5 DEF EndBroadcast
  <2> QED BY <2>1, <2>7, <2>8, <2>9 DEF Walks
<1> QED BY <1>2, <1>3, <1>4, <1>5

LEMMA WalkStep ==
    ASSUME NetInv, QueueInv, ThreadInv, ListInv, WalkInv, Kept, [GatewayNext]_gatewayVars
    PROVE  WalkInv'
<1>1. CASE UNCHANGED listState
  <2>1. UNCHANGED <<todo, broadcast, storage, size>>
    BY <1>1 DEF listState, listVars
  <2>2. todo \subseteq Conns /\ \A c \in todo : peer[c] # "new"
    BY DEF WalkInv
  <2>3. \A c \in todo : peer'[c] # "new" /\ (peer'[c] = "open" => peer[c] = "open")
    BY <2>2 DEF Kept
  <2>4. ASSUME broadcast # None, todo # {}, NEW c \in todo, peer'[c] = "open"
        PROVE  \E k \in broadcast.i .. broadcast.j - 1 : m_connections'[storage[k].fd] = c
    <3>1. PICK i \in Nat, j \in Nat : i = broadcast.i /\ j = broadcast.j /\ 1 <= i
      BY <2>4 DEF ThreadInv
    <3>2. j <= size + 1 /\ size \in Nat
      BY <2>4, <3>1 DEF WalkInv, ListInv
    <3>3. PICK k \in i .. j - 1 : m_connections[storage[k].fd] = c
      BY <2>3, <2>4, <3>1 DEF WalkInv
    <3>4. storage[k].fd \in Fds
      BY <3>1, <3>2 DEF ListInv, client_info
    <3>5. m_connections'[storage[k].fd] = c
      BY <2>2, <2>3, <2>4, <3>3, <3>4 DEF Kept
    <3> QED BY <3>1, <3>5
  <2>5. broadcast # None /\ todo # {} =>
          broadcast.j <= size + 1 /\ (broadcast.fd # None => broadcast.fd = storage[broadcast.i].fd)
    BY DEF WalkInv
  <2> QED BY <2>1, <2>2, <2>3, <2>4, <2>5 DEF WalkInv
<1> QED BY <1>1, WalkClient, WalkServer, ThreeKinds

-----------------------------------------------------------------------------
(* What was sent and what was taken.                                       *)

LEMMA AccountKept ==
    ASSUME NumbersInv, NEW c \in Conns,
           handled'[c] = handled[c], Queued(c)' = Queued(c), wire'[c] = wire[c], sent'[c] = sent[c],
           peer'[c] = "open" => peer[c] = "open"
    PROVE  \E n \in 0 .. sent'[c] : Account(c, n)'
<1>1. PICK n \in 0 .. sent[c] : Account(c, n)
  BY DEF NumbersInv
<1>2. Account(c, n)'
  BY <1>1 DEF Account
<1> QED BY <1>1, <1>2

LEMMA NumbersKept ==
    ASSUME NumbersInv, UNCHANGED <<peer, wire, sent, g_client_queue, handled>>
    PROVE  NumbersInv'
<1>1. \A c \in Conns : Queued(c)' = Queued(c)
  BY DEF Queued
<1>2. \A c \in Conns : \E n \in 0 .. sent'[c] : Account(c, n)'
  BY <1>1, AccountKept
<1> QED BY <1>2 DEF NumbersInv

LEMMA NumbersConnect ==
    ASSUME NetInv, NumbersInv, NEW c \in Conns, ClientConnects(c)
    PROVE  NumbersInv'
<1> DEFINE a == [msg |-> [type |-> "USERLOGIN", usr |-> UserOf[c], n |-> 1], whole |-> TRUE]
<1>1. /\ peer[c] = "new" /\ peer' = [peer EXCEPT ![c] = "open"]
      /\ wire' = [wire EXCEPT ![c] = <<a>>] /\ sent' = [sent EXCEPT ![c] = 1]
      /\ UNCHANGED <<g_client_queue, handled>>
  BY DEF ClientConnects, Accept, behindNet
<1>2. a.msg.n = 1
  OBVIOUS
<1> HIDE DEF a
<1>3. \A d \in Conns : Queued(d)' = Queued(d)
  BY <1>1 DEF Queued
<1>4. ASSUME NEW d \in Conns PROVE \E n \in 0 .. sent'[d] : Account(d, n)'
  <2>1. CASE d # c
    BY <1>1, <1>3, <2>1, AccountKept DEF NetInv
  <2>2. CASE d = c
    <3>1. PICK n \in 0 .. sent[c] : Account(c, n)
      BY DEF NumbersInv
    <3>2. sent[c] = 0 /\ n = 0
      BY <1>1, <3>1 DEF NumbersInv
    <3>3. wire'[c] = <<a>> /\ sent'[c] = 1 /\ peer'[c] = "open"
      BY <1>1 DEF NetInv
    <3>4. /\ \A k \in DOMAIN wire'[c] : wire'[c][k].msg.n = 0 + k
          /\ 0 + Len(wire'[c]) = sent'[c]
      BY <1>2, <3>3
    <3>5. handled'[c] \cup Queued(c)' = 1 .. 0 /\ handled'[c] \cap Queued(c)' = {}
      BY <1>1, <1>3, <3>1, <3>2 DEF Account
    <3>6. Account(c, 0)'
      BY <3>4, <3>5 DEF Account
    <3> QED BY <2>2, <3>3, <3>6
  <2> QED BY <2>1, <2>2
<1> QED BY <1>1, <1>4 DEF NumbersInv, NetInv

LEMMA NumbersSent ==
    ASSUME NetInv, NumbersInv, NEW c \in Conns, NEW m \in SentMessage, NEW whole \in BOOLEAN,
           m.n = sent[c] + 1, Sends(c, m, whole), sent' = [sent EXCEPT ![c] = @ + 1],
           UNCHANGED <<g_client_queue, handled>>
    PROVE  NumbersInv'
<1> DEFINE a == [msg |-> m, whole |-> whole]
<1>1. peer[c] = "open" /\ peer' = peer /\ wire' = [wire EXCEPT ![c] = Append(wire[c], a)]
  BY DEF Sends, NetInv
<1>2. wire[c] \in Seq(Arrivals) /\ a \in Arrivals /\ a.msg.n = sent[c] + 1
  BY DEF NetInv, Arrivals
<1> HIDE DEF a
<1>3. \A d \in Conns : Queued(d)' = Queued(d)
  BY DEF Queued
<1>4. ASSUME NEW d \in Conns PROVE \E n \in 0 .. sent'[d] : Account(d, n)'
  <2>1. CASE d # c
    BY <1>1, <1>3, <2>1, AccountKept DEF NetInv
  <2>2. CASE d = c
    <3>1. PICK n \in 0 .. sent[c] : Account(c, n)
      BY DEF NumbersInv
    <3>2. sent[c] \in Nat /\ n \in Nat /\ sent'[c] = sent[c] + 1
      BY <3>1 DEF NetInv
    <3>3. wire'[c] = Append(wire[c], a)
      BY <1>1 DEF NetInv
    <3>4. n + Len(wire[c]) = sent[c] /\ \A k \in 1 .. Len(wire[c]) : wire[c][k].msg.n = n + k
      BY <1>1, <1>2, <3>1 DEF Account
    <3>5. /\ Len(wire'[c]) = Len(wire[c]) + 1 /\ DOMAIN wire'[c] = 1 .. Len(wire[c]) + 1
          /\ wire'[c][Len(wire[c]) + 1] = a
          /\ \A k \in 1 .. Len(wire[c]) : wire'[c][k] = wire[c][k]
      BY <1>2, <3>3
    <3>6. Len(wire[c]) \in Nat
      BY <1>2
    <3>7. ASSUME NEW k \in DOMAIN wire'[c] PROVE wire'[c][k].msg.n = n + k
      <4>1. CASE k \in 1 .. Len(wire[c])
        BY <3>4, <3>5, <4>1
      <4>2. CASE k = Len(wire[c]) + 1
        <5>1. wire'[c][k].msg.n = sent[c] + 1
          BY <1>2, <3>5, <4>2
        <5> QED BY <3>2, <3>4, <3>6, <4>2, <5>1
      <4> QED BY <3>5, <3>6, <3>7, <4>1, <4>2
    <3>8. n + Len(wire'[c]) = sent'[c]
      BY <3>2, <3>4, <3>5, <3>6
    <3>9. handled'[c] \cup Queued(c)' = 1 .. n /\ handled'[c] \cap Queued(c)' = {}
      BY <1>3, <3>1 DEF Account
    <3>10. Account(c, n)'
      BY <3>7, <3>8, <3>9 DEF Account
    <3> QED BY <2>2, <3>1, <3>2, <3>10
  <2> QED BY <2>1, <2>2
<1> QED BY <1>1, <1>4 DEF NumbersInv, NetInv

LEMMA NumbersRest ==
    ASSUME NetInv, NumbersInv, NEW c \in Conns, SendsRest(c), UNCHANGED <<sent, g_client_queue, handled>>
    PROVE  NumbersInv'
<1> DEFINE w == wire[c]
           last == [w[Len(w)] EXCEPT !.whole = TRUE]
           w2 == [w EXCEPT ![Len(w)] = last]
<1>1. w \in Seq(Arrivals)
  BY DEF NetInv
<1>2. PICK k \in DOMAIN w : ~w[k].whole
  BY DEF SendsRest, SentWhole
<1>3. Len(w) \in 1 .. Len(w) /\ Len(w) \in Nat
  BY <1>1, <1>2
<1>4. w[Len(w)] \in Arrivals
  BY <1>1, <1>3
<1>5. last.msg = w[Len(w)].msg
  BY <1>4 DEF Arrivals
<1>6. wire' = [wire EXCEPT ![c] = w2] /\ UNCHANGED peer
  BY DEF SendsRest, NetInv
<1>7. /\ Len(w2) = Len(w) /\ DOMAIN w2 = DOMAIN w /\ w # <<>>
      /\ \A i \in DOMAIN w : w2[i].msg = w[i].msg
  <2> HIDE DEF w, last
  <2> QED BY <1>1, <1>3, <1>5
<1>8. wire'[c] = w2
  BY <1>6 DEF NetInv
<1>9. \A d \in Conns : Queued(d)' = Queued(d)
  BY DEF Queued
<1> HIDE DEF w2
<1>10. ASSUME NEW d \in Conns PROVE \E n \in 0 .. sent'[d] : Account(d, n)'
  <2>1. CASE d # c
    BY <1>6, <1>9, <2>1, AccountKept DEF NetInv
  <2>2. CASE d = c
    <3>1. PICK n \in 0 .. sent[c] : Account(c, n)
      BY DEF NumbersInv
    <3>2. /\ handled[c] \cup Queued(c) = 1 .. n /\ handled[c] \cap Queued(c) = {}
          /\ \A i \in DOMAIN w : w[i].msg.n = n + i
          /\ n + Len(w) = sent[c]
      BY <1>7, <3>1 DEF Account
    <3>3. Account(c, n)'
      BY <1>7, <1>8, <1>9, <3>2 DEF Account
    <3> QED BY <2>2, <3>1, <3>3
  <2> QED BY <2>1, <2>2
<1> QED BY <1>6, <1>10 DEF NumbersInv, NetInv

LEMMA NumbersReceived ==
    ASSUME NetInv, QueueInv, NumbersInv, NEW fd \in Fds, Receive(fd), UNCHANGED <<sent, handled>>
    PROVE  NumbersInv'
<1>0. PICK c \in Conns : c = m_connections[fd]
  BY DEF Receive, NetInv
<1>1. PICK q :
        /\ q = [msg |-> Head(wire[c]).msg, from |-> fd, conn |-> c]
        /\ wire[c] # <<>> /\ wire[c] \in Seq(Arrivals)
        /\ g_client_queue' = g_client_queue \cup {q} /\ peer' = peer
        /\ wire' = [wire EXCEPT ![c] = Tail(wire[c])]
  BY <1>0 DEF Receive, NetInv
<1>2. q.conn = c /\ q.msg = wire[c][1].msg
  BY <1>1
<1>3. \A d \in Conns : Queued(d)' = Queued(d) \cup (IF d = c THEN {q.msg.n} ELSE {})
  <2>1. g_client_queue' = g_client_queue \cup {q}
    BY <1>1
  <2> QED BY <1>2, <2>1 DEF Queued
<1>4. PICK n \in 0 .. sent[c] : Account(c, n)
  BY <1>1 DEF NumbersInv
<1>5. PICK len \in Nat : len = Len(wire[c])
  BY <1>1
<1>6. sent[c] \in Nat /\ n \in Nat /\ len >= 1 /\ n + len = sent[c]
  BY <1>1, <1>4, <1>5 DEF NetInv, Account
<1>7. \A k \in 1 .. len : wire[c][k].msg.n = n + k
  BY <1>1, <1>4, <1>5 DEF Account
<1>8. q.msg.n = n + 1
  BY <1>2, <1>6, <1>7
<1>9. handled[c] \cup Queued(c) = 1 .. n /\ handled[c] \cap Queued(c) = {}
  BY <1>4 DEF Account
<1>10. \A p \in g_client_queue : p.conn = c => p.msg.n \in 1 .. n
  BY <1>9 DEF Queued
<1>11. \A p, r \in g_client_queue' : p.conn = r.conn /\ p.msg.n = r.msg.n => p = r
  <2>1. \A p \in g_client_queue : p.conn = c => p.msg.n # n + 1
    BY <1>6, <1>10
  <2> QED BY <1>1, <1>2, <1>8, <2>1 DEF NumbersInv
<1>12. Account(c, n + 1)'
  <2>1. wire'[c] = Tail(wire[c])
    BY <1>1 DEF NetInv
  <2>2. Len(wire'[c]) = len - 1 /\ DOMAIN wire'[c] = 1 .. len - 1 /\ \A k \in 1 .. len - 1 : wire'[c][k] = wire[c][k + 1]
    <3>1. PICK w \in Seq(Arrivals) : w = wire[c] /\ w # <<>> /\ len = Len(w)
      BY <1>1, <1>5
    <3>2. Tail(w) \in Seq(Arrivals) /\ Len(Tail(w)) = len - 1
      BY <3>1
    <3>3. \A k \in 1 .. len - 1 : Tail(w)[k] = w[k + 1]
      BY <3>1
    <3> QED BY <2>1, <3>1, <3>2, <3>3
  <2>3. \A k \in DOMAIN wire'[c] : wire'[c][k].msg.n = (n + 1) + k
    <3> SUFFICES ASSUME NEW k \in 1 .. len - 1 PROVE wire'[c][k].msg.n = (n + 1) + k
      BY <2>2
    <3>1. k + 1 \in 1 .. len
      BY <1>6
    <3>2. wire[c][k + 1].msg.n = n + (k + 1)
      BY <1>7, <3>1
    <3> QED BY <1>6, <2>2, <3>2
  <2>4. (n + 1) + Len(wire'[c]) = sent'[c]
    BY <1>6, <2>2
  <2>5. handled'[c] \cup Queued(c)' = 1 .. n + 1
    BY <1>1, <1>3, <1>6, <1>8, <1>9
  <2>6. handled'[c] \cap Queued(c)' = {}
    <3>1. n + 1 \notin handled[c]
      BY <1>6, <1>9
    <3> QED BY <1>1, <1>3, <1>8, <1>9, <3>1
  <2> QED BY <2>3, <2>4, <2>5, <2>6 DEF Account
<1>13. ASSUME NEW d \in Conns PROVE \E i \in 0 .. sent'[d] : Account(d, i)'
  <2>1. CASE d # c
    BY <1>1, <1>3, <2>1, AccountKept DEF NetInv
  <2>2. CASE d = c
    <3>1. n + 1 \in 0 .. sent'[c]
      BY <1>6
    <3> QED BY <1>12, <2>2, <3>1
  <2> QED BY <2>1, <2>2
<1> QED BY <1>1, <1>11, <1>13 DEF NumbersInv

LEMMA NumbersTaken ==
    ASSUME NetInv, NumbersInv, RunClient, NEW q \in g_client_queue, g_client_queue' = g_client_queue \ {q}
    PROVE  NumbersInv'
<1>1. UNCHANGED <<peer, wire, sent>>
  BY RunThreads DEF wires
<1>2. handled' = [c \in Conns |-> handled[c] \cup (IF q.conn = c THEN {q.msg.n} ELSE {})]
  BY TakenOne
<1>3. \A p, r \in g_client_queue : p.conn = r.conn /\ p.msg.n = r.msg.n => p = r
  BY DEF NumbersInv
<1>4. \A c \in Conns : Queued(c)' = Queued(c) \ (IF q.conn = c THEN {q.msg.n} ELSE {})
  BY <1>3 DEF Queued
<1>5. \A c \in Conns : q.conn = c => q.msg.n \in Queued(c)
  BY DEF Queued
<1>6. ASSUME NEW c \in Conns PROVE \E n \in 0 .. sent'[c] : Account(c, n)'
  <2>1. PICK n \in 0 .. sent[c] : Account(c, n)
    BY DEF NumbersInv
  <2>2. handled[c] \cup Queued(c) = 1 .. n /\ handled[c] \cap Queued(c) = {}
    BY <2>1 DEF Account
  <2>3. handled'[c] = handled[c] \cup (IF q.conn = c THEN {q.msg.n} ELSE {})
    BY <1>2
  <2>4. handled'[c] \cup Queued(c)' = handled[c] \cup Queued(c) /\ handled'[c] \cap Queued(c)' = {}
    BY <1>4, <1>5, <2>2, <2>3
  <2>5. Account(c, n)'
    BY <1>1, <2>1, <2>2, <2>4 DEF Account
  <2> QED BY <1>1, <2>1, <2>5
<1> QED BY <1>1, <1>2, <1>3, <1>6 DEF NumbersInv

LEMMA NumbersStep ==
    ASSUME NetInv, QueueInv, NumbersInv, [GatewayNext]_gatewayVars
    PROVE  NumbersInv'
<1>1. CASE ClientSteps
  <2>1. ASSUME NEW c \in Conns, ClientGoesOn(c) PROVE NumbersInv'
    <3>1. UNCHANGED <<sent, g_client_queue, handled>>
      BY <2>1 DEF ClientGoesOn, behindNet
    <3>2. CASE Leaves(c)
      <4>1. \A d \in Conns : Queued(d)' = Queued(d) /\ (peer'[d] = "open" => peer[d] = "open")
        BY <3>1, <3>2 DEF Queued, Leaves, NetInv
      <4>2. UNCHANGED wire /\ \A d \in Conns : peer'[d] = "new" => peer[d] = "new"
        BY <3>2 DEF Leaves, NetInv
      <4>3. \A d \in Conns : \E n \in 0 .. sent'[d] : Account(d, n)'
        BY <3>1, <4>1, <4>2, AccountKept
      <4> QED BY <3>1, <4>2, <4>3 DEF NumbersInv
    <3>3. CASE TurnsDeaf(c)
      BY <3>1, <3>3, NumbersKept DEF TurnsDeaf
    <3> QED BY <2>1, <3>1, <3>2, <3>3, NumbersRest DEF ClientGoesOn
  <2>2. ASSUME NEW c \in Conns, NEW type \in {"USEREXIT", "USERUP", "ITEMEVENT"}, NEW whole \in BOOLEAN,
               ClientSends(c, type, whole)
        PROVE  NumbersInv'
    <3>1. PICK m : m = [type |-> type, usr |-> UserOf[c], n |-> sent[c] + 1]
      OBVIOUS
    <3>2. m \in SentMessage /\ m.n = sent[c] + 1
      BY <3>1, GatewayAssumption DEF SentMessage, NetInv
    <3>3. Sends(c, m, whole)
      BY <2>2, <3>1 DEF ClientSends
    <3> QED BY <2>2, <3>2, <3>3, NumbersSent DEF ClientSends, behindNet
  <2> QED BY <1>1, <2>1, <2>2, NumbersConnect DEF ClientSteps
<1>2. CASE ProductMsg
  <2>1. UNCHANGED <<sent, handled>>
    BY <1>2 DEF ProductMsg, history
  <2>2. ASSUME NEW fd \in Fds, Erase(fd) PROVE NumbersInv'
    <3>1. PICK c \in Conns : /\ peer[c] = "gone" /\ UNCHANGED <<peer, g_client_queue>>
                             /\ wire' = [wire EXCEPT ![c] = <<>>]
      BY <2>2 DEF Erase, NetInv
    <3>2. \A d \in Conns : Queued(d)' = Queued(d)
      BY <3>1 DEF Queued
    <3>3. ASSUME NEW d \in Conns PROVE \E n \in 0 .. sent'[d] : Account(d, n)'
      <4>1. CASE d # c
        BY <2>1, <3>1, <3>2, <4>1, AccountKept DEF NetInv
      <4>2. CASE d = c
        <5>1. PICK n \in 0 .. sent[c] : Account(c, n)
          BY DEF NumbersInv
        <5>2. wire'[c] = <<>> /\ peer'[c] = "gone"
          BY <3>1 DEF NetInv
        <5>3. Account(c, n)'
          BY <2>1, <3>2, <5>1, <5>2 DEF Account
        <5> QED BY <2>1, <4>2, <5>1, <5>3
      <4> QED BY <4>1, <4>2
    <3> QED BY <2>1, <3>1, <3>3 DEF NumbersInv
  <2>3. ASSUME NEW fd \in Fds, Report(fd) PROVE NumbersInv'
    BY <2>1, <2>3, NumbersKept DEF Report
  <2>4. CASE Drained
    BY <2>1, <2>4, NumbersKept DEF Drained
  <2> QED BY <1>2, <2>1, <2>2, <2>3, <2>4, NumbersReceived DEF ProductMsg, product_msg
<1>3. CASE RunClient
  <2>1. CASE UNCHANGED g_client_queue
    <3>1. handled' = handled
      BY <1>3, <2>1, TakenNone DEF NumbersInv
    <3> QED BY <1>3, <2>1, <3>1, NumbersKept, RunThreads DEF wires
  <2> QED BY <1>3, <2>1, NumbersTaken, ClientKinds
<1>4. CASE RunServer
  <2>1. UNCHANGED <<g_client_queue, handled>>
    BY <1>4 DEF RunServer, RunServerHears, RunServerErases, RunServerWalks
  <2> QED BY <1>4, <2>1, NumbersKept, RunThreads DEF wires
<1>5. CASE UNCHANGED gatewayVars
  BY <1>5, NumbersKept DEF gatewayVars, gateVars, wires, history
<1> QED BY <1>1, <1>2, <1>3, <1>4, <1>5 DEF GatewayNext

-----------------------------------------------------------------------------
(* The theorems.                                                           *)

LEMMA Step == ASSUME IInv, [GatewayNext]_gatewayVars PROVE IInv'
<1>1. NetInv' /\ Kept
  BY NetStep DEF IInv
<1>2. QueueInv'
  BY <1>1, QueueStep DEF IInv
<1>3. SlotsInv'
  BY SlotsStep DEF IInv
<1>4. LoginInv'
  BY <1>1, LoginStep DEF IInv
<1>5. ThreadInv'
  BY ThreadStep DEF IInv
<1>6. ListInv'
  BY ListStep DEF IInv
<1>7. ListedInv'
  BY <1>1, ListedStep DEF IInv
<1>8. WalkInv'
  BY <1>1, WalkStep DEF IInv
<1>9. NumbersInv'
  BY NumbersStep DEF IInv
<1> QED BY <1>1, <1>2, <1>3, <1>4, <1>5, <1>6, <1>7, <1>8, <1>9 DEF IInv

\* The inductive invariant, for any users, connections, descriptors and bounds.
THEOREM Invariance == GatewaySpec => []IInv
<1>1. IInv /\ [GatewayNext]_gatewayVars => IInv'
  BY Step
<1> QED BY Initially, <1>1, PTL DEF GatewaySpec

\* GateTypeOK: no two descriptors have a connection, there is a slot for every message, and what
\* product_msg, the walk and the list refer to is there.
THEOREM GateTypes == GatewaySpec => []GateTypeOK
<1>1. ASSUME IInv PROVE GateTypeOK
  <2>1. broadcast # None =>
          /\ 1 <= broadcast.i /\ broadcast.i <= broadcast.j /\ broadcast.j <= Len(storage) + 1
          /\ gate = "runs" => \A k \in broadcast.i .. broadcast.j - 1 : storage[k] \in client_info
    <3> SUFFICES ASSUME broadcast # None
                 PROVE  /\ 1 <= broadcast.i /\ broadcast.i <= broadcast.j /\ broadcast.j <= Len(storage) + 1
                        /\ gate = "runs" => \A k \in broadcast.i .. broadcast.j - 1 : storage[k] \in client_info
      OBVIOUS
    <3>1. PICK i \in Nat, j \in Nat :
            i = broadcast.i /\ j = broadcast.j /\ 1 <= i /\ i <= j /\ j <= Len(storage) + 1
      BY <1>1 DEF IInv, ThreadInv
    <3>2. gate = "runs" => \A k \in 1 .. j - 1 : storage[k] \in client_info
      BY <1>1, <3>1 DEF IInv, ListInv
    <3>3. \A k \in i .. j - 1 : k \in 1 .. j - 1
      BY <3>1
    <3> QED BY <3>1, <3>2, <3>3
  <2>2. m_usrfd \in [Users -> Fds \cup {0, None}]
    BY <1>1 DEF IInv, LoginInv
  <2>3. /\ \A fd, other \in Fds :
              m_connections[fd] # None /\ fd # other => m_connections[fd] # m_connections[other]
        /\ draining = None \/ \E fd \in Fds : m_connections[fd] = draining
    BY <1>1 DEF IInv, NetInv
  <2>4. IsFiniteSet(g_client_queue) /\ Occupied + (IF draining = None THEN 0 ELSE 1) <= ClientSlots
    BY <1>1 DEF IInv, SlotsInv
  <2>5. size \in 0 .. Len(storage) /\ \A k \in 1 .. size : storage[k] \in client_info
    BY <1>1 DEF IInv, ListInv
  <2> QED BY <2>1, <2>2, <2>3, <2>4, <2>5 DEF GateTypeOK
<1> QED BY <1>1, Invariance, PTL

\* FdStaysWithLogin: what m_usrfd has for a user leads to the connection of the user's last login,
\* or that connection is closed.
THEOREM FdKept == GatewaySpec => []FdStaysWithLogin
<1>1. ASSUME IInv PROVE FdStaysWithLogin
  <2>1. ASSUME NEW u \in Users, loggedOn[u] # None, m_usrfd[u] \in Fds
        PROVE  m_connections[m_usrfd[u]] = loggedOn[u] \/ \A fd \in Fds : m_connections[fd] # loggedOn[u]
    BY <1>1, <2>1 DEF IInv, LoginInv, Attached
  <2> QED BY <2>1 DEF FdStaysWithLogin
<1> QED BY <1>1, Invariance, PTL

\* GoodClientListed: who is logged in on an open connection is in the list, but for the three cases
\* that it names.
THEOREM ClientsListed == GatewaySpec => []GoodClientListed
<1>1. ASSUME IInv PROVE GoodClientListed
  <2> SUFFICES ASSUME gate = "runs", ~overlapped, NEW u \in Users, Good(u)
               PROVE  \E k \in 1 .. size : storage[k].usrid = u /\ m_connections[storage[k].fd] = loggedOn[u]
    BY DEF GoodClientListed, Good
  <2>1. PICK k \in 1 .. size : At(u, k)
    BY <1>1 DEF IInv, ListedInv
  <2> QED BY <2>1 DEF At
<1> QED BY <1>1, Invariance, PTL

\* WalkReachesAll: at the end of a walk nobody who was in the list and is still connected is left,
\* unless run_client erased somebody meanwhile.
THEOREM WalkReaches == GatewaySpec => []WalkReachesAll
<1>1. ASSUME IInv PROVE WalkReachesAll
  <2> SUFFICES ASSUME broadcast # None, broadcast.i = broadcast.j, NEW c \in todo, peer[c] = "open"
               PROVE  FALSE
    BY DEF WalkReachesAll
  <2>1. PICK k \in broadcast.i .. broadcast.j - 1 : m_connections[storage[k].fd] = c
    BY <1>1 DEF IInv, WalkInv
  <2>2. PICK i \in Nat : i = broadcast.i /\ i = broadcast.j
    BY <1>1 DEF IInv, ThreadInv
  <2>3. k \in i .. i - 1
    BY <2>1, <2>2
  <2> QED BY <2>2, <2>3
<1> QED BY <1>1, Invariance, PTL

\* NothingLostOrTwice: every message a client has sent is taken once or still on its way, but for
\* the last ones of a client that left.
THEOREM NothingLost == GatewaySpec => []NothingLostOrTwice
<1>1. ASSUME IInv PROVE NothingLostOrTwice
  BY <1>1 DEF IInv, NumbersInv, Account, NothingLostOrTwice
<1> QED BY <1>1, Invariance, PTL
=============================================================================
